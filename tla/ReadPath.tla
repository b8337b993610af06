------------------------------ MODULE ReadPath ------------------------------
(***************************************************************************)
(* try_lqa_path (lib.rs) for a reading query: which of the compilers gets  *)
(* the query.  Its answer is an output of L2Emit, or legacy: the query is  *)
(* left to the older translator.  A query is asked of it after the checks  *)
(* of semantics.rs; finalize changes nothing for the engines of            *)
(* sparql_engine/.                                                         *)
(***************************************************************************)
EXTENDS L2Emit

Legacy == [kind |-> "legacy"]

ExactHops(hops) == Len(hops) = 2 /\ hops[1] = hops[2]

Clauses(q) == FlattenSeq(q.arms)
ProjectionsOf(q) == SelectSeq(Clauses(q), LAMBDA cl : cl.c \in {"with", "return"})
DuplicateAlias(q) ==
  \E i \in DOMAIN ProjectionsOf(q) :
    Cardinality(Columns(ProjectionsOf(q)[i])) < Len(ProjectionsOf(q)[i].items)

-----------------------------------------------------------------------------
(* lqa_safe_reason walks the clauses of all arms as one sequence.  Its     *)
(* state: the names bound, whether a WITH was met, the relationship names  *)
(* every WITH since has passed on, and the first reason found.             *)

\* An unbounded pattern needs something that tells its end apart.
Unconstrained(p, bound) == p.labels = <<>> /\ p.props = <<>> /\ p.v \notin bound \ {""}
Endpoints(chain, i) ==
  CASE chain.steps[i].rel.dir = "out" -> {i + 1}
    [] chain.steps[i].rel.dir = "in" -> {i}
    [] OTHER -> {i, i + 1}

RelReason(acc, chain, i) ==
  LET rel == chain.steps[i].rel
      bound == acc.bound \cup {Nodes(chain)[j].v : j \in 1 .. i}
  IN CASE rel.hops # <<>> /\ rel.props # <<>> -> "varlen_rel_props"
       [] rel.hops # <<>> /\ rel.props = <<>> /\ rel.v # "" -> "varlen_named_relvar"
       [] rel.hops # <<>> /\ rel.props = <<>> /\ rel.v = "" /\ chain.path # "" /\ ~ ExactHops(rel.hops) ->
            "named_path_varlen"
       [] rel.hops = <<>> /\ rel.v # "" /\ acc.with /\ rel.v \notin acc.live -> "relvar_after_with"
       [] Len(rel.hops) = 1 /\ rel.props = <<>> /\ rel.v = "" /\ chain.path = ""
          /\ (\E j \in Endpoints(chain, i) : Unconstrained(Nodes(chain)[j], bound)) -> "unbounded_varlen_unlabeled"
       [] OTHER -> ""

ChainReason(acc, chain) ==
  LET met == FoldLeftDomain(LAMBDA a, i :
                              IF a.reason # "" THEN a
                              ELSE [a EXCEPT !.reason = RelReason(a, chain, i), !.live = @ \cup {chain.steps[i].rel.v}],
                            acc, chain.steps)
  IN [met EXCEPT !.bound = @ \cup {Nodes(chain)[j].v : j \in DOMAIN Nodes(chain)}]

\* A WITH that renames a name leaves no relationship name usable.
WithReason(acc, cl) ==
  LET renames == \E i \in DOMAIN cl.items : cl.items[i].x.e = "var" /\ ~ Same(cl.items[i])
      passed == {cl.items[i].as : i \in {j \in DOMAIN cl.items : Same(cl.items[j])}}
  IN [acc EXCEPT !.with = TRUE, !.bound = Columns(cl), !.live = IF renames THEN {} ELSE @ \cap passed]

ClauseReason(acc, cl) ==
  CASE acc.reason = "" /\ cl.c = "match" -> FoldLeft(ChainReason, acc, cl.chains)
    [] acc.reason = "" /\ cl.c = "with" -> WithReason(acc, cl)
    [] OTHER -> acc

RECURSIVE RealAggregate(_)
RealAggregate(x) ==
  CASE x.e = "agg" -> x.f \notin {"count", "countStar"}
    [] x.e \in {"list", "map", "exists", "degree"} -> FALSE
    [] OTHER -> \E y \in Range(Children(x)) : RealAggregate(y)

NamesPath(cl) == cl.c = "match" /\ \E i \in DOMAIN cl.chains : cl.chains[i].path # ""

LqaSafeReason(q) ==
  LET walked == FoldLeft(ClauseReason, [bound |-> {}, with |-> FALSE, live |-> {}, reason |-> ""], Clauses(q))
      paths == \E i \in DOMAIN Clauses(q) : NamesPath(Clauses(q)[i])
      summed == \E i \in DOMAIN ProjectionsOf(q) : \E j \in DOMAIN ProjectionsOf(q)[i].items :
                  RealAggregate(ProjectionsOf(q)[i].items[j].x)
  IN CASE DuplicateAlias(q) -> "duplicate_alias"
       [] ~ DuplicateAlias(q) /\ Last(Clauses(q)).c # "return" -> "clause_shape"
       [] ~ DuplicateAlias(q) /\ Last(Clauses(q)).c = "return" /\ walked.reason # "" -> walked.reason
       [] OTHER -> IF paths /\ summed THEN "named_path_with_real_agg" ELSE ""

-----------------------------------------------------------------------------
\* Named paths are for the emitters alone.
OnlyL2 == {"named_path_varlen", "named_path_with_real_agg"}

OrLegacy(out, refused) == IF out = refused THEN Legacy ELSE out

\* What an emitter refuses stays refused where only emitters are tried, and goes
\* to the older translator elsewhere.
Routed(reason, op, emitted) ==
  CASE reason = "duplicate_alias" -> ErrorOut("translation")
    [] reason \in OnlyL2 -> OrLegacy(emitted, None)
    [] reason = "" -> OrLegacy(FirstTaken(emitted, CompileOutput(op)), ErrorOut("unsupported"))
    [] OTHER -> Legacy

\* An expression that is ill-typed on its face is an error of the query, if the
\* query gets so far.
Route(reason, op) ==
  IF reason \in OnlyL2 \cup {""} /\ op = Refused THEN ErrorOut("translation") ELSE Routed(reason, op, TryL2Compile(op))
TryLqaPath(q) == Route(LqaSafeReason(q), LowerQuery(q))
=============================================================================
