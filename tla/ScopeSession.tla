---------------------------- MODULE ScopeSession ----------------------------
(***************************************************************************)
(* A query given to the semantic checks clause by clause, next to what     *)
(* openCypher says of it: the names in scope with the type of what they    *)
(* stand for, and the faults of the query.  A fault the checks do not look *)
(* for has the name NotLookedAt.                                           *)
(***************************************************************************)
EXTENDS QueryScope

CONSTANTS
  Clauses,    \* the clauses a query may have
  MaxClauses  \* bound: how many it has

\* The expressions of a clause that the checks read.
ExprsOf(c) ==
  CASE c.op = "match" -> {c.where}
    [] c.op \in {"with", "return"} -> Exprs(c) \cup c.orderBy
    [] c.op = "delete" -> c.exprs
    [] c.op = "set" -> {i.value : i \in c.items}
    [] c.op = "create" -> {c.elems[i].uses : i \in DOMAIN c.elems}
    [] c.op = "merge" -> {i.value : i \in c.sets}
    [] OTHER -> {}

\* A name, or a property of a name, is one term; the checks find every
\* aggregate, and what stands next to one.
ASSUME ExpressionAssumption ==
  \A c \in Clauses : \A e \in ExprsOf(c) :
    /\ \A t \in e.terms : t.name \in Names
    /\ IsTerm(e) =>
         /\ e.aggs = {}
         /\ \E t \in e.terms : e.terms = {t} /\ t.through = {} /\ (t.key = NoKey <=> e.top = "name")
    /\ \A g \in e.aggs : g.through \subseteq ContainsWalk
    /\ e.aggs # {} => \A t \in e.terms : "agg" \in t.through \/ (e.top # "agg" /\ t.through \subseteq AtomWalk)

ASSUME ClauseAssumption ==
  \A c \in Clauses :
    /\ c.op = "match" => c.paths \cup c.nodes \cup Links(c) \subseteq Names
    /\ c.op = "with" => Projected(c) \subseteq Names \cup {NoName} /\ DOMAIN c.items \subseteq Nat
    /\ c.op = "unwind" => c.name \in Names
    /\ c.op \in {"create", "merge"} =>
         /\ Len(c.elems) \in Nat /\ DOMAIN c.elems = 1 .. Len(c.elems)
         /\ c.paths \cup Introduced(c) \subseteq Names
    /\ c.op = "call" => c.yields \subseteq Names
    /\ c.op = "union" => c.all \in BOOLEAN

ASSUME LengthAssumption == MaxClauses \in Nat

VARIABLES
  seen,       \* kinds, bound_vars and seen_match
  arm, arms, alls,  \* the columns of the arms of a UNION, and which were ALL
  verdict,    \* open, refused or accepted
  ops, last, length,  \* the clauses read
  scope, faults

vars == <<seen, arm, arms, alls, verdict, ops, last, length, scope, faults>>

-----------------------------------------------------------------------------
(* openCypher.  The types are node, rel, path, rels (relationships of a walk,
   or a list of relationships), list (of other names), value, and any for what
   is only known when the query runs. *)

Types == {"absent", "node", "rel", "path", "rels", "list", "value", "any"}
Present(sc) == {n \in Names : sc[n] # "absent"}
Typed(sc, ns, type) == [n \in Names |-> IF n \in ns THEN type ELSE sc[n]]
Fault(what, here) == IF here THEN {what} ELSE {}

Usual == {"arith", "bool", "cmp", "not", "null", "fn"}
FaultIn(t, places, what) == IF t.through \subseteq places THEN what ELSE "NotLookedAt"
Undefined(e, names, places) ==
  {FaultIn(t, places, "UndefinedVariable") : t \in {u \in e.terms : u.name \notin names}}

ItemType(e, sc) ==
  LET types == {sc[t.name] : t \in e.terms}
  IN  CASE e.top = "name" -> CHOOSE x \in types : TRUE
        [] e.top = "names" -> IF types \subseteq {"rel"} THEN "rels" ELSE "list"
        [] e.top \in {"literal", "map", "list", "maps"} -> "value"
        [] OTHER -> "any"

\* What stands next to an aggregate has one value for all rows of a group.
OutsideAggregates(e) == {[name |-> t.name, key |-> t.key] : t \in {u \in e.terms : "agg" \notin u.through}}
GroupTerms(c) == UNION {OutsideAggregates(e) : e \in {x \in Exprs(c) : x.aggs = {} /\ IsTerm(x)}}
AggregateFaults(c) ==
  Fault("AmbiguousAggregation",
    \/ \E e \in Exprs(c) : e.aggs # {} /\ ~(OutsideAggregates(e) \subseteq GroupTerms(c))
    \/ \E e \in c.orderBy :
         /\ e.aggs # {}
         /\ ~(OutsideAggregates(e) \subseteq GroupTerms(c) \cup {[name |-> n, key |-> NoKey] : n \in Aliases(c)}))
  \cup Fault("InvalidAggregation", (\A e \in Exprs(c) : e.aggs = {}) /\ \E e \in c.orderBy : e.aggs # {})
  \cup (UNION {IF e.top = "agg" /\ c.op = "return" THEN {"NestedAggregation"} ELSE {"NotLookedAt"} :
                e \in {x \in Exprs(c) : \E g \in x.aggs : g.nested}})

\* After the aggregates of a WITH only what it projects can be sorted by.
Sortable(c, sc) ==
  IF \E e \in Exprs(c) : e.aggs # {} THEN Aliases(c) \cup {t.name : t \in GroupTerms(c)}
  ELSE Present(sc) \cup Projected(c)
WithFaults(c, sc) ==
  IF c.star THEN {}
  ELSE Fault("UnexpectedSyntax", \E e \in Exprs(c) : e.top = "pattern")
       \cup Fault("NoExpressionAlias", NoName \in Projected(c))
       \cup Fault("NotLookedAt", \E i, j \in DOMAIN c.items : i # j /\ NameOf(c.items[i]) = NameOf(c.items[j]))
       \cup Fault("NotLookedAt", \E e \in Exprs(c) : \E t \in e.terms : t.name \notin Present(sc))
       \cup (UNION {IF Present(sc) = {} THEN Fault("NotLookedAt", e.terms # {}) ELSE Undefined(e, Sortable(c, sc), Usual) :
                     e \in {x \in c.orderBy : x.aggs = {}}})
       \cup Fault("UndefinedVariable",
              \E e \in c.orderBy : e.aggs # {} /\ OutsideAggregates(e) = {} /\ e \notin Exprs(c))
       \cup AggregateFaults(c)
ScopeAfterWith(c, sc) ==
  LET item(n) == c.items[CHOOSE i \in DOMAIN c.items : NameOf(c.items[i]) = n]
  IN  IF c.star THEN sc
      ELSE [n \in Names |-> IF n \in Projected(c) THEN ItemType(item(n).expr, sc) ELSE "absent"]

\* A list of results that are all different can only be sorted by its columns.
DistinctFaults(c, sc) ==
  LET columns == Projected(c) \cup {t.name : t \in UNION {e.terms : e \in {x \in Exprs(c) : x.top = "name"}}}
      hidden == {e \in c.orderBy : e \notin Exprs(c) /\ \E t \in e.terms : t.name \notin columns}
  IN  Fault("UndefinedVariable",
        c.distinct /\ \E e \in hidden : e.top = "property" /\ \A t \in e.terms : t.name \in Present(sc))
      \cup Fault("NotLookedAt", c.distinct /\ \E e \in hidden : e.top # "property")
      \cup Fault("NotLookedAt", \E e \in c.orderBy : \E t \in e.terms : t.name \notin Present(sc) \cup Projected(c))
Inner(c) == UNION {e.terms : e \in Exprs(c)}
ReturnFaults(c, sc) ==
  Fault(IF "match" \in ops THEN "NoVariablesInScope" ELSE "NotLookedAt", c.star /\ Present(sc) = {})
  \cup Fault("UnexpectedSyntax", \E e \in Exprs(c) : e.top = "pattern")
  \cup {FaultIn(t, Usual \cup {"neg", "size", "pattern"}, "UnexpectedSyntax") :
           t \in {u \in Inner(c) : {"size", "pattern"} \subseteq u.through}}
  \cup {FaultIn(t, Usual \cup {"neg", "size"}, "InvalidArgumentType") :
           t \in {u \in Inner(c) : "size" \in u.through /\ u.key = NoKey /\ sc[u.name] = "path"}}
  \cup (UNION {Undefined(e, Present(sc), Usual \cup {"map", "label"}) : e \in Exprs(c)})
  \cup {FaultIn(g, Usual \cup {"neg", "list", "comp"}, "InvalidAggregation") :
           g \in {h \in UNION {e.aggs : e \in Exprs(c)} : "comp" \in h.through}}
  \cup DistinctFaults(c, sc)
  \cup AggregateFaults(c)

\* A pattern gives a name one type; a name that has one keeps it.
ScopeInMatch(c, sc) ==
  Typed(Typed(Typed(Typed(sc, c.paths, "path"), c.walks, "rels"), c.rels, "rel"), c.nodes, "node")
WhereFaults(c, sc) ==
  LET e == c.where
      after == ScopeInMatch(c, sc)
      Bare(t) == t.key = NoKey /\ t.through \subseteq {"bool", "not"}
  IN  Undefined(e, Present(after), Usual \cup {"pattern"})
      \cup Fault("InvalidAggregation", e.aggs # {})
      \cup Fault("InvalidArgumentType",
             \E t \in e.terms : \/ Bare(t) /\ after[t.name] \in {"node", "rel"}
                                \/ t.key # NoKey /\ t.through \subseteq {"bool", "cmp", "not", "null"} /\ after[t.name] = "path"
                                \/ "node" \in t.through /\ t.through \subseteq {"bool", "not", "node"})
      \cup Fault("NotLookedAt", \E t \in e.terms : Bare(t) /\ after[t.name] = "rels")
MatchFaults(c, sc) ==
  Fault("VariableAlreadyBound", "path" \in c.twice \/ \E n \in c.paths : sc[n] \notin {"absent", "any"})
  \cup Fault("NotLookedAt", \E n \in c.paths : sc[n] = "any")
  \cup Fault("RelationshipUniquenessViolation", "rel" \in c.twice)
  \cup Fault("VariableTypeConflict",
         \/ \E n \in c.nodes : sc[n] \notin {"absent", "any", "node"} \/ n \in Links(c) \cup c.paths
         \/ \E n \in Links(c) : sc[n] \in {"node", "path", "value"} \/ n \in c.paths)
  \cup Fault("NotLookedAt",
         \/ c.rels \cap c.walks # {}
         \/ \E n \in c.rels : sc[n] \in {"rels", "list"}
         \/ \E n \in c.walks : sc[n] \in {"rel", "list"})
  \cup WhereFaults(c, sc)

\* The writes.  Only the values of some items of a SET are looked at.
ValueFaults(items, names, places) ==
  (UNION {Undefined(i.value, names, places) : i \in Valued(items)})
  \cup Fault("NotLookedAt", \E i \in items : \E t \in i.value.terms : i \notin Valued(items) /\ t.name \notin names)
DeleteFaults(c, sc) ==
  Fault("InvalidDelete", \E e \in c.exprs : e.top = "label")
  \cup Fault("InvalidArgumentType", \E e \in c.exprs : e.top \in {"literal", "arith"})
  \cup Fault(IF Present(sc) = {} THEN "NotLookedAt" ELSE "UndefinedVariable",
             \E e \in c.exprs : e.top = "name" /\ \E t \in e.terms : t.name \notin Present(sc))
SetFaults(c, sc) ==
  Fault("InvalidPropertyType", \E i \in c.items : i.form = "property" /\ i.value.top \in {"map", "maps"})
  \cup {FaultIn(t, Usual \cup {"list", "map", "comp", "pattern"}, "UnexpectedSyntax") :
           t \in {u \in UNION {i.value.terms : i \in {j \in c.items : j.form = "property"}} : "pattern" \in u.through}}
  \cup Fault("NotLookedAt", \E i \in c.items : i.name \notin Present(sc))
  \cup IF Present(sc) = {} THEN Fault("NotLookedAt", \E i \in c.items : i.value.terms # {})
       ELSE ValueFaults(c.items, Present(sc), {"arith", "cmp", "not", "fn"})

\* A pattern that is created makes every element that has no name in scope.
PatternFaults(c, sc) ==
  LET New(i) == Present(sc) \cup Earlier(c, i)
      rels == {i \in DOMAIN c.elems : c.elems[i].rel}
      nodes == DOMAIN c.elems \ rels
  IN  Fault("VariableAlreadyBound",
        \/ \E i \in rels : c.elems[i].name \in New(i)
        \/ \E i \in nodes : c.elems[i].name \in New(i) /\ (c.elems[i].extra \/ c.elems[i].alone))
      \cup Fault("NotLookedAt",
        \/ \E i \in nodes : c.elems[i].name \in {n \in Names : sc[n] \notin {"absent", "any", "node"}}
        \/ \E i \in nodes : \E j \in rels : j < i /\ c.elems[i].name = c.elems[j].name /\ c.elems[i].name # NoName
        \/ \E n \in c.paths : n \in Present(sc) \cup Introduced(c))
      \cup Fault("NoSingleRelationshipType", \E i \in rels : c.elems[i].types # 1)
      \cup Fault("CreatingVarLength", \E i \in rels : c.elems[i].range)
Made(c, sc) ==
  LET fresh == Introduced(c) \ Present(sc)
      links == {n \in fresh : \E i \in DOMAIN c.elems : c.elems[i].rel /\ c.elems[i].name = n}
  IN  Typed(Typed(Typed(sc, fresh, "node"), links, "rel"), c.paths, "path")
CreateFaults(c, sc) ==
  PatternFaults(c, sc)
  \cup Fault("RequiresDirectedRelationship", \E i \in DOMAIN c.elems : c.elems[i].rel /\ c.elems[i].both)
  \cup (UNION {LET x == c.elems[i]
                  known == Present(sc) \cup Earlier(c, i)
              IN  IF x.rel THEN {}
                  ELSE Undefined(x.uses, known \cup {x.name}, {"arith", "fn"})
                       \cup Fault("NotLookedAt", \E t \in x.uses.terms : t.name = x.name /\ x.name \notin known)
              : i \in DOMAIN c.elems})
MergeFaults(c, sc) ==
  PatternFaults(c, sc)
  \cup Fault("SemanticError", \E i \in DOMAIN c.elems : c.elems[i].null)
  \cup Fault("UndefinedVariable", \E i \in c.sets : i.name \notin Present(Made(c, sc)))
  \cup ValueFaults(c.sets, Present(Made(c, sc)), {"arith"})

-----------------------------------------------------------------------------
(* One clause after the other.  A query ends with its first error, and what
   comes after its first fault is of no interest. *)

Init ==
  /\ seen = Nothing /\ verdict = "open"
  /\ arm = NoColumns /\ arms = <<>> /\ alls = {}
  /\ ops = {} /\ last = "start" /\ length = 0
  /\ scope = [n \in Names |-> "absent"] /\ faults = {}

Ends == {"return", "delete", "set", "create", "merge"}
Follows(op) ==
  /\ verdict = "open" /\ faults = {} /\ length < MaxClauses
  /\ last = "return" => op = "union"
  /\ op = "union" => last \in Ends

Clause(c, errors, then, wrong, after) ==
  /\ Follows(c.op)
  /\ verdict' = IF errors = {} THEN "open" ELSE "refused"
  /\ seen' = IF errors = {} THEN then ELSE seen
  /\ faults' = wrong
  /\ scope' = IF wrong = {} THEN after ELSE scope
  /\ ops' = ops \cup {c.op} \cup (IF c.op = "create" /\ c.paths # {} THEN {"path"} ELSE {})
  /\ last' = c.op /\ length' = length + 1

Plain == UNCHANGED <<arm, arms, alls>>

Match ==
  \E c \in Clauses :
    /\ c.op = "match"
    /\ Clause(c, MatchErrors(c, seen), AfterMatch(c, seen), MatchFaults(c, scope), ScopeInMatch(c, scope))
    /\ Plain
With ==
  \E c \in Clauses :
    /\ c.op = "with"
    /\ Clause(c, WithErrors(c, seen), AfterWith(c, seen), WithFaults(c, scope), ScopeAfterWith(c, scope))
    /\ arm' = Columns(c) /\ UNCHANGED <<arms, alls>>
Return ==
  \E c \in Clauses :
    /\ c.op = "return"
    /\ Clause(c, ReturnErrors(c, seen), seen, ReturnFaults(c, scope), scope)
    /\ arm' = Columns(c) /\ UNCHANGED <<arms, alls>>
Unwind ==
  \E c \in Clauses :
    /\ c.op = "unwind"
    /\ Clause(c, {}, AfterUnwind(c, seen), Fault("NotLookedAt", c.name \in Present(scope)), Typed(scope, {c.name}, "any"))
    /\ Plain
Delete == \E c \in Clauses : c.op = "delete" /\ Clause(c, DeleteErrors(c, seen), seen, DeleteFaults(c, scope), scope) /\ Plain
Set == \E c \in Clauses : c.op = "set" /\ Clause(c, SetErrors(c, seen), seen, SetFaults(c, scope), scope) /\ Plain
Create ==
  \E c \in Clauses :
    c.op = "create" /\ Clause(c, CreateErrors(c, seen), AfterCreate(c, seen), CreateFaults(c, scope), Made(c, scope)) /\ Plain
Merge ==
  \E c \in Clauses :
    c.op = "merge" /\ Clause(c, MergeErrors(c, seen), AfterMerge(c, seen), MergeFaults(c, scope), Made(c, scope)) /\ Plain
\* CALL ... YIELD: the checks go past it.
Call ==
  \E c \in Clauses :
    /\ c.op = "call"
    /\ Clause(c, {}, seen, Fault("NotLookedAt", c.yields \cap Present(scope) # {}), Typed(scope, c.yields, "any"))
    /\ Plain
\* UNION: the checks go past it too, so what the first arm bound stays known.
Union ==
  \E c \in Clauses :
    /\ c.op = "union"
    /\ Clause(c, {}, seen, {}, [n \in Names |-> "absent"])
    /\ arms' = Append(arms, arm) /\ arm' = NoColumns /\ alls' = alls \cup {c.all}
\* The columns of the arms; the code looks at them first, and reports their error first.
Finish ==
  /\ verdict = "open" /\ last \in Ends
  /\ LET all == Append(arms, arm) IN
       /\ verdict' = IF UnionErrors(alls, all) = {} THEN "accepted" ELSE "refused"
       /\ faults' = faults
            \cup Fault("InvalidClauseComposition", alls = BOOLEAN)
            \cup Fault("DifferentColumnsInUnion", \E i, j \in DOMAIN all : all[i] # all[j])
  /\ UNCHANGED <<seen, arm, arms, alls, ops, last, length, scope>>

Next ==
  \/ Match \/ With \/ Return \/ Unwind
  \/ Delete \/ Set \/ Create \/ Merge
  \/ Call \/ Union \/ Finish
Spec == Init /\ [][Next]_vars

-----------------------------------------------------------------------------
(* Properties.  UNION, CALL and the path of a CREATE are left out of those on
   names: what they do to the scope is not kept. *)

ScopeTypeOK ==
  /\ seen \in [kinds : [Names -> Kinds], bound : SUBSET Names, matched : BOOLEAN]
  /\ verdict \in {"open", "refused", "accepted"} /\ alls \subseteq BOOLEAN
  /\ length \in 0 .. MaxClauses /\ last \in ops \cup {"start"}

\* No clause has been met whose names the checks lose.
Followed == ops \cap {"union", "call", "path"} = {}
\* Nothing is wrong so far.
Sound == Followed /\ verdict # "refused" /\ faults = {}

\* After any sequence of clauses the names the checks know are exactly those
\* in scope: no projection leaves one behind and none gets lost.
ScopeAgrees == Sound => seen.bound = Present(scope) /\ Known(seen) = Present(scope)

\* A kind is never stale: it is the type of what the name stands for now, after
\* every renaming and rebinding; and a name whose type the query gives has a
\* kind, as long as the query creates nothing.
Means(kind, read) ==
  CASE kind = "Node" -> {"node"}
    [] kind = "Rel" -> {"rel", "rels"}
    [] kind = "Path" -> {"path"}
    [] kind = "Scalar" -> {"value"}
    [] kind = "VarList" -> {"rels", "list"}
    [] OTHER -> {"any"} \cup (IF "create" \in read THEN {"node", "rel"} ELSE {})
KindsAgree == Sound => \A n \in Present(scope) : scope[n] \in Means(seen.kinds[n], ops)

\* A query in which nothing is wrong is never refused.
ValidAccepted == Followed /\ verdict = "refused" => faults # {}

\* A query that is wrong in a way the checks look for is refused: the names it
\* uses, twice or as two things, and its aggregates, over any sequence of
\* clauses.  A name that CREATE introduced may be used as anything.
Promised ==
  {"InvalidClauseComposition", "DifferentColumnsInUnion"}
  \cup IF ~Followed THEN {}
       ELSE {"UndefinedVariable", "UnexpectedSyntax", "NoExpressionAlias", "NoVariablesInScope", "NestedAggregation",
             "AmbiguousAggregation", "InvalidAggregation", "RelationshipUniquenessViolation", "InvalidDelete",
             "InvalidPropertyType", "NoSingleRelationshipType", "CreatingVarLength",
             "RequiresDirectedRelationship", "SemanticError"}
            \cup IF "create" \in ops THEN {}
                 ELSE {"VariableTypeConflict", "VariableAlreadyBound", "InvalidArgumentType"}
WrongRefused == faults \cap Promised # {} => verdict = "refused"
=============================================================================
