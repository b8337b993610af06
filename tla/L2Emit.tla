------------------------------- MODULE L2Emit -------------------------------
(***************************************************************************)
(* compile_output and its emitters (lqa/sparql.rs): a query SPARQL cannot  *)
(* say in one SELECT becomes a continuation, a first query and a function  *)
(* from its rows to the next query, which holds its rows as VALUES and     *)
(* asks the store nothing.                                                 *)
(*                                                                         *)
(* An output is none, error[err], complete[query, cols, once] or           *)
(* continue[first, then]; then is the data the function closes over:       *)
(*   lists[items]        list comprehensions, evaluated member by member   *)
(*   places[as]          a row without a value for each row                *)
(*   members[as, items]  the members of a list, for each row               *)
(* Rows come back from the caller's executor as texts.                     *)
(***************************************************************************)
EXTENDS ReadCompile, ResultMapping

None == [kind |-> "none"]
ErrorOut(err) == [kind |-> "error", err |-> err]
Complete(query, cols, once) == [kind |-> "complete", query |-> query, cols |-> cols, once |-> once]
Continuation(first, then) == [kind |-> "continue", first |-> first, then |-> then]

\* What an emitter recognises: the tree of the first query, the name whose
\* values are all it asks for, and what is made of the rows.
First(op, anchor, then) == [kind |-> "first", op |-> op, anchor |-> anchor, then |-> then]
RowPlaces(items) == [f |-> "places", as |-> Aliases(items)]

Checked(c) == IF c.err = "" THEN Complete(c.query, c.cols, c.once) ELSE ErrorOut(c.err)
CompileOutput(op) == Checked(Compile(op))

ScalarCols(names) == [i \in DOMAIN names |-> Computed(names[i], names[i])]

\* The query that holds its rows.
HoldingRows(names, rows) ==
  Complete(Projecting(IF rows = <<>> THEN Filter(<<>>, ValX(False)) ELSE ValuesOf(names, rows), names),
           ScalarCols(names), FALSE)

NoTerm == <<>>
Unvalued(names) == [i \in DOMAIN names |-> NoTerm]
Projects(op) == op.o = "project" /\ ~ op.distinct

-----------------------------------------------------------------------------
(* List comprehensions over a property of a name, and nothing else. *)

\* It maps all members; [x IN a.k] has no mapping.
ListOfProperty(item) ==
  /\ item.x.e = "listcomp" /\ item.x.list.e = "prop"
  /\ item.x.where = Always /\ item.x.map # Variable(item.x.v)

\* The first query asks for the properties, under names of its own.
SourceOf(as) == "__lc_src_" \o as
ListCompProjection(op) ==
  LET sources == [i \in DOMAIN op.items |-> [x |-> op.items[i].x.list, as |-> SourceOf(op.items[i].as)]]
  IN IF Projects(op) /\ \A i \in DOMAIN op.items : ListOfProperty(op.items[i])
     THEN First([op EXCEPT !.items = sources], "", [f |-> "lists", items |-> op.items])
     ELSE None

BadText == <<"unsupported">>

\* A mutant of ParseCypherList: the text must be quoted.
ParseQuotedList(text) == IF text[1] = "text" THEN text[2] ELSE BadText

\* The text of a list begins with its bracket.
ParseCypherList(text) == IF text[1] = "list" THEN text ELSE BadText

Arith(op, a, b) ==
  CASE BadText \in {a, b} -> BadText
    [] BadText \notin {a, b} /\ Null \in {a, b} -> Null
    [] {a, b} \cap {BadText, Null} = {} /\ ~ (a[1] = "int" /\ b[1] = "int") -> BadText
    [] OTHER -> IF op = "add" THEN IntV(a[2] + b[2]) ELSE IF b[2] = 0 THEN Null ELSE IntV(Quotient(a[2], b[2]))

\* Only the variable of the comprehension, literals and arithmetic.
RECURSIVE EvalMap(_, _, _)
EvalMap(x, v, member) ==
  CASE x.e = "var" -> IF x.v = v THEN member ELSE BadText
    [] x.e = "lit" -> x.x
    [] x.e \in {"add", "div"} -> Arith(x.e, EvalMap(x.a, v, member), EvalMap(x.b, v, member))
    [] OTHER -> BadText

\* An absent property becomes the word null.
MappedList(item, row) ==
  LET source == SourceOf(item.as)
      list == IF source \in DOMAIN row THEN ParseCypherList(row[source]) ELSE Null
      members == [i \in DOMAIN list[2] |-> EvalMap(item.x.map, item.x.v, list[2][i])]
  IN CASE list = Null -> Text(Null)
       [] list = BadText -> BadText
       [] OTHER -> IF Contains(members, BadText) THEN BadText ELSE Text(<<"list", members>>)

EvaluatedLists(items, rows) ==
  LET values == [i \in DOMAIN rows |-> [j \in DOMAIN items |-> MappedList(items[j], rows[i])]]
  IN IF \E i \in DOMAIN values : Contains(values[i], BadText) THEN ErrorOut("unsupported")
     ELSE HoldingRows(Aliases(items), values)

-----------------------------------------------------------------------------
(* Emitters of rows without values: the number of rows is the answer. *)

RECURSIVE HasPattern(_)
HasPattern(x) ==
  CASE x.e \in {"patcomp", "degree"} -> TRUE
    [] x.e = "listcomp" -> HasPattern(x.list) \/ HasPattern(x.where) \/ HasPattern(x.map)
    [] x.e \in {"add", "div", "and", "or"} -> HasPattern(x.a) \/ HasPattern(x.b)
    [] x.e \in {"not", "isnull", "size"} -> HasPattern(x.a)
    [] OTHER -> FALSE

\* A list comprehension that evaluates a pattern for each member.
ComplexListComp(op) ==
  IF Projects(op) /\ \E i \in DOMAIN op.items : op.items[i].x.e = "listcomp" /\ HasPattern(op.items[i].x.map)
  THEN First(op.in, "", RowPlaces(op.items)) ELSE None

\* WITH [pattern] AS ps, aggregates: one row for each node the pattern starts at.
StartsOf(in, anchor) == Complete(Distinctly(Projecting(in.query, <<anchor>>)), ScalarCols(<<anchor>>), TRUE)

PatternCompGroup(op) ==
  LET with == op.in
      key == {i \in DOMAIN with.items : with.items[i].as = with.in.keys[1] /\ with.items[i].x.e = "patcomp"}
  IN IF Projects(op) /\ Projects(with) /\ with.in.o = "group" /\ Len(with.in.keys) = 1 /\ key # {}
     THEN First(with.in.in, with.items[FirstOf(key)].x.from, RowPlaces(op.items))
     ELSE None

\* The grouping under a RETURN, or under the WITH under it.
GroupUnder(op) == IF op.in.o = "project" THEN op.in.in ELSE op.in
GroupsUnder(op) == Projects(op) /\ (op.in.o = "group" \/ (op.in.o = "project" /\ op.in.in.o = "group"))

RECURSIVE HasPath(_)
HasPath(op) ==
  CASE op.o = "expand" -> op.path # "" \/ HasPath(op.in)
    [] op.o \in {"select", "project"} -> HasPath(op.in)
    [] OTHER -> FALSE

\* collect() of all the rows of a path is one row.
GlobalCollect(op) ==
  LET group == GroupUnder(op) IN
  IF GroupsUnder(op) /\ group.keys = <<>> /\ (\E i \in DOMAIN group.aggs : group.aggs[i].x.f = "collect")
     /\ HasPath(group.in)
  THEN HoldingRows(Aliases(op.items), <<Unvalued(op.items)>>) ELSE None

\* Paths of any length, grouped by themselves or by their length: the walks of
\* up to five hops are told apart by their ends and their length.
MaxDepth == 5
Walks(edge, k) ==
  LET ends == Bgp(<<NodeT(X("__from"))>>)
      hops == IF k = 0 THEN <<>> ELSE Chains(X("__from"), edge.types, X("__to"), edge.dir, k, k)
  IN Bind(ends \o hops \o Bgp(<<NodeT(X("__to"))>>), ValX(IntV(k)), "__len")

VarlenPathWalks(top, edge, byPath) ==
  LET vars == IF byPath THEN <<"__from", "__to", "__len">> ELSE <<"__len">>
      walks == [k \in 1 .. MaxDepth - edge.hops[1] + 1 |-> Walks(edge, edge.hops[1] + k - 1)]
      All(ws) == FoldLeft(LAMBDA p, w : UnionOfTwo(p, w), ws[1], Tail(ws))
  IN Continuation(Complete(Distinctly(Projecting(All(walks), vars)), ScalarCols(vars), TRUE), RowPlaces(top.items))

VarlenPathGroup(op) ==
  LET top == IF op.o = "order" THEN op.in ELSE op
      group == GroupUnder(top)
      edge == group.in
      items == IF top.in.o = "project" THEN top.in.items ELSE top.items
      byPath == group.keys[1] = edge.path
      byLength == \E i \in DOMAIN items : items[i].as = group.keys[1] /\ items[i].x = [e |-> "length", v |-> edge.path]
  IN IF /\ GroupsUnder(top)
        /\ top.in.o = "project" => ~ top.in.distinct
        /\ edge.o = "expand" /\ edge.path # "" /\ Len(edge.hops) = 1
        /\ Len(group.keys) = 1 /\ (byPath \/ byLength)
     THEN VarlenPathWalks(top, edge, byPath) ELSE None

-----------------------------------------------------------------------------
(* UNWIND of a list that holds variables. *)

RECURSIVE VarKinds(_)
VarKinds(op) ==
  CASE op.o = "scan" -> op.v :> "node"
    [] op.o = "expand" -> (op.rv :> "rel" @@ op.path :> "path") @@ VarKinds(op.in)
    [] op.o \in {"select", "project", "order", "unwind", "limit", "skip"} -> VarKinds(op.in)
    [] OTHER -> [v \in {} |-> ""]

\* Members are sorted by the rank of their type alone.
TypeRank(x, kinds) ==
  CASE x.e = "var" -> IF x.v \notin DOMAIN kinds THEN 3
                      ELSE CASE kinds[x.v] = "node" -> 1 [] kinds[x.v] = "rel" -> 2 [] OTHER -> 4
    [] x.e = "list" -> 3
    [] x.e = "map" -> 0
    [] x.e = "lit" /\ x.x[1] = "bool" -> 6
    [] x.e = "lit" /\ x.x[1] = "int" -> 7
    [] x.e = "lit" /\ x.x = Null -> 9
    [] OTHER -> 5

ByRank(items, kinds, desc) ==
  LET OfType(x) == <<IntV(TypeRank(x, kinds))>> IN Sorted(items, <<[desc |-> desc]>>, OfType)

\* Whatever the outer projections compute, the members are the answer; LIMIT is
\* taken from the list, for each row.
MixedMembers(op, a, b, unwind) ==
  LET kinds == VarKinds(unwind.in)
      all == ByRank(unwind.list.items, kinds, b.o = "order" /\ b.keys[1].desc)
  IN [f |-> "members", kinds |-> kinds,
      as |-> IF Projects(op) /\ Len(op.items) = 1 THEN op.items[1].as ELSE unwind.v,
      items |-> IF a.o = "limit" /\ a.n < Len(all) THEN SubSeq(all, 1, a.n) ELSE all]

Under(op, o) == IF op.o = o THEN op.in ELSE op
UnwindMixedList(op) ==
  LET a == IF Projects(op) THEN op.in ELSE op
      b == Under(a, "limit")
      unwind == Under(Under(b, "order"), "project")
  IN IF unwind.o = "unwind" /\ unwind.list.e = "list" /\ (\E i \in DOMAIN unwind.list.items : unwind.list.items[i].e = "var")
     THEN First(unwind.in, "", MixedMembers(op, a, b, unwind))
     ELSE None

\* A member of the list as the text of a literal; null has no term, and of a list
\* or a map only the brackets are written.
Member(x, row, kinds) ==
  CASE x.e = "lit" -> IF x.x = Null THEN NoTerm ELSE Text(x.x)
    [] x.e = "var" -> IF x.v \in DOMAIN row THEN Text(row[x.v])
                      ELSE IF x.v \in DOMAIN kinds THEN Text(<<"complex">>) ELSE NoTerm
    [] x.e \in {"list", "map"} -> Text(<<x.e, <<>>>>)
    [] OTHER -> Text(<<"expr">>)

\* A mutant of UnwoundMembers: members without a term give no row.
UnwoundBound(then, rows) ==
  LET members == FlatMap(LAMBDA r : [i \in DOMAIN then.items |-> <<Member(then.items[i], r, then.kinds)>>], rows)
  IN HoldingRows(<<then.as>>, SelectSeq(members, LAMBDA tuple : tuple # <<NoTerm>>))

UnwoundMembers(then, rows) ==
  HoldingRows(<<then.as>>,
              FlatMap(LAMBDA r : [i \in DOMAIN then.items |-> <<Member(then.items[i], r, then.kinds)>>], rows))

-----------------------------------------------------------------------------
\* A query the compiler refuses is refused, or left to the next emitter if only
\* the number of rows was wanted.
Emitted(found) ==
  LET Asking(first) == IF found.anchor = "" THEN first ELSE StartsOf(first, found.anchor)
      After(first) ==
        CASE first.kind # "error" -> Continuation(Asking(first), found.then)
          [] first.kind = "error" /\ found.then.f = "places" -> None
          [] OTHER -> first
  IN IF found.kind = "first" THEN After(CompileOutput(found.op)) ELSE found

\* The emitters, in the order they are tried; the first that recognises the
\* query takes it.
FirstTaken(out, other) == IF out = None THEN other ELSE out
TryL2Compile(op) ==
  FoldLeft(LAMBDA out, found : FirstTaken(out, Emitted(found)), None,
           <<ListCompProjection(op), VarlenPathGroup(op), PatternCompGroup(op), ComplexListComp(op), GlobalCollect(op),
             UnwindMixedList(op)>>)

\* continue_fn: the next output from the rows of the first query.
Continue(then, rows) ==
  CASE then.f = "lists" -> EvaluatedLists(then.items, rows)
    [] then.f = "places" ->
         HoldingRows(then.as, [i \in DOMAIN rows |-> Unvalued(then.as)])
    [] then.f = "members" -> UnwoundMembers(then, rows)
=============================================================================
