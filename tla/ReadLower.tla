------------------------------ MODULE ReadLower ------------------------------
(***************************************************************************)
(* lqa/lower.rs for reading queries: the clauses of a query become one     *)
(* tree of operators (lqa/op.rs), from the innermost clause outwards.      *)
(*   unit, scan[v, labels], expand[in, from, rv, to, types, dir, hops,     *)
(*   path],                                                                *)
(*   select[in, p], product[l, r], outer[l, r], project[in, items,         *)
(*   distinct], group[in, keys, aggs], order[in, keys], skip[in, n],       *)
(*   limit[in, n], distinct[in], unwind[in, list, v], union[l, r, all]     *)
(*                                                                         *)
(* The state of a lowering is the tree so far (op), the counter of fresh   *)
(* names (n), the variables some pattern mentioned (seen), the names bound *)
(* to a literal list (lists), the last expression (x), and whether one was *)
(* refused (bad); seen and lists are never taken back, neither by WITH nor *)
(* at UNION.                                                               *)
(***************************************************************************)
EXTENDS Integers, SequencesExt, Functions

-----------------------------------------------------------------------------
(* Expressions are trees: the expressions in one, and it with others in    *)
(* their place.                                                            *)

Parts == <<"a", "b", "list", "where", "map", "lo", "hi", "other">>
OwnParts(x) == SelectSeq(Parts, LAMBDA k : k \in DOMAIN x)
Children(x) ==
  LET own == OwnParts(x)
  IN [i \in DOMAIN own |-> x[own[i]]]
     \o (IF x.e = "list" THEN x.items ELSE <<>>)
     \o (IF x.e = "map" THEN [i \in DOMAIN x.pairs |-> x.pairs[i][2]] ELSE <<>>)
     \o (IF "branches" \in DOMAIN x THEN FlattenSeq([i \in DOMAIN x.branches |-> <<x.branches[i].when, x.branches[i].then>>])
         ELSE <<>>)
WithChildren(x, ys) ==
  LET own == OwnParts(x)
      rest == SubSeq(ys, Len(own) + 1, Len(ys))
      At(k) == ys[CHOOSE i \in DOMAIN own : own[i] = k]
  IN [k \in DOMAIN x |->
        CASE k \in Range(own) -> At(k)
          [] k = "items" -> rest
          [] k = "pairs" -> [i \in DOMAIN x.pairs |-> <<x.pairs[i][1], rest[i]>>]
          [] k = "branches" -> [i \in DOMAIN x.branches |-> [when |-> rest[2 * i - 1], then |-> rest[2 * i]]]
          [] OTHER -> x[k]]

Unit == [o |-> "unit"]
Variable(v) == [e |-> "var", v |-> v]
Select(op, p) == [o |-> "select", in |-> op, p |-> p]
Product(l, r) == [o |-> "product", l |-> l, r |-> r]

PropIs(v, prop) ==
  [e |-> "cmp", op |-> "=", a |-> [e |-> "prop", v |-> v, k |-> prop[1]], b |-> [e |-> "lit", x |-> prop[2]]]
Carries(v, l) == [e |-> "label", v |-> v, l |-> l]

\* One selection for each property the pattern asks of v.
WithProps(op, v, props) == FoldLeft(LAMBDA in, p : Select(in, PropIs(v, p)), op, props)
WithLabels(op, v, labels) == FoldLeft(LAMBDA in, l : Select(in, Carries(v, l)), op, labels)

-----------------------------------------------------------------------------
(* MATCH. *)

\* The node patterns of a chain, those without a name given one.
Nodes(chain) == <<chain.head>> \o [i \in DOMAIN chain.steps |-> chain.steps[i].node]
Anonymous(chain, i) == {j \in 1 .. i : Nodes(chain)[j].v = ""}
NodeNames(chain, n) ==
  [i \in DOMAIN Nodes(chain) |->
     IF Nodes(chain)[i].v # "" THEN Nodes(chain)[i].v
     ELSE "_lqa_anon_" \o ToString(n + Cardinality(Anonymous(chain, i)) - 1)]

\* A node pattern that follows a relationship, or whose variable an earlier
\* pattern mentioned, adds selections and no scan.
Endpoint(op, p, v) == WithProps(WithLabels(op, v, p.labels), v, p.props)

FirstNode(s, p, v) ==
  [s EXCEPT !.seen = @ \cup {v},
            !.op = IF v \in s.seen THEN Endpoint(Unit, p, v)
                   ELSE WithProps([o |-> "scan", v |-> v, labels |-> p.labels], v, p.props)]

\* A pattern without bounds follows one relationship; *lo.. has no upper bound.
Expand(op, path, rel, from, to) ==
  LET edge == [o |-> "expand", in |-> op, from |-> from, rv |-> rel.v, to |-> to,
               types |-> rel.types, dir |-> rel.dir, hops |-> rel.hops,
               path |-> path]
  IN IF rel.v = "" THEN edge ELSE WithProps(edge, rel.v, rel.props)

Hop(s, path, step, from, to) ==
  [s EXCEPT !.seen = @ \cup {to}, !.op = Endpoint(Expand(@, path, step.rel, from, to), step.node, to)]

LowerPattern(s, chain) ==
  LET names == NodeNames(chain, s.n)
      start == [s EXCEPT !.n = @ + Cardinality(Anonymous(chain, Len(names)))]
  IN FoldLeftDomain(LAMBDA t, i : Hop(t, chain.path, chain.steps[i], names[i], names[i + 1]),
                    FirstNode(start, chain.head, names[1]), chain.steps)

LowerPatterns(s, chains) ==
  FoldLeftDomain(LAMBDA t, i :
                   IF i = 1 THEN LowerPattern(t, chains[1])
                   ELSE LET right == LowerPattern(t, chains[i])
                        IN [right EXCEPT !.op = Product(t.op, right.op)],
                 s, chains)

-----------------------------------------------------------------------------
(* Expressions: what the operators have no form for is said by others.     *)

Literal(x) == [e |-> "lit", x |-> x]
Always == Literal(<<"bool", TRUE>>)
Integral(x) == x.e = "lit" /\ x.x[1] = "int"

\* What is no truth value, and what is no list, can be seen of some literals.
NotBoolean(x) == x.e \in {"list", "map"} \/ (x.e = "lit" /\ x.x[1] \in {"int", "str"})
NotList(x) == x.e = "map" \/ (x.e = "lit" /\ x.x[1] \in {"int", "str", "bool"})
IllTyped(x) ==
  \/ x.e \in {"and", "or", "xor"} /\ (NotBoolean(x.a) \/ NotBoolean(x.b))
  \/ x.e = "not" /\ NotBoolean(x.a)
  \/ x.e = "in" /\ NotList(x.b)

\* A negative index counts from the end; there is nothing outside of the list.
MemberAt(items, i) ==
  LET j == IF i < 0 THEN Len(items) + i ELSE i
  IN IF 0 <= j /\ j < Len(items) THEN items[j + 1] ELSE Literal(<<"null">>)

Counting(first, last, by) ==
  LET reached == IF by > 0 THEN last - first ELSE first - last
      step == IF by > 0 THEN by ELSE -by
  IN [i \in 1 .. (IF reached < 0 THEN 0 ELSE reached \div step + 1) |-> Literal(<<"int", first + (i - 1) * by>>)]

OneOfTwo(a, b) ==
  [e |-> "and", a |-> [e |-> "or", a |-> a, b |-> b], b |-> [e |-> "not", a |-> [e |-> "and", a |-> a, b |-> b]]]

Rewritten(x) ==
  CASE x.e = "xor" -> OneOfTwo(x.a, x.b)
    [] x.e = "simplecase" ->
         [e |-> "case", other |-> x.other,
          branches |-> [i \in DOMAIN x.branches |->
                          [x.branches[i] EXCEPT !.when = [e |-> "cmp", op |-> "=", a |-> x.a, b |-> @]]]]
    [] x.e = "range" -> [e |-> "list", items |-> Counting(x.first, x.last, x.by)]
    [] OTHER -> x

RECURSIVE LowerExpr(_, _)
LowerExprs(s, xs) ==
  LET Then(acc, t) == [s |-> t, xs |-> Append(acc.xs, t.x)]
  IN FoldLeft(LAMBDA acc, x : Then(acc, LowerExpr(acc.s, x)), [s |-> s, xs |-> <<>>], xs)

\* WHERE of a MATCH, an EXISTS or a pattern comprehension.
Filtering(t, where) ==
  LET Selecting(w) == [w EXCEPT !.op = Select(@, w.x)]
  IN IF where = Always THEN t ELSE Selecting(LowerExpr(t, where))

\* A pattern in an expression is lowered as one of MATCH is, and its names count
\* as mentioned.
PatternIn(s, x) ==
  LET Asked(found) == [found EXCEPT !.op = s.op, !.x = [e |-> x.e, op |-> found.op]]
  IN Asked(Filtering(LowerPattern(s, x.chain), x.where))

\* The first error ends it.  A member of a literal list takes the place of the
\* list before anything in the list is looked at.
LowerExpr(s, x) ==
  LET Whole(all) == [all.s EXCEPT !.x = Rewritten(WithChildren(x, all.xs)), !.bad = @ \/ IllTyped(x)]
  IN CASE s.bad -> s
       [] ~ s.bad /\ x.e \in {"exists", "degree"} -> PatternIn(s, x)
       [] ~ s.bad /\ x.e = "index" /\ x.a.e = "list" /\ Integral(x.b) -> LowerExpr(s, MemberAt(x.a.items, x.b.x[2]))
       [] OTHER -> Whole(LowerExprs(s, Children(x)))

LowerMatch(s, cl) ==
  LET After(op) ==
        CASE cl.optional -> [o |-> "outer", l |-> s.op, r |-> op]
          [] ~ cl.optional /\ s.op = Unit -> op
          [] OTHER -> Product(s.op, op)
  IN [Filtering(LowerPatterns(s, cl.chains), cl.where) EXCEPT !.op = After(@)]

-----------------------------------------------------------------------------
(* UNWIND, WITH and RETURN. *)

\* UNWIND of a name takes the literal list of that name.
Substituted(lists, x) ==
  IF x.e = "var" /\ x.v \in DOMAIN lists THEN lists[x.v] ELSE x

LowerUnwind(s, cl) ==
  LET Unwound(t) == [t EXCEPT !.op = [o |-> "unwind", in |-> @, list |-> Substituted(s.lists, t.x), v |-> cl.v]]
  IN Unwound(LowerExpr(s, cl.list))

\* An aggregate is computed by the grouping and projected by its alias.
AggItems(items) == SelectSeq(items, LAMBDA i : i.x.e = "agg")
ProjItems(items) ==
  [i \in DOMAIN items |-> IF items[i].x.e = "agg" THEN [items[i] EXCEPT !.x = Variable(items[i].as)] ELSE items[i]]
GroupKeys(items) ==
  LET aggs == {AggItems(items)[i].as : i \in DOMAIN AggItems(items)}
      keys == SelectSeq(items, LAMBDA i : i.as \notin aggs)
  IN [i \in DOMAIN keys |-> keys[i].as]

\* A sort key that repeats an aggregate of the clause is its alias.
SortKeys(cl) ==
  [i \in DOMAIN cl.order |->
     LET same == {j \in DOMAIN cl.items : cl.order[i].x.e = "agg" /\ cl.items[j].x = cl.order[i].x}
     IN IF same = {} THEN cl.order[i]
        ELSE [cl.order[i] EXCEPT !.x = Variable(cl.items[CHOOSE j \in same : \A k \in same : j <= k].as)]]

Projection(op, cl) ==
  [o |-> "project", items |-> ProjItems(cl.items), distinct |-> cl.distinct,
   in |-> IF AggItems(cl.items) = <<>> THEN op
          ELSE [o |-> "group", in |-> op, keys |-> GroupKeys(cl.items), aggs |-> AggItems(cl.items)]]

Ordered(op, cl) == IF cl.order = <<>> THEN op ELSE [o |-> "order", in |-> op, keys |-> SortKeys(cl)]
Skipped(op, cl) == IF cl.skip = 0 THEN op ELSE [o |-> "skip", in |-> op, n |-> cl.skip]
Limited(op, cl) == IF cl.limit < 0 THEN op ELSE [o |-> "limit", in |-> op, n |-> cl.limit]
Cut(op, cl) == Limited(Skipped(Ordered(op, cl), cl), cl)

\* The literal lists among the items, remembered under their aliases.
Remembered(s, cl) ==
  LET lists == {i \in DOMAIN cl.items : cl.items[i].x.e = "list"}
  IN [s EXCEPT !.lists = [a \in {cl.items[i].as : i \in lists} |->
                            cl.items[CHOOSE i \in lists : cl.items[i].as = a].x] @@ @]

\* The WHERE of a WITH is applied before its ORDER BY, SKIP and LIMIT.
LowerWith(s, cl) ==
  LET all == Projection(s.op, cl)
      kept == IF cl.where = Always THEN all ELSE Select(all, cl.where)
  IN [Remembered(s, cl) EXCEPT !.op = Cut(kept, cl)]

\* RETURN DISTINCT drops the repeated rows once more, after the LIMIT.
LowerReturn(s, cl) ==
  LET out == Cut(Projection(s.op, cl), cl)
  IN [Remembered(s, cl) EXCEPT !.op = IF cl.distinct THEN [o |-> "distinct", in |-> out] ELSE out]

\* The expressions of WITH and RETURN, lowered.
LowerItems(s, cl) ==
  LET n == Len(cl.items)
      With(all) ==
        [s |-> all.s,
         cl |-> [cl EXCEPT !.items = [i \in 1 .. n |-> [@[i] EXCEPT !.x = all.xs[i]]],
                           !.where = all.xs[n + 1],
                           !.order = [i \in DOMAIN @ |-> [@[i] EXCEPT !.x = all.xs[n + 1 + i]]]]]
  IN With(LowerExprs(s, [i \in 1 .. n |-> cl.items[i].x] \o <<cl.where>> \o [i \in DOMAIN cl.order |-> cl.order[i].x]))

LowerProjection(l) == IF l.cl.c = "with" THEN LowerWith(l.s, l.cl) ELSE LowerReturn(l.s, l.cl)

LowerClause(s, cl) ==
  CASE cl.c = "match" -> LowerMatch(s, cl)
    [] cl.c = "unwind" -> LowerUnwind(s, cl)
    [] OTHER -> LowerProjection(LowerItems(s, cl))

-----------------------------------------------------------------------------
(* The arms of a UNION share the state, each starts from the unit. *)
LowerArm(s, clauses) == FoldLeft(LowerClause, [s EXCEPT !.op = Unit], clauses)

Refused == [o |-> "refused"]
LowerQuery(q) ==
  LET After(s, arm, i) ==
        IF i = 1 THEN arm
        ELSE [arm EXCEPT !.op = [o |-> "union", l |-> s.op, r |-> @, all |-> q.all[i - 1]]]
      Sound(all) == IF all.bad THEN Refused ELSE all.op
  IN Sound(FoldLeftDomain(LAMBDA s, i : After(s, LowerArm(s, q.arms[i]), i),
                          [op |-> Unit, n |-> 0, seen |-> {}, lists |-> <<>>, x |-> Always, bad |-> FALSE], q.arms))
=============================================================================
