----------------------------- MODULE CypherRead -----------------------------
(***************************************************************************)
(* What a reading query means in Cypher (openCypher 9, the language the    *)
(* repository's TCK features specify): every clause turns a table of rows  *)
(* into another, a row giving each name a value.  A table is a sequence,   *)
(* read as a bag.  The relationships one MATCH clause binds in a row are   *)
(* pairwise different; a name WITH does not carry is gone; null is a value.*)
(*                                                                         *)
(* A query is [arms, all]: the sequences of clauses UNION separates, and   *)
(* for each UNION whether it says ALL.  A value is tagged with its kind.   *)
(***************************************************************************)
EXTENDS RdfStore, Integers, FiniteSets, SequencesExt

Null == <<"null">>
IntV(i) == <<"int", i>>
BoolV(b) == <<"bool", b>>
NodeV(n) == <<"node", n>>
EdgeV(e) == <<"edge", e>>
True == BoolV(TRUE)
False == BoolV(FALSE)

FlatMap(F(_), s) == FlattenSeq([i \in DOMAIN s |-> F(s[i])])

\* The first of every group of equal members.
Distinct(s) ==
  FoldLeft(LAMBDA acc, x : IF Contains(acc, x) THEN acc ELSE Append(acc, x), <<>>, s)

Count(s, x) == Cardinality({i \in DOMAIN s : s[i] = x})

\* The same rows, each as often.
SameBag(s, t) == Len(s) = Len(t) /\ \A i \in DOMAIN s : Count(s, s[i]) = Count(t, s[i])

-----------------------------------------------------------------------------
(* Expressions. *)

PropOf(g, x, k) ==
  LET vals == CASE x[1] = "node" -> {t[3] : t \in {u \in g.prop : u[1] = x[2] /\ u[2] = k}}
                [] x[1] = "edge" ->
                     {t[5] : t \in {u \in g.eprop : <<u[1], u[2], u[3]>> = x[2] /\ u[4] = k}}
                [] OTHER -> {}
  IN IF vals = {} THEN Null ELSE CHOOSE v \in vals : TRUE

\* Kleene's three values.
Conj(a, b) == IF False \in {a, b} THEN False ELSE IF Null \in {a, b} THEN Null ELSE True
Disj(a, b) == IF True \in {a, b} THEN True ELSE IF Null \in {a, b} THEN Null ELSE False
Neg(a) == IF a = Null THEN Null ELSE BoolV(a = False)
AllOf(ts) == FoldLeft(Conj, True, ts)
AnyOf(ts) == FoldLeft(Disj, False, ts)

\* What a map has under a key.
KeyOf(m, k) ==
  LET at == {i \in DOMAIN m[2] : m[2][i][1] = k} IN IF at = {} THEN Null ELSE m[2][CHOOSE i \in at : TRUE][2]

\* Lists and maps are equal member by member; a text <<"str", n>> is its place
\* among the texts.
RECURSIVE EqualTo(_, _)
EqualTo(a, b) ==
  LET Members(s, t) == AllOf([i \in DOMAIN s |-> EqualTo(s[i], t[i])])
      Keys(m) == {m[2][i][1] : i \in DOMAIN m[2]}
      keys == SetToSeq(Keys(a))
  IN CASE a = Null \/ b = Null -> Null
       [] Null \notin {a, b} /\ a[1] = "list" /\ b[1] = "list" -> IF Len(a[2]) = Len(b[2]) THEN Members(a[2], b[2]) ELSE False
       [] Null \notin {a, b} /\ a[1] = "map" /\ b[1] = "map" ->
            IF Keys(a) = Keys(b) THEN AllOf([i \in DOMAIN keys |-> EqualTo(KeyOf(a, keys[i]), KeyOf(b, keys[i]))]) ELSE False
       [] OTHER -> BoolV(a = b)

\* Lists are ordered as words are.
RECURSIVE Below(_, _, _)
Below(op, a, b) ==
  CASE a = Null \/ b = Null -> Null
    [] Null \notin {a, b} /\ a[1] = b[1] /\ a[1] \in {"int", "str"} -> BoolV(IF op = "<" THEN a[2] < b[2] ELSE a[2] <= b[2])
    [] Null \notin {a, b} /\ a[1] = b[1] /\ a[1] = "bool" -> BoolV(IF op = "<" THEN ~ a[2] /\ b[2] ELSE ~ a[2] \/ b[2])
    [] Null \notin {a, b} /\ a[1] = "list" /\ b[1] = "list" ->
         LET both == 1 .. (IF Len(a[2]) < Len(b[2]) THEN Len(a[2]) ELSE Len(b[2]))
             differ == {i \in both : EqualTo(a[2][i], b[2][i]) # True}
             at == CHOOSE i \in differ : \A j \in differ : i <= j
         IN IF differ = {} THEN Below(op, IntV(Len(a[2])), IntV(Len(b[2]))) ELSE Below("<", a[2][at], b[2][at])
    [] OTHER -> Null

Compare(op, a, b) ==
  CASE op = "=" -> EqualTo(a, b)
    [] op = "<>" -> Neg(EqualTo(a, b))
    [] OTHER -> Below(op, a, b)

MemberOf(a, list) == IF list = Null THEN Null ELSE AnyOf([i \in DOMAIN list[2] |-> EqualTo(a, list[2][i])])

\* What the predicate of all, any, none or single is for each member.
Quantified(kind, ts) ==
  CASE kind = "all" -> AllOf(ts)
    [] kind = "any" -> AnyOf(ts)
    [] kind = "none" -> Neg(AnyOf(ts))
    [] kind = "single" ->
         IF Count(ts, True) > 1 THEN False ELSE IF Contains(ts, Null) THEN Null ELSE BoolV(Count(ts, True) = 1)

\* A negative place counts from the end.
Place(items, i) == IF i < 0 THEN Len(items) + i ELSE i
Slicing(items, lo, hi) ==
  LET kept == SelectSeq([i \in DOMAIN items |-> i], LAMBDA i : Place(items, lo) < i /\ i <= Place(items, hi))
  IN [j \in DOMAIN kept |-> items[kept[j]]]
Indexed(items, i) == IF 0 <= Place(items, i) /\ Place(items, i) < Len(items) THEN items[Place(items, i) + 1] ELSE Null

\* A list and another list, or one more member.
Appended(a, b) ==
  LET Items(x) == IF x[1] = "list" THEN x[2] ELSE <<x>> IN <<"list", Items(a) \o Items(b)>>

\* Integer division rounds towards zero.
Quotient(a, b) == IF (a < 0) = (b < 0) THEN (IF a < 0 THEN -a ELSE a) \div (IF b < 0 THEN -b ELSE b)
                  ELSE - ((IF a < 0 THEN -a ELSE a) \div (IF b < 0 THEN -b ELSE b))

EdgeFits(g, p, e) ==
  /\ p.types = <<>> \/ Contains(p.types, e[2])
  /\ \A i \in DOMAIN p.props : PropOf(g, EdgeV(e), p.props[i][1]) = p.props[i][2]

\* The relationships to follow from node n, with the node each leads to.
Ways(g, p, n) ==
  {w \in {<<e, e[3]>> : e \in {f \in g.edge : p.dir # "in" /\ f[1] = n}}
           \cup {<<e, e[1]>> : e \in {f \in g.edge : p.dir # "out" /\ f[3] = n}} : EdgeFits(g, p, w[1])}

\* A path is its first node and the relationships after it.
PathV(n, edges) == <<"path", n, edges>>

\* A list comprehension maps the members of a list that its WHERE keeps; a
\* pattern comprehension lists the paths of one relationship from a node; exists
\* and degree ask whether, and how often, a pattern is found.
RECURSIVE Value(_, _, _), MatchRows(_, _, _)
Value(g, r, x) ==
  CASE x.e = "lit" -> x.x
    [] x.e = "var" -> r[x.v]
    [] x.e = "prop" -> IF r[x.v][1] = "map" THEN KeyOf(r[x.v], x.k) ELSE PropOf(g, r[x.v], x.k)
    [] x.e = "label" -> IF r[x.v] = Null THEN Null ELSE BoolV(<<r[x.v][2], x.l>> \in g.label)
    [] x.e = "list" -> <<"list", [i \in DOMAIN x.items |-> Value(g, r, x.items[i])]>>
    [] x.e = "map" -> <<"map", [i \in DOMAIN x.pairs |-> <<x.pairs[i][1], Value(g, r, x.pairs[i][2])>>]>>
    [] x.e = "cmp" -> Compare(x.op, Value(g, r, x.a), Value(g, r, x.b))
    [] x.e = "in" -> MemberOf(Value(g, r, x.a), Value(g, r, x.b))
    [] x.e = "and" -> Conj(Value(g, r, x.a), Value(g, r, x.b))
    [] x.e = "or" -> Disj(Value(g, r, x.a), Value(g, r, x.b))
    [] x.e = "xor" -> Neg(EqualTo(Value(g, r, x.a), Value(g, r, x.b)))
    [] x.e = "not" -> Neg(Value(g, r, x.a))
    [] x.e = "isnull" -> BoolV(Value(g, r, x.a) = Null)
    [] x.e = "add" -> LET a == Value(g, r, x.a) b == Value(g, r, x.b)
                      IN CASE a = Null \/ b = Null -> Null
                           [] a # Null /\ b # Null /\ "list" \in {a[1], b[1]} -> Appended(a, b)
                           [] OTHER -> IntV(a[2] + b[2])
    [] x.e = "div" -> LET a == Value(g, r, x.a) b == Value(g, r, x.b)
                      IN IF a = Null \/ b = Null THEN Null ELSE IntV(Quotient(a[2], b[2]))
    [] x.e = "length" -> IF r[x.v] = Null THEN Null ELSE IntV(Len(r[x.v][3]))
    [] x.e = "size" -> LET l == Value(g, r, x.a) IN IF l = Null THEN Null ELSE IntV(Len(l[2]))
    [] x.e = "index" -> LET l == Value(g, r, x.a) i == Value(g, r, x.b)
                        IN IF Null \in {l, i} THEN Null ELSE Indexed(l[2], i[2])
    [] x.e = "slice" ->
         LET l == Value(g, r, x.a)
             lo == IF "lo" \in DOMAIN x THEN Value(g, r, x.lo) ELSE IntV(0)
             hi == IF "hi" \in DOMAIN x THEN Value(g, r, x.hi) ELSE IntV(Len(l[2]))
         IN IF l = Null \/ Null \in {lo, hi} THEN Null ELSE <<"list", Slicing(l[2], lo[2], hi[2])>>
    [] x.e = "range" ->
         LET span == (x.last - x.first) * x.by
         IN <<"list", [i \in 1 .. Cardinality({k \in 0 .. span : k * x.by * x.by <= span}) |-> IntV(x.first + (i - 1) * x.by)]>>
    [] x.e = "case" -> LET met == {i \in DOMAIN x.branches : Value(g, r, x.branches[i].when) = True}
                       IN IF met = {} THEN Value(g, r, x.other)
                          ELSE Value(g, r, x.branches[CHOOSE i \in met : \A j \in met : i <= j].then)
    [] x.e = "simplecase" -> LET met == {i \in DOMAIN x.branches : EqualTo(Value(g, r, x.a), Value(g, r, x.branches[i].when)) = True}
                             IN IF met = {} THEN Value(g, r, x.other)
                                ELSE Value(g, r, x.branches[CHOOSE i \in met : \A j \in met : i <= j].then)
    [] x.e = "quant" ->
         LET l == Value(g, r, x.list)
         IN IF l = Null THEN Null
            ELSE Quantified(x.kind, [i \in DOMAIN l[2] |-> Value(g, (x.v :> l[2][i]) @@ r, x.where)])
    [] x.e = "listcomp" ->
         LET l == Value(g, r, x.list)
             kept == SelectSeq(l[2], LAMBDA m : Value(g, (x.v :> m) @@ r, x.where) = True)
         IN IF l = Null THEN Null ELSE <<"list", [i \in DOMAIN kept |-> Value(g, (x.v :> kept[i]) @@ r, x.map)]>>
    [] x.e \in {"exists", "degree"} ->
         LET Answered(found) == IF x.e = "exists" THEN BoolV(found # <<>>) ELSE IntV(Len(found))
         IN Answered(MatchRows(g, [chains |-> <<x.chain>>, where |-> x.where], r))
    [] x.e = "patcomp" ->
         LET ways == SetToSeq(Ways(g, x.rel, r[x.from][2]))
         IN <<"list", [i \in DOMAIN ways |-> PathV(r[x.from][2], <<ways[i][1]>>)]>>

-----------------------------------------------------------------------------
(* MATCH.  A partial match is the row, the relationships used, the node    *)
(* reached, and the relationships of the pattern so far.                   *)

NodeFits(g, p, n) ==
  /\ \A i \in DOMAIN p.labels : <<n, p.labels[i]>> \in g.label
  /\ \A i \in DOMAIN p.props : PropOf(g, NodeV(n), p.props[i][1]) = p.props[i][2]

\* A name takes a value, unless it has another already; "" is no name.
Named(r, v, x) ==
  CASE v = "" -> <<r>>
    [] v \in DOMAIN r -> IF r[v] = x THEN <<r>> ELSE <<>>
    [] OTHER -> <<r @@ (v :> x)>>

Reach(g, m, p, n) ==
  LET At(rows) == [i \in DOMAIN rows |-> [m EXCEPT !.row = rows[i], !.at = n]]
  IN IF NodeFits(g, p, n) THEN At(Named(m.row, p.v, NodeV(n))) ELSE <<>>

Follow(g, p, m) ==
  FlatMap(LAMBDA w :
            IF w[1] \in m.used THEN <<>>
            ELSE LET rows == IF p.hops = <<>> THEN Named(m.row, p.v, EdgeV(w[1])) ELSE <<m.row>>
                 IN [i \in DOMAIN rows |-> [row |-> rows[i], used |-> m.used \cup {w[1]}, at |-> w[2],
                                             trail |-> Append(m.trail, w[1])]],
          SetToSeq(Ways(g, p, m.at)))

RECURSIVE Trails(_, _, _, _)
Trails(g, p, m, k) ==
  IF k = 0 THEN <<m>> ELSE FlatMap(LAMBDA t : Follow(g, p, t), Trails(g, p, m, k - 1))

\* A pattern *lo..hi follows so many relationships; without hi, any number.
Lengths(g, p) ==
  CASE p.hops = <<>> -> 1 .. 1
    [] Len(p.hops) = 1 -> p.hops[1] .. Cardinality(g.edge)
    [] OTHER -> p.hops[1] .. p.hops[2]

Step(g, m, s) ==
  FlatMap(LAMBDA k : FlatMap(LAMBDA t : Reach(g, t, s.node, t.at), Trails(g, s.rel, m, k)),
          SetToSeq(Lengths(g, s.rel)))

MatchChain(g, m, chain) ==
  LET WithPath(n, ends) ==
        [i \in DOMAIN ends |->
           IF chain.path = "" THEN ends[i]
           ELSE [ends[i] EXCEPT !.row = @ @@ (chain.path :> PathV(n, ends[i].trail))]]
      Trail(n) ==
        WithPath(n, FoldLeft(LAMBDA ms, s : FlatMap(LAMBDA t : Step(g, t, s), ms),
                             Reach(g, [m EXCEPT !.trail = <<>>], chain.head, n), chain.steps))
  IN FlatMap(Trail, SetToSeq(g.node))

ChainVars(c) ==
  {c.path, c.head.v} \cup UNION {{c.steps[i].node.v, c.steps[i].rel.v} : i \in DOMAIN c.steps}
ClauseVars(cl) == UNION {ChainVars(cl.chains[i]) : i \in DOMAIN cl.chains} \ {""}

MatchRows(g, cl, r) ==
  LET found == FoldLeft(LAMBDA ms, c : FlatMap(LAMBDA m : MatchChain(g, m, c), ms),
                        <<[row |-> r, used |-> {}, at |-> "", trail |-> <<>>]>>, cl.chains)
      Kept(ms) == SelectSeq([i \in DOMAIN ms |-> ms[i].row], LAMBDA s : Value(g, s, cl.where) = True)
  IN Kept(found)

Match(g, cl, rows) ==
  LET OrNull(r, found) ==
        IF found = <<>> /\ cl.optional THEN <<r @@ [v \in ClauseVars(cl) \ DOMAIN r |-> Null]>> ELSE found
  IN FlatMap(LAMBDA r : OrNull(r, MatchRows(g, cl, r)), rows)

Unwind(g, cl, rows) ==
  LET Members(r, l) == IF l = Null THEN <<>> ELSE [i \in DOMAIN l[2] |-> r @@ (cl.v :> l[2][i])]
  IN FlatMap(LAMBDA r : Members(r, Value(g, r, cl.list)), rows)

-----------------------------------------------------------------------------
(* WITH and RETURN. *)

IsAgg(item) == item.x.e = "agg"
Aggregates(cl) == \E i \in DOMAIN cl.items : IsAgg(cl.items[i])
Columns(cl) == {cl.items[i].as : i \in DOMAIN cl.items}

Aggregate(g, x, rows) ==
  LET Seen(vals) == IF x.distinct THEN Distinct(vals) ELSE vals
      \* min and max of no value are null
      Better(b, v, lower, higher) == IF b = Null \/ Compare("<", lower, higher) = True THEN v ELSE b
      Of(seen) ==
        CASE x.f = "count" -> IntV(Len(seen))
          [] x.f = "collect" -> <<"list", seen>>
          [] x.f = "sum" -> IntV(FoldLeft(LAMBDA s, v : s + v[2], 0, seen))
          [] x.f = "min" -> FoldLeft(LAMBDA b, v : Better(b, v, v, b), Null, seen)
          [] x.f = "max" -> FoldLeft(LAMBDA b, v : Better(b, v, b, v), Null, seen)
  IN IF x.f = "countStar" THEN IntV(Len(rows))
     ELSE Of(Seen(SelectSeq([i \in DOMAIN rows |-> Value(g, rows[i], x.a)], LAMBDA v : v # Null)))

KeyRow(g, cl, r) ==
  LET keys == {i \in DOMAIN cl.items : ~ IsAgg(cl.items[i])}
  IN [a \in {cl.items[i].as : i \in keys} |->
        Value(g, r, cl.items[CHOOSE i \in keys : cl.items[i].as = a].x)]

\* The rows of WITH or RETURN, each with what its ORDER BY can see.
Projected(g, cl, rows) ==
  LET Plain(keyed) == [i \in DOMAIN rows |-> [row |-> keyed[i], sees |-> keyed[i] @@ rows[i]]]
      aggs == SelectSeq(cl.items, IsAgg)
      Of(k, group) ==
        k @@ [a \in {aggs[i].as : i \in DOMAIN aggs} |->
                Aggregate(g, aggs[CHOOSE i \in DOMAIN aggs : aggs[i].as = a].x, group)]
      Group(keyed, k) == LET in == SelectSeq([i \in DOMAIN rows |-> i], LAMBDA i : keyed[i] = k)
                         IN Of(k, [j \in DOMAIN in |-> rows[in[j]]])
      \* aggregates alone have one row, even of nothing
      Keys(keyed) == IF keyed = <<>> /\ Len(aggs) = Len(cl.items) THEN <<[v \in {} |-> v]>> ELSE Distinct(keyed)
      Whole(all) == [i \in DOMAIN all |-> [row |-> all[i], sees |-> all[i]]]
      PerKey(keyed, keys) == Whole([i \in DOMAIN keys |-> Group(keyed, keys[i])])
      OfKeys(keyed) == IF Aggregates(cl) THEN PerKey(keyed, Keys(keyed)) ELSE Plain(keyed)
  IN OfKeys([i \in DOMAIN rows |-> KeyRow(g, cl, rows[i])])

\* Null is the largest value.
Before(a, b) == IF b = Null THEN a # Null ELSE Compare("<", a, b) = True

RECURSIVE KeyLess(_, _, _)
KeyLess(keys, a, b) ==
  /\ keys # <<>>
  /\ LET x == a[1] y == b[1] down == keys[1].desc
     IN \/ IF down THEN Before(y, x) ELSE Before(x, y)
        \/ x = y /\ KeyLess(Tail(keys), Tail(a), Tail(b))

\* A stable sort: equal keys keep their order.
Sorted(s, keys, K(_)) ==
  LET Less(a, b) == \/ KeyLess(keys, a.key, b.key)
                    \/ ~ KeyLess(keys, b.key, a.key) /\ a.at < b.at
      Untagged(done) == [i \in DOMAIN s |-> done[i].row]
  IN Untagged(SortSeq([i \in DOMAIN s |-> [at |-> i, key |-> K(s[i]), row |-> s[i]]], Less))

\* SKIP n LIMIT m; an absent LIMIT is -1.
Sliced(s, skip, limit) ==
  SubSeq(s, skip + 1, IF limit < 0 \/ skip + limit > Len(s) THEN Len(s) ELSE skip + limit)

\* Without DISTINCT, ORDER BY, SKIP, LIMIT and WHERE, the rows as they are.
Project(g, cl, rows) ==
  LET RowsOf(all) == [i \in DOMAIN all |-> all[i].row]
      Once(kept) == [i \in DOMAIN kept |-> [row |-> kept[i], sees |-> kept[i]]]
      Unique(all) == IF cl.distinct THEN Once(Distinct(RowsOf(all))) ELSE all
      Ordered(all) ==
        Sorted(all, cl.order, LAMBDA p : [i \in DOMAIN cl.order |-> Value(g, p.sees, cl.order[i].x)])
      Cut(all) == Sliced(all, cl.skip, cl.limit)
  IN SelectSeq(RowsOf(Cut(Ordered(Unique(Projected(g, cl, rows))))), LAMBDA r : Value(g, r, cl.where) = True)

Clause(g, cl, rows) ==
  CASE cl.c = "match" -> Match(g, cl, rows)
    [] cl.c = "unwind" -> Unwind(g, cl, rows)
    [] OTHER -> Project(g, cl, rows)

NoRow == [v \in {} |-> v]

Arm(g, clauses) == FoldLeft(LAMBDA rows, cl : Clause(g, cl, rows), <<NoRow>>, clauses)

\* The rows a query returns on graph g.
Answer(g, q) ==
  LET United(both, all) == IF all THEN both ELSE Distinct(both)
  IN FoldLeftDomain(LAMBDA rows, i : United(rows \o Arm(g, q.arms[i]), i = 1 \/ q.all[i - 1]),
                    <<>>, q.arms)
=============================================================================
