----------------------------- MODULE SparqlQuery -----------------------------
(***************************************************************************)
(* SPARQL 1.1 SELECT queries as the compiler writes them (external: the    *)
(* text is printed from the algebra, and read and evaluated by the         *)
(* endpoint).  A group is a sequence of elements                           *)
(*   bgp[ts], optional[g], filter[x], bind[x, v], union[gs],               *)
(*   values[vars, rows], group[in, keys, aggs],                            *)
(*   path[s, o, types, dir, kind, lo, hi],                                 *)
(*   select[vars, in, distinct, order, start, length]                      *)
(* and is printed in that order, so that a FILTER holds of its whole       *)
(* group.  A triple is <<kind, terms>>, its kinds those of RdfStore; a     *)
(* term is a variable <<"?", v>> or a value.  A solution is a function on  *)
(* the variables it binds.                                                 *)
(***************************************************************************)
EXTENDS CypherRead

X(v) == <<"?", v>>
TypeV(r) == <<"type", r>>
KeyV(k) == <<"key", k>>
Error == <<"error">>

NodeT(s) == <<"node", <<s>>>>
LabelT(s, l) == <<"label", <<s, <<"label", l>>>>>>
PropT(s, k, o) == <<"prop", <<s, KeyV(k), o>>>>
EdgeT(s, r, o) == <<"edge", <<s, r, o>>>>
EpropT(s, r, o, k, v) == <<"eprop", <<s, r, o, KeyV(k), v>>>>

Bgp(ts) == IF ts = <<>> THEN <<>> ELSE <<[e |-> "bgp", ts |-> ts]>>
Optional(l, r) == Append(l, [e |-> "optional", g |-> r])
Filter(l, x) == Append(l, [e |-> "filter", x |-> x])
Bind(l, x, v) == Append(l, [e |-> "bind", x |-> x, v |-> v])
Optionals(l, gs) == l \o [i \in DOMAIN gs |-> [e |-> "optional", g |-> gs[i]]]
\* Pairs of a name and what is bound to it.
Binds(l, bs) == l \o [i \in DOMAIN bs |-> [e |-> "bind", x |-> bs[i][2], v |-> bs[i][1]]]
UnionOfTwo(l, r) == <<[e |-> "union", gs |-> <<l, r>>]>>
ValuesOf(vars, rows) == <<[e |-> "values", vars |-> vars, rows |-> rows]>>
Grouped(in, keys, aggs) == <<[e |-> "group", in |-> in, keys |-> keys, aggs |-> aggs]>>

LastKind(p) == IF p = <<>> THEN "" ELSE p[Len(p)].e

\* The printer puts braces round the right side where it would change the left.
Join(l, r) ==
  CASE r = <<>> -> l
    [] l = <<>> -> r
    [] LastKind(r) \in {"optional", "filter", "bind"} -> Append(l, [e |-> "union", gs |-> <<r>>])
    [] OTHER -> l \o r

\* A SELECT around a group.  Modifiers put on a SELECT join it in any order,
\* the inner of two ORDER BY or of two slices remains.
Plain == [e |-> "select", vars |-> <<>>, in |-> <<>>, distinct |-> FALSE, order |-> <<>>, start |-> 0, length |-> -1]
IsSelect(p) == Len(p) = 1 /\ p[1].e = "select"
AsSelect(p) == IF IsSelect(p) THEN p[1] ELSE [Plain EXCEPT !.in = p]
Projecting(p, vars) ==
  <<[(IF IsSelect(p) /\ p[1].vars = <<>> THEN p[1] ELSE [Plain EXCEPT !.in = p]) EXCEPT !.vars = vars]>>
Distinctly(p) == <<[AsSelect(p) EXCEPT !.distinct = TRUE]>>
OrderedBy(p, keys) == <<[AsSelect(p) EXCEPT !.order = IF @ = <<>> THEN keys ELSE @]>>
Slice(p, start, length) ==
  LET s == AsSelect(p)
  IN <<IF s.start = 0 /\ s.length = -1 THEN [s EXCEPT !.start = start, !.length = length] ELSE s>>

-----------------------------------------------------------------------------
(* Solutions. *)

Facts(g, kind) ==
  CASE kind = "node" -> {<<NodeV(n)>> : n \in g.node}
    [] kind = "label" -> {<<NodeV(t[1]), <<"label", t[2]>>>> : t \in g.label}
    [] kind = "prop" -> {<<NodeV(t[1]), KeyV(t[2]), t[3]>> : t \in g.prop}
    [] kind = "edge" -> {<<NodeV(t[1]), TypeV(t[2]), NodeV(t[3])>> : t \in g.edge}
    [] kind = "eprop" ->
         {<<NodeV(t[1]), TypeV(t[2]), NodeV(t[3]), KeyV(t[4]), t[5]>> : t \in g.eprop}

Bound(r, term) == IF term[1] = "?" /\ term[2] \in DOMAIN r THEN r[term[2]] ELSE term
\* The ways solution r extends to a fact.
Extends(r, terms, fact) ==
  FoldLeftDomain(LAMBDA rs, i :
                   IF rs = {} THEN {}
                   ELSE LET s == CHOOSE s \in rs : TRUE
                            term == Bound(s, terms[i])
                        IN CASE term[1] = "?" -> {s @@ (term[2] :> fact[i])}
                             [] term[1] # "?" /\ term = fact[i] -> {s}
                             [] OTHER -> {},
                 {r}, terms)
Triple(g, rows, t) ==
  FlatMap(LAMBDA r : SetToSeq(UNION {Extends(r, t[2], f) : f \in Facts(g, t[1])}), rows)

Compatible(r, s) == \A v \in DOMAIN r \cap DOMAIN s : r[v] = s[v]
Joined(rows, others) ==
  FlatMap(LAMBDA r : LET fit == SelectSeq(others, LAMBDA s : Compatible(r, s))
                     IN [i \in DOMAIN fit |-> r @@ fit[i]], rows)

Only(r, vars) == [v \in DOMAIN r \cap vars |-> r[v]]

\* The effective boolean value.
Holds(x) == x = True \/ (x[1] = "int" /\ x # IntV(0))
Or(a, b) == CASE Holds(a) \/ Holds(b) -> True [] Error \in {a, b} -> Error [] OTHER -> False

-----------------------------------------------------------------------------
(* Property paths, as the sequence of the pairs of terms they join.        *)
(* "chains" is the alternative of the sequences of lo..hi hops; "closure"  *)
(* is lo - 1 hops and then (hop)+, or (hop)* for lo = 0; "option" is hop?. *)

\* Without a type a hop is any triple but a label or the mark of a node.
Links(g, types) ==
  IF types # <<>>
  THEN FlatMap(LAMBDA r : SetToSeq({<<NodeV(t[1]), NodeV(t[3])>> : t \in {u \in g.edge : u[2] = r}}), types)
  ELSE LET out == SetToSeq(g.edge) props == SetToSeq(g.prop) on == SetToSeq(g.eprop)
       IN [i \in DOMAIN out |-> <<NodeV(out[i][1]), NodeV(out[i][3])>>]
          \o [i \in DOMAIN props |-> <<NodeV(props[i][1]), props[i][3]>>]
          \o [i \in DOMAIN on |-> <<EdgeV(<<on[i][1], on[i][2], on[i][3]>>), on[i][5]>>]

Turned(pairs) == [i \in DOMAIN pairs |-> <<pairs[i][2], pairs[i][1]>>]
Composed(p, q) ==
  FlatMap(LAMBDA a : LET on == SelectSeq(q, LAMBDA b : b[1] = a[2])
                     IN [i \in DOMAIN on |-> <<a[1], on[i][2]>>], p)

RECURSIVE Hops(_, _), Onward(_, _)
Hops(link, k) == IF k = 1 THEN link ELSE Composed(link, Hops(link, k - 1))
\* The pairs one or more hops join, each once.
Onward(link, reached) ==
  LET more == Distinct(reached \o Composed(reached, link))
  IN IF Len(more) = Len(reached) THEN reached ELSE Onward(link, more)

Self(g) == LET at == SetToSeq(g.node) IN [i \in DOMAIN at |-> <<NodeV(at[i]), NodeV(at[i])>>]
PairsBy(g, el, link) ==
  LET Repeated(plus) ==
        CASE el.lo = 0 -> Distinct(Self(g) \o plus) [] el.lo = 1 -> plus [] OTHER -> Composed(Hops(link, el.lo - 1), plus)
  IN CASE el.kind = "chains" -> FlatMap(LAMBDA k : Hops(link, k), [i \in 1 .. el.hi - el.lo + 1 |-> el.lo + i - 1])
       [] el.kind = "option" -> Distinct(Self(g) \o link)
       [] el.kind = "closure" -> Repeated(Onward(link, Distinct(link)))
Pairs(g, el) ==
  LET BothWays(link) == IF el.dir = "both" THEN link \o Turned(link) ELSE link
      Facing(pairs) == IF el.dir = "in" THEN Turned(pairs) ELSE pairs
  IN Facing(PairsBy(g, el, BothWays(Links(g, el.types))))

Path(g, rows, el) ==
  LET Along(pairs) == FlatMap(LAMBDA r : FlatMap(LAMBDA p : SetToSeq(Extends(r, <<el.s, el.o>>, p)), pairs), rows)
  IN Along(Pairs(g, el))

-----------------------------------------------------------------------------
(* Expressions and groups. *)

RECURSIVE Solutions(_, _, _), Term(_, _, _)

\* Two operands; the quotient of two integers is a decimal.
Operate(op, a, b) ==
  CASE Error \in {a, b} -> Error
    [] Error \notin {a, b} /\ op = "=" -> BoolV(a = b)
    [] Error \notin {a, b} /\ op \in {"<", "<="} /\ a[1] = "str" /\ b[1] = "str" ->
         BoolV(IF op = "<" THEN a[2] < b[2] ELSE a[2] <= b[2])
    [] Error \notin {a, b} /\ op # "=" /\ ~ (a[1] = "int" /\ b[1] = "int") /\ ~ (op \in {"<", "<="} /\ a[1] = "str" /\ b[1] = "str") -> Error
    [] OTHER ->
         CASE op = "<" -> BoolV(a[2] < b[2])
           [] op = "<=" -> BoolV(a[2] <= b[2])
           [] op = "+" -> IntV(a[2] + b[2])
           [] op \in {"/", "floor/"} /\ b[2] = 0 -> Error
           [] op = "floor/" /\ b[2] # 0 -> IntV(a[2] \div b[2])
           [] op = "/" /\ b[2] # 0 ->
                IF a[2] % b[2] = 0 THEN IntV(Quotient(a[2], b[2])) ELSE <<"dec", a[2], b[2]>>

\* xsd:integer of a boolean.
AsNumber(x) == IF x[1] = "bool" THEN IntV(IF x[2] THEN 1 ELSE 0) ELSE x

\* STR of a term; a text loses the quotes it has in a list.
StrOf(x) == CASE x = Error -> <<"raw", "?">> [] x # Error /\ x[1] = "str" -> <<"raw", x[2]>> [] OTHER -> x

\* The function list-contains of the caller's engine looks for a member of the
\* text of a list.
ListContains(list, x) ==
  CASE Error \in {list, x} \/ list[1] = "node" \/ x[1] = "node" -> Error
    [] Error \notin {list, x} /\ list[1] # "node" /\ x[1] # "node" /\ list[1] = "list" -> BoolV(Contains(list[2], x))
    [] OTHER -> False

\* What an expression is worth in a solution; an unbound variable is an error.
Term(g, r, x) ==
  CASE x.e = "var" -> IF x.v \in DOMAIN r THEN r[x.v] ELSE Error
    [] x.e = "val" -> x.x
    [] x.e = "bound" -> BoolV(x.v \in DOMAIN r)
    [] x.e \in {"=", "<", "<=", "+", "/", "floor/"} -> Operate(x.e, Term(g, r, x.a), Term(g, r, x.b))
    [] x.e = "ordinal" -> AsNumber(Term(g, r, x.a))
    [] x.e = "!" -> LET a == Term(g, r, x.a) IN IF a = Error THEN Error ELSE BoolV(~ Holds(a))
    [] x.e = "&&" -> LET a == Term(g, r, x.a) b == Term(g, r, x.b)
                     IN CASE Error \notin {a, b} -> BoolV(Holds(a) /\ Holds(b))
                          [] (a # Error /\ ~ Holds(a)) \/ (b # Error /\ ~ Holds(b)) -> False
                          [] OTHER -> Error
    [] x.e = "||" -> Or(Term(g, r, x.a), Term(g, r, x.b))
    [] x.e = "if" -> LET c == Term(g, r, x.c)
                     IN IF c = Error THEN Error ELSE Term(g, r, IF Holds(c) THEN x.a ELSE x.b)
    [] x.e = "coalesce" ->
         LET vals == SelectSeq([i \in DOMAIN x.args |-> Term(g, r, x.args[i])], LAMBDA v : v # Error)
         IN IF vals = <<>> THEN Error ELSE vals[1]
    [] x.e = "in" -> LET a == Term(g, r, x.a)
                     IN FoldLeft(Or, False, [i \in DOMAIN x.list |-> Operate("=", a, Term(g, r, x.list[i]))])
    [] x.e = "contains" -> ListContains(Term(g, r, x.list), Term(g, r, x.a))
    [] x.e = "str" -> StrOf(Term(g, r, x.a))
    [] x.e = "concat" ->
         LET parts == [i \in DOMAIN x.parts |-> Term(g, r, x.parts[i])]
         IN IF x.keys = <<>> THEN <<"list", parts>> ELSE <<"map", [i \in DOMAIN parts |-> <<x.keys[i], parts[i]>>]>>
    [] x.e = "strlen" -> LET a == Term(g, r, x.a)
                         IN IF a # Error /\ a[1] \in {"str", "list", "map"} THEN <<"strlen", a>> ELSE Error
    [] x.e = "exists" -> BoolV(Solutions(g, x.g, <<r>>) # <<>>)

SAggregate(g, a, rows) ==
  LET Once(s) == IF a.distinct THEN Distinct(s) ELSE s
      Least(s, sign) == {v \in s : \A w \in s : sign * v[2] <= sign * w[2]}
      Best(s, sign) == IF s = {} THEN Error ELSE CHOOSE v \in Least(s, sign) : TRUE
      Of(vals, good) ==
        CASE a.f = "count" -> IntV(Len(good))
          [] a.f = "sum" -> IF Contains(vals, Error) THEN Error ELSE IntV(FoldLeft(LAMBDA s, v : s + v[2], 0, good))
          [] a.f = "min" -> Best(Range(good), 1)
          [] a.f = "max" -> Best(Range(good), -1)
      Values(vals) == Of(vals, Once(SelectSeq(vals, LAMBDA v : v # Error)))
  IN IF a.f = "countStar" THEN IntV(Len(Once(rows))) ELSE Values([i \in DOMAIN rows |-> Term(g, rows[i], a.a)])

\* Without keys there is one group, even of no row.
GroupsOf(g, el, rows) ==
  LET Keys == IF el.keys = <<>> THEN <<NoRow>> ELSE Distinct([i \in DOMAIN rows |-> Only(rows[i], Range(el.keys))])
      \* an aggregate that is an error leaves its name unbound
      WithAggregates(k, got) ==
        k @@ [v \in {el.aggs[i].v : i \in {j \in DOMAIN got : got[j] # Error}} |->
                got[CHOOSE i \in DOMAIN got : el.aggs[i].v = v]]
      Aggregated(members) == [i \in DOMAIN el.aggs |-> SAggregate(g, el.aggs[i], members)]
      Group(k) == WithAggregates(k, Aggregated(SelectSeq(rows, LAMBDA r : Only(r, Range(el.keys)) = k)))
  IN FlatMap(LAMBDA k : <<Group(k)>>, Keys)
Groups(g, el) == GroupsOf(g, el, Solutions(g, el.in, <<NoRow>>))

\* An unbound key comes first.
Rank(x) == CASE x = Error -> 0 [] x[1] \in {"node", "type", "none"} -> 1 [] OTHER -> 2
Lower(x, y) ==
  \/ Rank(x) < Rank(y)
  \/ x[1] = "int" /\ y[1] = "int" /\ x[2] < y[2]
  \/ x[1] = "bool" /\ y[1] = "bool" /\ ~ x[2] /\ y[2]

RECURSIVE OrderLess(_, _, _)
OrderLess(keys, a, b) ==
  /\ keys # <<>>
  /\ \/ IF keys[1].desc THEN Lower(b[1], a[1]) ELSE Lower(a[1], b[1])
     \/ a[1] = b[1] /\ OrderLess(Tail(keys), Tail(a), Tail(b))

InOrder(g, rows, keys) ==
  LET At(key) ==
        SortSeq([i \in DOMAIN rows |-> i],
                LAMBDA i, j : \/ OrderLess(keys, key[i], key[j])
                              \/ ~ OrderLess(keys, key[j], key[i]) /\ i < j)
      Placed(at) == [i \in DOMAIN rows |-> rows[at[i]]]
  IN Placed(At([i \in DOMAIN rows |-> [j \in DOMAIN keys |-> Term(g, rows[i], keys[j].x)]]))

\* ORDER BY sees the whole solution; then projection, DISTINCT, OFFSET, LIMIT.
\* SELECT * keeps every variable.
Selected(g, el) ==
  LET Cut(rows) == IF el.vars = <<>> THEN rows ELSE [i \in DOMAIN rows |-> Only(rows[i], Range(el.vars))]
      Once(rows) == IF el.distinct THEN Distinct(rows) ELSE rows
  IN Sliced(Once(Cut(InOrder(g, Solutions(g, el.in, <<NoRow>>), el.order))), el.start, el.length)

LeftJoined(g, rows, right) ==
  LET conds == SelectSeq(right, LAMBDA el : el.e = "filter")
      Met(r) == \A i \in DOMAIN conds : Holds(Term(g, r, conds[i].x))
      OrAlone(r, both) == IF both = <<>> THEN <<r>> ELSE both
      Joining(inner) == FlatMap(LAMBDA r : OrAlone(r, SelectSeq(Joined(<<r>>, inner), Met)), rows)
  IN Joining(Solutions(g, SelectSeq(right, LAMBDA el : el.e # "filter"), <<NoRow>>))

\* A cell <<>> of VALUES is UNDEF.
Table(el) ==
  [i \in DOMAIN el.rows |->
     [v \in {el.vars[j] : j \in {k \in DOMAIN el.vars : el.rows[i][k] # <<>>}} |->
        el.rows[i][CHOOSE j \in DOMAIN el.vars : el.vars[j] = v]]]

Element(g, rows, el) ==
  CASE el.e = "bgp" -> FoldLeft(LAMBDA rs, t : Triple(g, rs, t), rows, el.ts)
    [] el.e = "optional" -> LeftJoined(g, rows, el.g)
    [] el.e = "bind" ->
         LET Binding(r, x) == IF x = Error THEN r ELSE r @@ (el.v :> x)
         IN [i \in DOMAIN rows |-> Binding(rows[i], Term(g, rows[i], el.x))]
    [] el.e = "union" -> Joined(rows, FlatMap(LAMBDA h : Solutions(g, h, <<NoRow>>), el.gs))
    [] el.e = "values" -> Joined(rows, Table(el))
    [] el.e = "path" -> Path(g, rows, el)
    [] el.e = "select" -> Joined(rows, Selected(g, el))
    [] el.e = "group" -> Joined(rows, Groups(g, el))
    [] el.e = "filter" -> rows

\* A filter is applied to its whole group.
Solutions(g, els, seed) ==
  LET all == FoldLeft(LAMBDA rows, el : Element(g, rows, el), seed, els)
      Kept(r) == \A i \in DOMAIN els : els[i].e = "filter" => Holds(Term(g, r, els[i].x))
  IN SelectSeq(all, Kept)

\* The rows of a query on store g.
Results(g, query) == Solutions(g, <<AsSelect(query)>>, <<NoRow>>)
=============================================================================
