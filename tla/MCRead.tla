------------------------------- MODULE MCRead -------------------------------
(* Graphs and reading queries for the read side. *)
EXTENDS ReadSession, TLC

CONSTANTS n1, n2

\* Patterns and clauses.
P(v) == [v |-> v, labels |-> <<>>, props |-> <<>>]
PL(v, l) == [v |-> v, labels |-> <<l>>, props |-> <<>>]
PK(v, k, x) == [v |-> v, labels |-> <<>>, props |-> <<<<k, x>>>>]
Rl(v, types, dir) == [v |-> v, types |-> types, dir |-> dir, props |-> <<>>, hops |-> <<>>]
Hopped(types, dir, hops) == [Rl("", types, dir) EXCEPT !.hops = hops]
Chain(head, steps) == [path |-> "", head |-> head, steps |-> steps]
Alone(p) == Chain(p, <<>>)
Via(rel, node) == [rel |-> rel, node |-> node]
MatchW(chains, where) == [c |-> "match", optional |-> FALSE, chains |-> chains, where |-> where]
MatchOf(chain) == MatchW(<<chain>>, Always)
OptionalOf(chain) == [MatchOf(chain) EXCEPT !.optional = TRUE]
OptionalW(chain, where) == [MatchW(<<chain>>, where) EXCEPT !.optional = TRUE]
UnwindOf(list, v) == [c |-> "unwind", list |-> list, v |-> v]
As(x, as) == [x |-> x, as |-> as]
Out(c, items) ==
  [c |-> c, items |-> items, distinct |-> FALSE, order |-> <<>>, skip |-> 0, limit |-> -1, where |-> Always]
Return(items) == Out("return", items)
With(items) == Out("with", items)
Own(v) == As(Variable(v), v)
By(x) == [x |-> x, desc |-> FALSE]
Down(x) == [x |-> x, desc |-> TRUE]
One(clauses) == [arms |-> <<clauses>>, all |-> <<>>]

Prop(v, k) == [e |-> "prop", v |-> v, k |-> k]
Lit(i) == [e |-> "lit", x |-> IntV(i)]
NullX == [e |-> "lit", x |-> Null]
Cmp(op, a, b) == [e |-> "cmp", op |-> op, a |-> a, b |-> b]
IsNull(a) == [e |-> "isnull", a |-> a]
Not(a) == [e |-> "not", a |-> a]
Plus(a, b) == [e |-> "add", a |-> a, b |-> b]
Over(a, b) == [e |-> "div", a |-> a, b |-> b]
Binary(op, a, b) == [e |-> op, a |-> a, b |-> b]
ListX(items) == [e |-> "list", items |-> items]
Agg(f, a) == [e |-> "agg", f |-> f, a |-> a, distinct |-> FALSE]
CountStar == Agg("countStar", NullX)
AggD(f, a) == [Agg(f, a) EXCEPT !.distinct = TRUE]
ListComp(v, list, map) == [e |-> "listcomp", v |-> v, list |-> list, where |-> Always, map |-> map]
ListCompW(v, list, where, map) == [ListComp(v, list, map) EXCEPT !.where = where]
PatternComp(from, rel) == [e |-> "patcomp", from |-> from, rel |-> rel]
LengthOf(p) == [e |-> "length", v |-> p]
PathOf(p, chain) == [chain EXCEPT !.path = p]
Str(n) == Literal(<<"str", n>>)
Ints(s) == ListX([i \in DOMAIN s |-> Lit(s[i])])
MapX(pairs) == [e |-> "map", pairs |-> pairs]
In(a, b) == Binary("in", a, b)
Quant(kind, v, list, where) == [e |-> "quant", kind |-> kind, v |-> v, list |-> list, where |-> where]
At(list, i) == Binary("index", list, i)
From(list, lo) == [e |-> "slice", a |-> list, lo |-> lo]
Upto(list, hi) == [e |-> "slice", a |-> list, hi |-> hi]
Between(list, lo, hi) == [e |-> "slice", a |-> list, lo |-> lo, hi |-> hi]
RangeX(first, last, by) == [e |-> "range", first |-> first, last |-> last, by |-> by]
Size(a) == [e |-> "size", a |-> a]
Exists(chain, where) == [e |-> "exists", chain |-> chain, where |-> where]
DegreeOf(chain) == [e |-> "degree", chain |-> chain, where |-> Always]
When(w, t) == [when |-> w, then |-> t]
Case(branches, other) == [e |-> "case", branches |-> branches, other |-> other]
SimpleCase(a, branches, other) == [e |-> "simplecase", a |-> a, branches |-> branches, other |-> other]
LabelX(v, l) == [e |-> "label", v |-> v, l |-> l]
\* RETURN of several expressions, named by their place.
Columned(xs) == Return([i \in DOMAIN xs |-> As(xs[i], ToString(i))])

-----------------------------------------------------------------------------
(* Stores of two nodes: a loop, a pair of opposite edges, properties that are
   absent, equal or different, and a list in property l. *)
Two(labels, props, edges, eprops) ==
  [node |-> {n1, n2}, label |-> labels, prop |-> props, edge |-> edges, eprop |-> eprops]
AB == {<<n1, "A">>, <<n2, "B">>}
ListV == <<"list", <<IntV(1), IntV(2)>>>>

Loose == Two(AB, {<<n1, "k", IntV(1)>>}, {}, {})
Alike == Two(AB \cup {<<n2, "A">>}, {<<n1, "k", IntV(1)>>, <<n2, "k", IntV(1)>>, <<n2, "l", ListV>>},
             {<<n1, "R", n2>>}, {})
Looped == Two(AB, {<<n1, "k", IntV(1)>>, <<n2, "k", IntV(2)>>},
              {<<n1, "R", n1>>, <<n1, "R", n2>>, <<n2, "S", n1>>}, {<<n1, "R", n2, "k", IntV(2)>>})
Mutual == Two(AB, {<<n2, "k", IntV(2)>>, <<n1, "l", ListV>>}, {<<n1, "R", n2>>, <<n2, "R", n1>>, <<n1, "S", n2>>}, {})
MCGraphs == {EmptyGraph, Loose, Alike, Looped, Mutual}

-----------------------------------------------------------------------------
(* Queries. *)
a1 == Alone(P("a"))
aR == Chain(P("a"), <<Via(Rl("", <<"R">>, "out"), P("b"))>>)
rR == Chain(P("a"), <<Via(Rl("r", <<"R">>, "out"), PL("b", "B"))>>)
inS == Chain(P("a"), <<Via(Rl("", <<"S">>, "in"), P("b"))>>)
any == Chain(P("a"), <<Via(Rl("", <<>>, "both"), P("b"))>>)
aRbS == Chain(P("a"), <<Via(Rl("", <<"R">>, "out"), P("b")), Via(Rl("", <<"S">>, "out"), P("c"))>>)
Patterns == {a1, Alone(PL("a", "A")), Alone(PK("a", "k", IntV(1))), aR, rR, inS, any, aRbS}

ak == Prop("a", "k")
Wheres ==
  {Always, Cmp("=", ak, Lit(1)), Cmp("<>", ak, Lit(1)), IsNull(ak), Not(Cmp("<", ak, Lit(2))),
   Binary("or", Cmp("=", ak, Lit(2)), [e |-> "label", v |-> "a", l |-> "B"])}

Endings ==
  {<<Return(<<Own("a")>>)>>, <<Return(<<As(ak, "x"), As(Plus(ak, Lit(1)), "y")>>)>>,
   <<Return(<<As(ak, "x"), As(CountStar, "c")>>)>>, <<Return(<<As(Agg("sum", ak), "s")>>)>>,
   <<[Return(<<As(ak, "x")>>) EXCEPT !.distinct = TRUE]>>,
   <<[With(<<As(ak, "x")>>) EXCEPT !.where = Cmp("<", Variable("x"), Lit(2))], Return(<<Own("x")>>)>>,
   <<With(<<Own("a"), As(Plus(ak, Lit(1)), "y")>>), MatchOf(Chain(P("a"), <<Via(Rl("", <<"S">>, "out"), P("d"))>>)),
     Return(<<Own("y"), Own("d")>>)>>}

Family == {One(<<MatchW(<<p>>, w)>> \o ending) : p \in Patterns, w \in Wheres, ending \in Endings}

\* What else is answered exactly: an OPTIONAL MATCH and its WHERE, counts over
\* what may be missing, two MATCHes of one name, a product, UNWIND, keys of WITH.
ab == Chain(P("a"), <<Via(Rl("", <<"R">>, "out"), PL("b", "B"))>>)
ToB == OptionalOf(ab)
Exactly ==
  {One(<<MatchOf(a1), ToB, Return(<<Own("a"), Own("b")>>)>>),
   One(<<MatchOf(a1), OptionalW(ab, Cmp("<", ak, Prop("b", "k"))), Return(<<Own("a"), Own("b")>>)>>),
   One(<<MatchOf(a1), ToB, Return(<<As(ak, "x"), As(Agg("count", Variable("b")), "c")>>)>>),
   One(<<MatchOf(a1), ToB, With(<<Own("a"), Own("b")>>), Return(<<As(CountStar, "c")>>)>>),
   One(<<MatchOf(ab), MatchOf(Chain(P("b"), <<Via(Rl("", <<"S">>, "out"), P("c"))>>)), Return(<<Own("a"), Own("c")>>)>>),
   One(<<MatchW(<<Alone(PL("a", "A")), Alone(P("d"))>>, Cmp("=", ak, Prop("d", "k"))), Return(<<Own("a"), Own("d")>>)>>),
   One(<<UnwindOf(ListX(<<Lit(1), Lit(3)>>), "u"), MatchW(<<a1>>, Cmp("<=", ak, Variable("u"))), Return(<<Own("u"), Own("a")>>)>>),
   One(<<MatchOf(aR), Return(<<As(AggD("count", Variable("b")), "c")>>)>>),
   One(<<MatchOf(a1), Return(<<As(Agg("min", ak), "lo")>>)>>),
   One(<<MatchOf(Chain(P("a"), <<Via(Rl("r", <<"R">>, "out"), P("b"))>>)), Return(<<As(Prop("r", "k"), "x"), Own("r")>>)>>),
   One(<<MatchOf(aR), [With(<<As(ak, "x"), As(CountStar, "c")>>) EXCEPT !.where = Cmp("<", Lit(1), Variable("c"))],
         Return(<<Own("x"), As(Plus(Variable("c"), Lit(1)), "y")>>)>>),
   One(<<MatchOf(a1), [Return(<<As(ak, "x")>>) EXCEPT !.order = <<Down(Variable("x"))>>]>>)}

\* Expressions that are computed, in part or whole, while compiling.
of(xs) == One(<<MatchOf(a1), Columned(xs)>>)
where(x) == One(<<MatchW(<<a1>>, x), Return(<<Own("a")>>)>>)
v == Variable("v")
UptoK(kind, items) == Quant(kind, "v", items, Cmp("<=", v, ak))
Sees(dir, to) == Chain(P("a"), <<Via(Rl("", <<"R">>, dir), to)>>)
Unnamed(types, dir) == Chain(P("a"), <<Via(Rl("", types, dir), P(""))>>)

Literals ==
  {of(<<ListX(<<Variable("a"), Lit(1)>>), MapX(<<<<"k", Lit(1)>>, <<"l", ListX(<<Lit(2), NullX>>)>>>>),
        Plus(Ints(<<1, 2>>), Ints(<<3>>)), Plus(Ints(<<1>>), Lit(2)), ListX(<<MapX(<<<<"k", Str(1)>>>>), NullX>>)>>),
   of(<<Cmp("=", Ints(<<1, 2>>), Ints(<<1, 2>>)), Cmp("=", ListX(<<Lit(1), NullX>>), Ints(<<1, 2>>)),
        Cmp("<>", ListX(<<Lit(1), NullX>>), ListX(<<Lit(2), NullX>>)), Cmp("=", ListX(<<NullX>>), Ints(<<1, 2>>)),
        Cmp("=", NullX, Ints(<<1>>)), Cmp("=", Ints(<<>>), Str(1)), Cmp("=", Prop("a", "l"), Ints(<<1, 2>>))>>),
   of(<<Cmp("<", Ints(<<1, 2>>), Ints(<<1, 3>>)), Cmp("<=", Ints(<<1, 2>>), Ints(<<1>>)), Cmp("<", Ints(<<>>), Ints(<<0>>)),
        Cmp("<", ListX(<<Str(1), Str(3)>>), ListX(<<Str(2)>>)), Cmp("<", Ints(<<1>>), NullX)>>),
   of(<<In(ak, Ints(<<1, 3>>)), In(Lit(2), ListX(<<Lit(1), NullX>>)), In(NullX, Ints(<<>>)), In(Lit(2), Prop("a", "l")),
        In(Ints(<<1>>), ListX(<<Ints(<<2>>), ListX(<<NullX>>)>>)), In(Lit(3), Prop("a", "l"))>>),
   of(<<Size(ListX(<<ak, Lit(1)>>)), Size(Plus(Ints(<<1, 2>>), Ints(<<3>>))), Size(RangeX(1, 6, 2)), RangeX(3, 1, -1), RangeX(3, 1, 1)>>),
   of(<<At(Ints(<<1, 2>>), Lit(0)), At(Ints(<<1, 2>>), Lit(-1)), At(Ints(<<1, 2>>), Lit(2)), At(Ints(<<1, 2>>), Lit(-3))>>)}

Slices ==
  {of(<<From(Ints(<<1, 2, 3>>), Lit(1)), Upto(Ints(<<1, 2, 3>>), Lit(-1)), Between(Ints(<<1, 2, 3>>), Lit(-5), Lit(2)),
        Between(Ints(<<1, 2, 3>>), Lit(2), Lit(1)), Between(Ints(<<1, 2, 3>>), NullX, Lit(1)), Between(Ints(<<1, 2>>), Lit(0), Lit(9))>>),
   of(<<ListCompW("v", Ints(<<1, 2, 3>>), Cmp("<", v, Lit(3)), v), ListComp("v", ListX(<<Lit(1), NullX>>), Str(7)),
        Size(ListCompW("v", Ints(<<1, 2, 3>>), Binary("or", Cmp("=", v, Lit(1)), Not(Cmp("<", v, Lit(3)))), v)),
        ListCompW("v", Ints(<<2, 1>>), Binary("and", Cmp("<>", v, Lit(1)), Cmp("<=", v, Lit(2))), Lit(0))>>),
   One(<<MatchOf(a1),
         With(<<Own("a"), As(Ints(<<4, 5, 6>>), "l"), As(Lit(1), "i"), As(MapX(<<<<"k", Lit(7)>>>>), "m"), As(Lit(-1), "j")>>),
         Columned(<<At(Variable("l"), Variable("i")), At(Variable("l"), Variable("j")), From(Variable("l"), Variable("i")),
                    Between(Variable("l"), Lit(0), Variable("j")), Prop("m", "k"), Prop("m", "l"), Plus(Variable("i"), ak)>>)>>)}

Quantifiers ==
  {of(<<UptoK(kinds[1], items), UptoK(kinds[2], items)>>) :
     kinds \in {<<"all", "any">>, <<"none", "single">>},
     items \in {Ints(<<>>), Ints(<<1>>), Ints(<<1, 2>>), ListX(<<NullX, Lit(1)>>)}}
  \cup {of(<<Quant("any", "v", Ints(<<1, 2>>), Quant("all", "w", Ints(<<1, 2>>), Cmp("<=", Variable("w"), v))),
              Quant("none", "v", Ints(<<2>>), In(v, Ints(<<1>>))), Quant("single", "v", Ints(<<0, 2>>), Cmp("=", v, ak))>>),
         where(Quant("single", "v", Ints(<<1, 2, 3>>), Cmp("=", v, ak))), where(Not(Quant("all", "v", Ints(<<2, 3>>), Cmp("<", ak, v))))}

Conditions ==
  {of(<<Case(<<When(LabelX("a", "B"), Lit(5)), When(IsNull(ak), Lit(6))>>, ak),
        Case(<<When(IsNull(ak), NullX)>>, Plus(ak, Lit(1))), SimpleCase(Lit(2), <<When(Lit(1), Str(1)), When(Lit(2), ak)>>, Lit(0)),
        Binary("xor", LabelX("a", "A"), Cmp("=", ak, Lit(1)))>>),
   of(<<Cmp("<", LabelX("a", "B"), LabelX("a", "A")), Cmp("<=", IsNull(ak), Not(LabelX("a", "A"))), Cmp("<", Always, Not(Always))>>),
   where(Binary("xor", IsNull(ak), LabelX("a", "B"))), where(In(ak, Ints(<<2, 3>>)))}

\* Patterns in expressions.
PatternTests ==
  {where(Exists(Sees("out", PL("", "B")), Always)), where(Not(Exists(Sees("in", P("")), Always))),
   where(Exists(Sees("out", P("z")), Cmp("=", Prop("z", "k"), ak))), where(Binary("or", Exists(Sees("in", PK("", "k", IntV(1))), Always), Cmp("=", ak, Lit(1)))),
   of(<<Exists(Unnamed(<<"S">>, "in"), Always), DegreeOf(Unnamed(<<"R">>, "out")), DegreeOf(Unnamed(<<>>, "in"))>>),
   of(<<Plus(DegreeOf(Unnamed(<<"R", "S">>, "out")), Lit(1)), IsNull(Exists(Unnamed(<<"R">>, "out"), Always))>>),
   One(<<MatchOf(Alone(P("a"))), [With(<<Own("a"), As(DegreeOf(Unnamed(<<"R">>, "out")), "d")>>) EXCEPT !.where = Cmp("<", Lit(0), Variable("d"))],
         MatchOf(inS), Return(<<Own("a"), Own("d")>>)>>)}

Computing == Literals \cup Slices \cup Quantifiers \cup Conditions \cup PatternTests

\* Compiled otherwise, refused, or an error of the query.
Otherwise ==
  {of(<<ListX(<<ak, Lit(1)>>)>>), of(<<MapX(<<<<"k", ak>>, <<"l", NullX>>>>)>>),
   of(<<ListCompW("v", ListX(<<Lit(1), NullX>>), Cmp("<>", v, Lit(1)), v)>>),
   of(<<ListCompW("v", Ints(<<1, 2>>), Cmp("<", v, ak), v)>>), of(<<ListComp("v", Ints(<<1>>), Plus(v, Lit(1)))>>),
   of(<<Size(ListCompW("v", Prop("a", "l"), Cmp("<>", v, NullX), v)), Size(ListCompW("v", Ints(<<1>>), Cmp("=", v, ak), v))>>),
   of(<<Case(<<When(Cmp("=", ak, Lit(1)), Lit(1))>>, Lit(2))>>), of(<<Size(Prop("a", "l"))>>), of(<<Size(Str(1))>>),
   of(<<Quant("all", "v", Prop("a", "l"), Always)>>), of(<<Quant("none", "v", Prop("a", "l"), Not(Always)), Quant("single", "v", Prop("a", "l"), Not(Always))>>),
   of(<<Quant("any", "v", Prop("a", "l"), Cmp("<", v, Lit(2)))>>), of(<<Quant("any", "v", ListX(<<Str(1)>>), Cmp("=", Over(v, Lit(2)), Lit(1)))>>),
   of(<<Quant("any", "v", ListX(<<NullX, MapX(<<<<"k", Lit(1)>>>>)>>), Cmp("=", Prop("v", "k"), Lit(1)))>>),
   of(<<Quant("all", "v", ListX(<<Variable("a"), NullX>>), IsNull(Prop("v", "k")))>>),
   of(<<Cmp("<", Ints(<<1>>), ListX(<<ak>>))>>), of(<<Cmp("<", Ints(<<1>>), ak)>>), of(<<Cmp("=", ListX(<<NullX>>), ListX(<<ak>>))>>),
   of(<<Cmp("=", MapX(<<<<"k", Lit(1)>>, <<"l", NullX>>>>), MapX(<<<<"l", NullX>>, <<"k", Lit(1)>>>>))>>),
   of(<<In(ak, ListX(<<NullX>>))>>), of(<<In(Variable("a"), Prop("a", "l"))>>), of(<<Plus(Ints(<<1>>), ak)>>),
   of(<<From(Prop("a", "l"), Lit(1))>>), of(<<From(Ints(<<1, 2>>), ak)>>), of(<<At(Prop("a", "l"), Lit(0))>>), of(<<At(Variable("a"), Str(1))>>),
   of(<<At(MapX(<<<<"k", Lit(1)>>>>), Str(1))>>), of(<<At(Ints(<<1>>), Str(1))>>), of(<<At(ak, Str(1))>>),
   of(<<Cmp("<", LabelX("a", "B"), Lit(1))>>), of(<<Not(Lit(1))>>), of(<<In(Lit(1), Str(1))>>), of(<<Binary("and", Always, Ints(<<1>>))>>),
   of(<<[e |-> "degree", chain |-> Sees("out", PL("", "B")), where |-> Always]>>), of(<<DegreeOf(Unnamed(<<"R">>, "both"))>>),
   where(Exists(Chain(P("a"), <<Via(Hopped(<<"R">>, "out", <<1, 2>>), P(""))>>), Always)),
   One(<<MatchW(<<a1>>, Exists(Sees("out", P("z")), Always)), MatchOf(Alone(P("z"))), Return(<<Own("z")>>)>>),
   One(<<MatchOf(a1), With(<<Own("a"), As(Ints(<<1>>), "l"), As(Lit(0), "i"), As(NullX, "x")>>),
         With(<<Own("a"), As(Ints(<<2, 3>>), "l"), Own("i"), Own("x"), As(Size(Ints(<<1, 2>>)), "n")>>),
         Columned(<<At(Variable("l"), Lit(1)), Prop("x", "k"), Size(Variable("l")), From(Variable("l"), Variable("n"))>>)>>),
   One(<<MatchOf(a1), With(<<As(Ints(<<1, 2>>), "l"), As(Str(1), "t"), As(Lit(3), "i")>>),
         Columned(<<At(Variable("l"), Variable("t"))>>)>>),
   One(<<MatchOf(a1), With(<<As(Lit(3), "i")>>), Columned(<<At(Variable("i"), Variable("i"))>>)>>),
   One(<<MatchOf(a1), With(<<As(Plus(Lit(3), Over(Lit(4), Lit(2))), "i"), As(Ints(<<1, 2>>), "l")>>),
         With(<<As(Size(Variable("l")), "n"), As(Variable("l"), "o"), Own("i"), As(Ints(<<1, 2>>), "l")>>),
         Columned(<<Quant("any", "v", Variable("l"), Cmp("=", v, Variable("n"))), ListComp("v", Variable("l"), v), At(Variable("l"), Variable("i"))>>)>>)}

\* Continuations: RETURN [v IN a.l | v + 1] AS ys
Lists == One(<<MatchW(<<a1>>, Not(IsNull(Prop("a", "l")))), Return(<<As(ListComp("v", Prop("a", "l"), Plus(Variable("v"), Lit(1))), "ys")>>)>>)
\* ... RETURN [v IN [1, 2] | [(a)-[:R]->() | p]] AS ys
Nested == One(<<MatchOf(Alone(PL("a", "A"))),
  Return(<<As(ListComp("v", ListX(<<Lit(1), Lit(2)>>), PatternComp("a", Rl("", <<"R">>, "out"))), "ys")>>)>>)
\* MATCH (a) UNWIND [a, 3, [1], {k: 2}, null] AS u RETURN u
Mixed == One(<<MatchOf(a1), UnwindOf(ListX(<<Variable("a"), Lit(3), Ints(<<1>>), MapX(<<<<"k", Lit(2)>>>>), NullX>>), "u"),
               Return(<<Own("u")>>)>>)
\* MATCH (a)-[:R]->(b) WITH [(a)-[:R]->() | p] AS ps, count(*) AS c RETURN c
Places == One(<<MatchOf(aR), With(<<As(PatternComp("a", Rl("", <<"R">>, "out")), "ps"), As(CountStar, "c")>>), Return(<<Own("c")>>)>>)
\* MATCH p = (a)-[:R]->(b) RETURN collect(p) AS ps
Collected == One(<<MatchOf(PathOf("p", aR)), Return(<<As(Agg("collect", Variable("p")), "ps")>>)>>)
Counted == {Nested, Mixed, Places, Collected}

\* Refused, or left to the older translator, or only driven.
Twice == One(<<MatchOf(a1), Return(<<As(ak, "x"), Own("a"), As(Lit(1), "x")>>)>>)
Renamed == One(<<MatchOf(rR), With(<<As(Variable("r"), "s")>>), MatchOf(rR), Return(<<Own("s")>>)>>)
Paths == One(<<MatchOf(PathOf("p", Chain(P("a"), <<Via(Hopped(<<"R">>, "out", <<1>>), P("b"))>>))),
               With(<<As(LengthOf("p"), "len"), As(CountStar, "c")>>), Return(<<Own("len")>>)>>)
Inexact ==
  {Twice, Renamed, Paths,
   One(<<MatchOf(a1), ToB, Return(<<As(Prop("b", "k"), "x")>>)>>),
   One(<<MatchOf(Chain(P("a"), <<Via(Rl("", <<"R">>, "out"), P("b")), Via(Rl("", <<"R">>, "out"), P("c"))>>)), Return(<<Own("c")>>)>>),
   One(<<MatchOf(Chain(P("a"), <<Via(Hopped(<<"R">>, "out", <<1, 2>>), P("b"))>>)), Return(<<Own("b")>>)>>),
   One(<<MatchOf(a1), Return(<<As(Over(ak, Lit(2)), "x")>>)>>)}

Reading == Family \cup Exactly \cup Computing \cup Counted \cup Inexact \cup Otherwise \cup {Lists}

-----------------------------------------------------------------------------
(* An executor that keeps to the words of SparqlExecutor (runtime.rs): a value
   is the serialised term, a literal in quotes. *)
Serialised(x) == IF x[1] \in {"int", "bool", "str", "list", "map"} THEN <<"quoted", x>> ELSE x
SerialisedResults(g, asked) ==
  LET found == Results(g, asked) IN [i \in DOMAIN found |-> [name \in DOMAIN found[i] |-> Serialised(found[i][name])]]
ReadingLists == {Lists}

ASSUME ReadAssumption ==
  /\ \A q \in Exactly \cup Computing \cup {Lists} : ReadExact(q)
  /\ \A q \in Counted : CountExact(q) /\ ~ ReadExact(q)
  /\ \A q \in Inexact \cup Otherwise : MayRefuse(q)
  /\ Cardinality({q \in Family : ~ ReadExact(q)}) <= 6
=============================================================================
