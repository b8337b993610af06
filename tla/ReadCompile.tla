----------------------------- MODULE ReadCompile -----------------------------
(***************************************************************************)
(* lqa/sparql.rs for reading queries: the operator tree becomes a SELECT.  *)
(* The compiler's state is one record, threaded through the walk:          *)
(*   p, x    the pattern and the expression the last step returned         *)
(*   req     triples that wait to be joined to the pattern                 *)
(*   opts, groups, pats, binds   OPTIONALs and BINDs that wait with them   *)
(*   scan    names a pattern or an UNWIND binds (never a computed value)   *)
(*   scalar  names bound to a computed value                               *)
(*   null    names an OPTIONAL may leave unbound                           *)
(*   edges   relationship variables; anon: relationships without one       *)
(*   nulls   UNWIND variables whose list holds null                        *)
(*   lits, maps, lists, ints, sizes   names whose value is a literal, a    *)
(*           literal map or null, a list of known members, an integer, a   *)
(*           list of known length                                          *)
(*   paths   the names of paths, each with its length; Dynamic: not known  *)
(*   cols, once   the columns of the answer; whether RETURN is DISTINCT    *)
(*   n, err  the counter of fresh names; the first error                   *)
(* Names hold across clauses: a relationship variable stays one after the  *)
(* WITH that drops it, as does a nullable name.                            *)
(***************************************************************************)
EXTENDS SparqlQuery, LiteralFold

Start ==
  [p |-> <<>>, x |-> "", req |-> <<>>, opts |-> <<>>, groups |-> <<>>, pats |-> <<>>, binds |-> <<>>,
   scan |-> {}, scalar |-> {}, null |-> {}, edges |-> <<>>, anon |-> <<>>, nulls |-> {},
   lits |-> {}, maps |-> <<>>, lists |-> <<>>, ints |-> <<>>, sizes |-> <<>>, paths |-> <<>>, cols |-> <<>>, once |-> FALSE, n |-> 0, err |-> ""]

VarX(v) == [e |-> "var", v |-> v]
ValX(x) == [e |-> "val", x |-> x]
BoundX(v) == [e |-> "bound", v |-> v]
NotX(a) == [e |-> "!", a |-> a]
AndX(a, b) == [e |-> "&&", a |-> a, b |-> b]
OrX(a, b) == [e |-> "||", a |-> a, b |-> b]
EqX(a, b) == [e |-> "=", a |-> a, b |-> b]
ExistsX(ts) == [e |-> "exists", g |-> Bgp(ts)]
TermX(t) == IF t[1] = "?" THEN VarX(t[2]) ELSE ValX(t)

Dynamic == -1

Fail(st, kind) == [st EXCEPT !.err = IF @ = "" THEN kind ELSE @, !.x = ValX(Null)]
Name(st) == "_" \o ToString(st.n)
NextName(st) == [st EXCEPT !.n = @ + 1]

\* What waits is put after the pattern, the required triples first.
Flush(st) ==
  LET required == IF st.req = <<>> THEN st.p ELSE Join(st.p, Bgp(st.req))
      triples == [i \in DOMAIN st.opts |-> Bgp(<<st.opts[i]>>)]
      groups == [i \in DOMAIN st.groups |-> Bgp(st.groups[i])]
  IN [st EXCEPT !.p = Binds(Optionals(required, triples \o groups \o st.pats), st.binds),
                !.req = <<>>, !.opts = <<>>, !.groups = <<>>, !.pats = <<>>, !.binds = <<>>]

-----------------------------------------------------------------------------
(* One relationship. *)

Marker(r) == <<"marker", r>>
Sentinel(v) == Bgp(<<NodeT(X(v))>>)
Arc(s, r, o, dir) == IF dir = "in" THEN EdgeT(o, r, s) ELSE EdgeT(s, r, o)

\* An undirected pattern is the union of both directions.
Typed(s, r, o, dir) ==
  IF dir = "both" THEN UnionOfTwo(Bgp(<<Arc(s, r, o, "out")>>), Bgp(<<Arc(s, r, o, "in")>>))
  ELSE Bgp(<<Arc(s, r, o, dir)>>)

\* A mutant of AnyType: a loop is matched once for each direction.
AnyTypeTwice(s, r, o, dir) == Join(Typed(s, r, o, dir), Bgp(<<NodeT(o)>>))

\* Without a type, a loop is matched in one direction only, and the target
\* must be a node.
AnyType(s, r, o, dir) ==
  LET back == Filter(Bgp(<<Arc(s, r, o, "in")>>), IF s = o THEN ValX(False) ELSE NotX(EqX(TermX(o), TermX(s))))
      edge == IF dir = "both" THEN UnionOfTwo(Bgp(<<Arc(s, r, o, "out")>>), back) ELSE Typed(s, r, o, dir)
  IN Join(edge, Bgp(<<NodeT(o)>>))

OneOf(s, types, o, dir) ==
  LET all == [i \in DOMAIN types |-> Typed(s, TypeV(types[i]), o, dir)]
  IN FoldLeft(UnionOfTwo, all[1], Tail(all))

-----------------------------------------------------------------------------
(* Expressions. *)

\* Of the operators, the last become the query's own modifiers; the others are
\* lowered to a pattern.
RECURSIVE Lowered(_, _, _)
LowerX(st, x) == Lowered("value", st, x)
LowerOp(st, op) == Lowered("pattern", st, op)
AsQuery(st, op) == Lowered("query", st, op)

\* Null is a variable nothing binds.
NullVar(st) == [NextName(st) EXCEPT !.x = VarX(Name(st))]
Valued(st, x) == [st EXCEPT !.x = ValX(x)]
Folded(st, t) ==
  CASE t = Unknown -> Fail(st, "unsupported") [] t = Null -> NullVar(st) [] OTHER -> Valued(st, t)

LowerAll(st, xs) ==
  LET Then(acc, e) == [st |-> e, xs |-> Append(acc.xs, e.x)]
  IN FoldLeft(LAMBDA acc, x : Then(acc, LowerX(acc.st, x)), [st |-> st, xs |-> <<>>], xs)

\* A literal list, or a name WITH bound to one.
KnownList(st, x) == x.e = "list" \/ (x.e = "var" /\ x.v \in DOMAIN st.lists)
ItemsOf(st, x) == IF x.e = "list" THEN x.items ELSE st.lists[x.v]

\* The integer an expression is while compiling, in a set of at most one.
RECURSIVE ConstInt(_, _)
ConstInt(st, x) ==
  CASE Integral(x) -> {x.x[2]}
    [] x.e = "var" -> IF x.v \in DOMAIN st.ints THEN {st.ints[x.v]} ELSE {}
    [] x.e = "add" -> {a + b : a \in ConstInt(st, x.a), b \in ConstInt(st, x.b)}
    [] x.e = "div" -> {Quotient(a, b) : a \in ConstInt(st, x.a), b \in ConstInt(st, x.b) \ {0}}
    [] OTHER -> {}

\* An index or a bound: a literal, or a name for one.
Bounded(st, x) == IF Integral(x) \/ x.e = "var" THEN ConstInt(st, x) ELSE {}

SizeOf(st, x) ==
  CASE x.e = "list" -> {Len(x.items)}
    [] x.e = "var" -> IF x.v \in DOMAIN st.sizes THEN {st.sizes[x.v]} ELSE {}
    [] OTHER -> {}

\* Integers and lengths are remembered under the name they are bound to.
WithInts(st, as, x) ==
  LET ints == CASE x.e \in {"lit", "var", "add"} -> ConstInt(st, x) [] x.e = "size" -> SizeOf(st, x.a) [] OTHER -> {}
      With(f, S) == [v \in {as} \cap (IF S = {} THEN {} ELSE {as}) |-> CHOOSE i \in S : TRUE] @@ f
  IN [st EXCEPT !.ints = With(@, ints), !.sizes = With(@, SizeOf(st, x))]

\* A property of a relationship is looked up by the ends of its edge; of an
\* undirected one, in both directions.
EdgeProperty(st, v, k) ==
  LET e == st.edges[v]
      There(s, o) == <<EpropT(X(s), e.r, X(o), k, X(Name(st)))>>
      next == [st EXCEPT !.n = @ + 2, !.x = VarX(Name(st))]
  IN IF e.both THEN [next EXCEPT !.pats = Append(@, UnionOfTwo(Bgp(There(e.s, e.o)), Bgp(There(e.o, e.s))))]
     ELSE [next EXCEPT !.groups = Append(@, There(e.s, e.o))]

\* What the pairs of a map have under a key.
FromPairs(st, pairs, k) ==
  LET at == {i \in DOMAIN pairs : pairs[i][1] = k}
  IN IF at = {} THEN NullVar(st) ELSE LowerX(st, pairs[CHOOSE i \in at : \A j \in at : i <= j][2])

\* A property of a node is an OPTIONAL triple, whether or not the node may
\* itself be unbound.
Property(st, v, k) ==
  CASE v \in DOMAIN st.maps -> FromPairs(st, st.maps[v], k)
    [] v \notin DOMAIN st.maps /\ v \in DOMAIN st.edges -> EdgeProperty(st, v, k)
    [] v \notin DOMAIN st.maps \cup DOMAIN st.edges /\ v \in st.scalar ->
         Fail(st, IF v \in st.lits THEN "translation" ELSE "unsupported")
    [] OTHER -> [NextName(st) EXCEPT !.x = VarX(Name(st)), !.opts = Append(@, PropT(X(v), k, X(Name(st))))]

\* A property of a member that took the place of a variable.  What is lowered
\* to a variable is taken for a node.
PropertyOf(st, x, k) ==
  LET OfTerm(e) ==
        IF e.x.e = "var" THEN [NextName(e) EXCEPT !.x = VarX(Name(e)), !.opts = Append(@, PropT(X(e.x.v), k, X(Name(e))))]
        ELSE Fail(e, "unsupported")
  IN IF x.e = "map" THEN FromPairs(st, x.pairs, k) ELSE OfTerm(LowerX(st, x))

\* list[i] of a known list is a member of it; another index is the name of a
\* property (no text stands for the name of one here).
Indexing(st, list, i) ==
  LET name == list.e = "var"
      known == Bounded(st, i)
      textual == (i.e = "lit" /\ i.x[1] = "str") \/ (i.e = "var" /\ i.v \in st.lits)
      key == IF known = {} THEN "text" ELSE ToString(CHOOSE n \in known : TRUE)
  IN CASE name /\ list.v \in DOMAIN st.lists ->
            IF known # {} THEN LowerX(st, MemberAt(st.lists[list.v], CHOOSE n \in known : TRUE))
            ELSE Fail(st, IF textual THEN "translation" ELSE "unsupported")
       [] list.e = "map" /\ textual -> NullVar(st)
       [] name /\ list.v \notin DOMAIN st.lists /\ textual ->
            IF known # {} /\ list.v \in st.scalar \ DOMAIN st.maps THEN Fail(st, "translation") ELSE Property(st, list.v, key)
       [] OTHER -> Fail(st, "unsupported")

\* A label test of a name that may be unbound is null where it is.
LabelTest(st, v, l) ==
  LET test == ExistsX(<<LabelT(X(v), l)>>)
  IN IF v \in st.null
     THEN [NextName(st) EXCEPT !.x = [e |-> "if", c |-> BoundX(v), a |-> test, b |-> VarX(Name(st))]]
     ELSE [st EXCEPT !.x = test]

IntLit(x) == x.e = "val" /\ x.x[1] = "int"

\* Two integer literals are folded.  Otherwise a division by a literal is
\* rounded down, unless its left side is a property.
Divided(x, a, b) ==
  CASE IntLit(a) /\ IntLit(b) /\ b.x # IntV(0) /\ x.a.e # "prop" -> ValX(IntV(Quotient(a.x[2], b.x[2])))
    [] IntLit(b) /\ x.a.e # "prop" /\ ~ (IntLit(a) /\ b.x # IntV(0)) -> [e |-> "floor/", a |-> a, b |-> b]
    [] OTHER -> [e |-> "/", a |-> a, b |-> b]

Added(a, b) ==
  IF IntLit(a) /\ IntLit(b) THEN ValX(IntV(a.x[2] + b.x[2])) ELSE [e |-> "+", a |-> a, b |-> b]

\* In an order false is 0 and true is 1.
Ordinal(a) == [e |-> "ordinal", a |-> a]
Compared(op, a, b) ==
  CASE op = "=" -> EqX(a, b)
    [] op = "<>" -> NotX(EqX(a, b))
    [] op \in {"<", "<="} -> [e |-> op, a |-> Ordinal(a), b |-> Ordinal(b)]

\* The length of a path is the number of hops written for it; the name of a
\* node or relationship has none.
PathLength(st, v) ==
  CASE v \in DOMAIN st.paths /\ st.paths[v] # Dynamic -> Valued(st, IntV(st.paths[v]))
    [] v \notin DOMAIN st.paths /\ v \in st.scan -> Fail(st, "translation")
    [] OTHER -> Fail(st, "unsupported")

\* The two sides of an operator, lowered.
Combined(x, a, b) ==
  CASE x.e = "cmp" -> Compared(x.op, a, b)
    [] x.e = "and" -> AndX(a, b)
    [] x.e = "or" -> OrX(a, b)
    [] x.e = "add" -> Added(a, b)
    [] x.e = "div" -> Divided(x, a, b)

BothSides(st, x) ==
  LET Right(a, b) == [b EXCEPT !.x = Combined(x, a.x, @)]
      Left(a) == Right(a, LowerX(a, x.b))
  IN Left(LowerX(st, x.a))

-----------------------------------------------------------------------------
(* Lists and maps.  They are texts in the generated query: one of literals *)
(* is written at once, another is put together for each row.               *)

Piece(st, x) ==
  CASE x.e = "lit" -> Valued(st, x.x)
    [] x.e \in {"list", "map"} -> LowerX(st, x)
    [] OTHER -> [LowerX(st, x) EXCEPT !.x = [e |-> "str", a |-> @]]

Listed(st, x) ==
  LET Add(acc, e) == [st |-> e, xs |-> Append(acc.xs, e.x)]
      keys == IF x.e = "list" THEN <<>> ELSE [i \in DOMAIN x.pairs |-> x.pairs[i][1]]
      Pieces == FoldLeft(LAMBDA acc, y : Add(acc, Piece(acc.st, y)), [st |-> st, xs |-> <<>>], Children(x))
  IN IF LiteralOnly(x) THEN Valued(st, Serialized(x))
     ELSE LET all == Pieces IN [all.st EXCEPT !.x = [e |-> "concat", keys |-> keys, parts |-> all.xs]]

\* A list and another, or one more member, if all are literals.
Concatenated(st, x) ==
  LET Members(y) == IF y.e = "list" THEN y.items ELSE <<y>>
      all == [e |-> "list", items |-> Members(x.a) \o Members(x.b)]
  IN IF LiteralOnly(all) THEN Valued(st, Serialized(all)) ELSE Fail(st, "unsupported")

\* Lists are ordered, and lists and maps with null in them compared, only if
\* they can be while compiling.
Truthlike(x) == x.e \in {"cmp", "in", "and", "or", "not"} \/ (x.e = "lit" /\ (x.x = Null \/ x.x[1] = "bool"))
Ordering(st, x) ==
  CASE x.a.e = "list" /\ x.b.e = "list" -> Folded(st, ListOrder(x.op, x.a.items, x.b.items))
    [] (x.a.e = "list" /\ Truthlike(x.b)) \/ (x.b.e = "list" /\ Truthlike(x.a)) -> NullVar(st)
    [] OTHER -> Fail(st, "unsupported")
NullEquality(st, x) ==
  LET same == SameLiteral(x.a, x.b)
  IN IF LiteralOnly(x.a) /\ LiteralOnly(x.b) THEN Folded(st, IF x.op = "=" THEN same ELSE Neg(same)) ELSE Fail(st, "unsupported")

Comparing(st, x) ==
  LET list == "list" \in {x.a.e, x.b.e}
      ordered == x.op \in {"<", "<="} /\ list
      nulls == x.op \in {"=", "<>"} /\ (list \/ "map" \in {x.a.e, x.b.e}) /\ (HoldsNull(x.a) \/ HoldsNull(x.b))
  IN CASE ordered -> Ordering(st, x) [] nulls -> NullEquality(st, x) [] OTHER -> BothSides(st, x)

\* IN: a literal list becomes the list of SPARQL's IN, another is searched by a
\* function of the engine.
Among(st, x) ==
  LET nulls == HoldsNull(x.a) \/ (x.b.e = "list" /\ HoldsNull(x.b))
      folded == IF LiteralOnly(x.a) /\ LiteralOnly(x.b) THEN FoldedIn(x.a, x.b.items) ELSE Unknown
      OneOfThese(a, all) == [all.st EXCEPT !.x = [e |-> "in", a |-> a.x, list |-> all.xs]]
      Searched(a, l) == [l EXCEPT !.x = [e |-> "contains", list |-> l.x, a |-> a.x]]
      Needle(a) == IF x.b.e = "list" THEN OneOfThese(a, LowerAll(a, x.b.items)) ELSE Searched(a, LowerX(a, x.b))
  IN IF x.b.e = "list" /\ nulls THEN Folded(st, folded) ELSE Needle(LowerX(st, x.a))

\* all, any, none and single are written out for the members of a known list.
Pairwise(ps) ==
  LET both == FlattenSeq([i \in DOMAIN ps |-> [j \in 1 .. Len(ps) - i |-> AndX(ps[i], ps[i + j])]])
  IN FoldLeft(OrX, both[1], Tail(both))
Spelled(kind, ps) ==
  LET denied == [i \in DOMAIN ps |-> NotX(ps[i])]
      any == FoldLeft(OrX, ps[1], Tail(ps))
  IN CASE kind = "all" -> FoldLeft(AndX, ps[1], Tail(ps))
       [] kind = "any" -> any
       [] kind = "none" -> FoldLeft(AndX, denied[1], Tail(denied))
       [] kind = "single" -> IF Len(ps) = 1 THEN any ELSE AndX(any, NotX(Pairwise(ps)))

\* Over another list a predicate that is the same for all may decide.
Regardless(st, x) ==
  LET always == DecidedBool(x.where)
  IN CASE always = False /\ x.kind = "none" -> Valued(st, True)
       [] always = False /\ x.kind \in {"any", "single"} -> Valued(st, False)
       [] always = True /\ x.kind = "all" -> Valued(st, True)
       [] OTHER -> Fail(st, "unsupported")

Quantifying(st, x) ==
  LET items == ItemsOf(st, x.list)
      odd == \E i \in DOMAIN items : items[i].e = "lit" /\ items[i].x[1] \in {"str", "bool"}
      Said(all) == [all.st EXCEPT !.x = Spelled(x.kind, all.xs)]
  IN CASE ~ KnownList(st, x.list) -> Regardless(st, x)
       [] KnownList(st, x.list) /\ items = <<>> -> Valued(st, BoolV(x.kind \in {"all", "none"}))
       [] KnownList(st, x.list) /\ items # <<>> /\ odd /\ UsesArithmetic(x.where, x.v) -> Fail(st, "translation")
       [] OTHER -> Said(LowerAll(st, [i \in DOMAIN items |-> SubstVar(x.where, x.v, items[i])]))

Comprehending(st, x) ==
  IF KnownList(st, x.list) THEN Folded(st, Comprehended(x, ItemsOf(st, x.list))) ELSE Fail(st, "unsupported")

\* list[lo..hi] of a known list of literals; a bound that is not known is left
\* out.
Cutting(st, x) ==
  LET items == ItemsOf(st, x.a)
      len == Len(items)
      At(side, otherwise) ==
        LET known == IF side \in DOMAIN x THEN Bounded(st, x[side]) ELSE {}
        IN IF known = {} THEN otherwise ELSE CHOOSE n \in known : TRUE
      Clamped(n) == LET m == Place(items, n) IN IF m < 0 THEN 0 ELSE IF m > len THEN len ELSE m
      from == Clamped(At("lo", 0))
      to == Clamped(At("hi", len))
      nulls == \E side \in {"lo", "hi"} \cap DOMAIN x : x[side] = Literal(Null)
  IN CASE ~ KnownList(st, x.a) \/ (KnownList(st, x.a) /\ \E i \in DOMAIN items : ~ LiteralOnly(items[i])) -> Fail(st, "unsupported")
       [] nulls -> NullVar(st)
       [] OTHER -> Valued(st, Serialized([e |-> "list", items |-> SubSeq(items, from + 1, to)]))

-----------------------------------------------------------------------------
(* Patterns in expressions, CASE and size. *)

RECURSIVE HasVarlen(_)
HasVarlen(op) ==
  \/ op.o = "expand" /\ op.hops # <<>>
  \/ \E side \in {"in", "l", "r"} \cap DOMAIN op : HasVarlen(op[side])

\* EXISTS is a group of its own; what is known of the names outside comes back,
\* but for the values and paths it named.
Existing(st, op) ==
  LET alone == [st EXCEPT !.req = <<>>, !.opts = <<>>, !.groups = <<>>, !.pats = <<>>, !.binds = <<>>, !.anon = <<>>]
      Back(inner) ==
        [inner EXCEPT !.x = [e |-> "exists", g |-> inner.p], !.p = st.p,
                      !.req = st.req, !.opts = st.opts, !.groups = st.groups, !.pats = st.pats, !.binds = st.binds,
                      !.scan = st.scan, !.null = st.null, !.edges = st.edges, !.anon = st.anon]
  IN IF HasVarlen(op) THEN Fail(st, "unsupported") ELSE Back(Flush(LowerOp(alone, op)))

RECURSIVE Unselected(_)
Unselected(op) == IF op.o = "select" THEN Unselected(op.in) ELSE op

\* size([(a)-[:R]->() | 1]): the edges of a bound node are counted in a group of
\* their own, whatever is asked of their ends.
Degree(st, pattern) ==
  LET op == Unselected(pattern)
      to == Name(st)
      cnt == Name(NextName(st))
      pred == X(Name(NextName(NextName(st))))
      found == IF op.types = <<>> THEN AnyType(X(op.from), pred, X(to), op.dir) ELSE OneOf(X(op.from), op.types, X(to), op.dir)
      counted == Grouped(found, <<op.from>>, <<[f |-> "countStar", a |-> ValX(Null), distinct |-> FALSE, v |-> cnt]>>)
      counts == /\ op.o = "expand" /\ op.hops = <<>> /\ op.rv = "" /\ op.dir # "both"
                /\ op.from \in st.scan /\ op.in.o \in {"unit", "scan", "select"}
  IN IF counts THEN [st EXCEPT !.n = @ + (IF op.types = <<>> THEN 3 ELSE 2), !.pats = Append(@, counted),
                               !.x = [e |-> "coalesce", args |-> <<VarX(cnt), ValX(IntV(0))>>]]
     ELSE Fail(st, "unsupported")

\* The size of what is known while compiling; otherwise that of a text.
Sized(st, x) ==
  LET listAdd == x.e = "add" /\ "list" \in {x.a.e, x.b.e} /\ LiteralOnly(x.a) /\ LiteralOnly(x.b)
      MembersOf(y) == IF y.e = "list" THEN Len(y.items) ELSE 1
      items == ItemsOf(st, x.list)
      OfText(e) == [e EXCEPT !.x = [e |-> "strlen", a |-> @]]
  IN CASE x.e = "var" /\ x.v \in DOMAIN st.paths -> PathLength(st, x.v)
       [] x.e \in {"list", "map"} -> Valued(st, IntV(Len(Children(x))))
       [] listAdd -> Valued(st, IntV(MembersOf(x.a) + MembersOf(x.b)))
       [] x.e = "listcomp" /\ KeepsNothing(x) -> Valued(st, IntV(0))
       [] x.e = "listcomp" /\ ~ KeepsNothing(x) /\ KnownList(st, x.list) /\ ~ LeftOpen(x, items) -> Valued(st, IntV(Len(KeptMembers(x, items))))
       [] OTHER -> OfText(LowerX(st, x))

\* The branches become IFs from the last to the first.
Branching(st, x) ==
  LET If(c, t, other) == [t EXCEPT !.x = [e |-> "if", c |-> c.x, a |-> @, b |-> other.x]]
      Then(acc, br, c) == If(c, LowerX(c, br.then), acc)
  IN FoldRight(LAMBDA br, acc : Then(acc, br, LowerX(acc, br.when)), x.branches, LowerX(st, x.other))

-----------------------------------------------------------------------------

\* An expression is null where the name it is bound to stays unbound.
NullTest(a) ==
  IF a.x.e = "var" THEN [a EXCEPT !.x = NotX(BoundX(a.x.v))]
  ELSE [NextName(a) EXCEPT !.x = NotX(BoundX(Name(a))), !.binds = Append(@, <<Name(a), a.x>>)]

\* A property of a node is null where no triple has it.
NullProperty(st, x) ==
  LET Asked(e) == [NextName(e) EXCEPT !.x = NotX(ExistsX(<<PropT(X(e.x.v), x.k, X(Name(e)))>>))]
      Base(e) == IF e.x.e = "var" THEN Asked(e) ELSE NullTest(LowerX(e, x))
  IN IF x.e = "prop" THEN Asked([st EXCEPT !.x = VarX(x.v)]) ELSE Base(LowerX(st, x.a))

ValueOf(st, x) ==
  CASE x.e = "lit" -> IF x.x = Null THEN NullVar(st) ELSE Valued(st, x.x)
    [] x.e = "var" -> IF x.v \in DOMAIN st.paths THEN Fail(st, "unsupported") ELSE [st EXCEPT !.x = VarX(x.v)]
    [] x.e = "length" -> PathLength(st, x.v)
    [] x.e = "prop" -> Property(st, x.v, x.k)
    [] x.e = "key" -> PropertyOf(st, x.a, x.k)
    [] x.e = "index" -> Indexing(st, x.a, x.b)
    [] x.e = "slice" -> Cutting(st, x)
    [] x.e = "label" -> LabelTest(st, x.v, x.l)
    [] x.e \in {"list", "map"} -> Listed(st, x)
    [] x.e = "cmp" -> Comparing(st, x)
    [] x.e = "in" -> Among(st, x)
    [] x.e = "add" /\ "list" \in {x.a.e, x.b.e} -> Concatenated(st, x)
    [] x.e \in {"and", "or", "div"} \/ (x.e = "add" /\ "list" \notin {x.a.e, x.b.e}) -> BothSides(st, x)
    [] x.e = "not" -> [LowerX(st, x.a) EXCEPT !.x = NotX(@)]
    [] x.e = "isnull" ->
         IF x.a.e = "key" \/ (x.a.e = "prop" /\ x.a.v \notin st.scalar) THEN NullProperty(st, x.a) ELSE NullTest(LowerX(st, x.a))
    [] x.e = "case" -> Branching(st, x)
    [] x.e = "quant" -> Quantifying(st, x)
    [] x.e = "listcomp" -> Comprehending(st, x)
    [] x.e = "exists" -> Existing(st, x.op)
    [] x.e = "degree" -> Degree(st, x.op)
    [] x.e = "size" -> Sized(st, x.a)
    [] x.e \in {"agg", "patcomp"} -> Fail(st, "unsupported")

RECURSIVE Nullable(_, _)
Nullable(st, x) ==
  CASE x.e \in {"var", "prop", "length"} -> x.v \in st.null
    [] x.e \in {"and", "or", "cmp", "in", "add", "div"} -> Nullable(st, x.a) \/ Nullable(st, x.b)
    [] x.e \in {"not", "isnull", "size", "key"} -> Nullable(st, x.a)
    [] x.e = "list" -> \E i \in DOMAIN x.items : Nullable(st, x.items[i])
    [] OTHER -> FALSE

\* Equal as sort keys are compared with items.
RECURSIVE Equivalent(_, _)
Equivalent(x, y) ==
  /\ x.e = y.e
  /\ CASE x.e = "var" -> x.v = y.v
       [] x.e = "prop" -> x.v = y.v /\ x.k = y.k
       [] x.e = "lit" -> x.x = y.x
       [] x.e = "add" -> Equivalent(x.a, y.a) /\ Equivalent(x.b, y.b)
       [] OTHER -> FALSE

FirstOf(S) == CHOOSE i \in S : \A j \in S : i <= j

-----------------------------------------------------------------------------
(* Relationships of a pattern. *)

\* The edge from..to of type r is none of the edges of the query so far.
Unused(s, r, o, before) ==
  LET Same(b) == OrX(AndX(EqX(VarX(b.s), VarX(s)), EqX(VarX(b.o), VarX(o))),
                     AndX(EqX(VarX(b.s), VarX(o)), EqX(VarX(b.o), VarX(s))))
      tests == [i \in DOMAIN before |-> NotX(AndX(EqX(TermX(before[i].r), TermX(r)), Same(before[i])))]
  IN FoldLeft(AndX, tests[1], Tail(tests))

EdgesSoFar(st) == SetToSeq({st.edges[v] : v \in DOMAIN st.edges}) \o st.anon

\* Only an undirected relationship is kept apart from the earlier ones.
Apart(st, p, op, r, before) ==
  IF op.dir = "both" /\ before # <<>> THEN Filter(p, Unused(op.from, r, op.to, before)) ELSE p

\* A path *lo..hi; the closure of an unbounded one gives each pair of nodes once.
Chains(s, types, o, dir, lo, hi) ==
  <<[e |-> "path", s |-> s, o |-> o, types |-> types, dir |-> dir, kind |-> "chains", lo |-> lo, hi |-> hi]>>
Closure(s, types, o, dir, lo) ==
  <<[e |-> "path", s |-> s, o |-> o, types |-> types, dir |-> dir, kind |-> "closure", lo |-> lo, hi |-> lo]>>

MaxUnrolled == 10
SmallerOf(a, b) == IF a < b THEN a ELSE b
Varlen(s, types, o, dir, hops) ==
  LET lo == hops[1]
      hi == hops[2]
      Walk(l) == Chains(s, types, o, dir, l, SmallerOf(hi, l + MaxUnrolled))
      Here == Bind(<<>>, TermX(s), o[2])
  IN CASE Len(hops) = 1 -> Closure(s, types, o, dir, lo)
       [] Len(hops) = 2 /\ hi < lo -> Filter(<<>>, ValX(False))
       [] Len(hops) = 2 /\ lo = 0 /\ hi = 0 -> Here
       \* zero or one hop: each node pair once
       [] Len(hops) = 2 /\ lo = 0 /\ hi = 1 ->
            <<[e |-> "path", s |-> s, o |-> o, types |-> types, dir |-> dir, kind |-> "option", lo |-> 0, hi |-> 1]>>
       [] Len(hops) = 2 /\ lo = 0 /\ hi > 1 -> UnionOfTwo(Bgp(<<NodeT(s)>>) \o Here, Walk(1))
       [] OTHER -> Walk(lo)

\* Patterns that start at a name an OPTIONAL may have left unbound start at a
\* term of no triple where it is.
Anchored(st, v) ==
  IF v \notin st.null THEN [st EXCEPT !.x = X(v)]
  ELSE LET all == Flush([st EXCEPT !.n = @ + 1])
       IN [all EXCEPT !.x = X(Name(st)),
                      !.p = Bind(@, [e |-> "if", c |-> BoundX(v), a |-> VarX(v), b |-> ValX(<<"none">>)], Name(st))]

\* A relationship variable stands for the type of its edge.  One that an earlier
\* pattern bound is not bound again.
NamedExpand(st, op) ==
  LET new == [st EXCEPT !.scan = @ \cup {op.rv}]
      before == EdgesSoFar(st)
      from == X(op.from)
      to == X(op.to)
      Edge(r) == [s |-> IF op.dir = "in" THEN op.to ELSE op.from, o |-> IF op.dir = "in" THEN op.from ELSE op.to,
                  r |-> r, both |-> op.dir = "both"]
      Known(s, r, p) == [s EXCEPT !.edges = (op.rv :> Edge(r)) @@ @,
                                  !.p = Apart(s, Join(st.p, p), op, r, before)]
      pred == X(Name(new))
      types == ValuesOf(<<Name(new)>>, [i \in DOMAIN op.types |-> <<TypeV(op.types[i])>>])
  IN CASE op.rv \in DOMAIN st.edges ->
            [new EXCEPT !.p = Join(st.p, IF op.types = <<>> THEN AnyType(from, X(op.rv), to, op.dir)
                                         ELSE OneOf(from, op.types, to, op.dir))]
       [] op.rv \notin DOMAIN st.edges /\ op.types = <<>> ->
            Known(NextName(new), pred, Bind(AnyType(from, pred, to, op.dir), TermX(pred), op.rv))
       [] op.rv \notin DOMAIN st.edges /\ Len(op.types) = 1 ->
            Known(new, TypeV(op.types[1]),
                  Bind(OneOf(from, op.types, to, op.dir), ValX(Marker(op.types[1])), op.rv))
       [] OTHER -> Known(NextName(new), pred, Join(types, Typed(from, pred, to, op.dir)))

\* Of the relationships without a name, those without a type are remembered.
AnonExpand(st, op, from) ==
  LET types == Distinct(op.types)
      before == EdgesSoFar(st)
      pred == X(Name(st))
      to == X(op.to)
  IN CASE types = <<>> ->
            [NextName(st) EXCEPT !.anon = Append(@, [s |-> from[2], r |-> pred, o |-> op.to]),
                              !.p = Apart(st, Join(st.p, AnyType(from, pred, to, op.dir)), op, pred, before)]
       [] Len(types) = 1 ->
            [st EXCEPT !.p = Apart(st, Join(@, OneOf(from, types, to, op.dir)), op, TypeV(types[1]), before)]
       [] OTHER -> [st EXCEPT !.p = Join(@, OneOf(from, types, to, op.dir))]

\* The hops of a path are counted from its last relationship on, and on top of
\* those of an earlier path of that name.
PathHops(st, op) ==
  LET known == op.path \in DOMAIN st.paths
      so == st.paths[op.path]
      exact == Len(op.hops) = 2 /\ op.hops[1] = op.hops[2]
      counted == CASE op.hops = <<>> -> IF known THEN IF so = Dynamic THEN Dynamic ELSE so + 1 ELSE 1
                   [] op.hops # <<>> /\ known -> so
                   [] op.hops # <<>> /\ ~ known -> IF exact THEN op.hops[1] ELSE Dynamic
  IN IF op.path = "" THEN st ELSE [st EXCEPT !.paths = (op.path :> counted) @@ @]

Expanded(st, op) ==
  LET From(at) ==
        CASE op.hops # <<>> ->
               [at EXCEPT !.p = Join(@, Join(Varlen(at.x, op.types, X(op.to), op.dir, op.hops), Sentinel(op.to)))]
          [] op.hops = <<>> /\ op.rv # "" -> NamedExpand(at, op)
          [] OTHER -> AnonExpand(at, op, at.x)
  IN From(Anchored(st, op.from))

-----------------------------------------------------------------------------
(* Items of WITH and RETURN. *)

Same(item) == item.x.e = "var" /\ item.x.v = item.as
Aliases(items) == [i \in DOMAIN items |-> items[i].as]
\* The names that go on naming what a pattern bound.
Kept(st, items) == {items[i].as : i \in {j \in DOMAIN items : Same(items[j]) /\ items[j].as \in st.scan}}

\* Where x is computed, a name can be bound to it.
Evaluated(st, x) == Flush(LowerX(st, x))
BoundTo(e, v) == [e EXCEPT !.p = Bind(@, e.x, v)]

NowNull(st, item, names) ==
  IF Nullable(st, item.x) THEN [st EXCEPT !.null = @ \cup names] ELSE st

\* A name taken again is computed in a SELECT of its own and bound outside.
Taken(st, items) ==
  \E i \in DOMAIN items : ~ Same(items[i]) /\ items[i].as \in st.scan \cup st.scalar

RenewedItem(acc, item) ==
  LET Under(e, fresh) ==
        [st |-> NowNull(NextName(BoundTo(e, fresh)), item, {fresh, item.as}), vars |-> Append(acc.vars, fresh),
         outer |-> Append(acc.outer, <<item.as, VarX(fresh)>>)]
      Fresh(e) == Under(e, Name(e))
  IN IF Same(item) THEN [acc EXCEPT !.vars = Append(@, item.as)] ELSE Fresh(Evaluated(acc.st, item.x))

Renewed(st, items) ==
  LET Outside(all) ==
        [all.st EXCEPT !.p = Binds(Projecting(@, all.vars), all.outer),
                       !.scan = Kept(all.st, items),
                       !.scalar = @ \cup (Range(Aliases(items)) \ Kept(all.st, items))]
  IN Outside(FoldLeft(RenewedItem, [st |-> st, vars |-> <<>>, outer |-> <<>>], items))

\* A literal, null, a literal list or map, an integer and a length are
\* remembered under their name; null is taken for an empty map.
Extended(st, item) ==
  LET renames == item.x.e = "var" /\ item.x.v \notin st.scalar
      isNull == item.x = Literal(Null)
      Remember(e) ==
        [WithInts(e, item.as, item.x) EXCEPT
                  !.scalar = IF renames THEN @ ELSE @ \cup {item.as},
                  !.maps = CASE isNull -> (item.as :> <<>>) @@ @ [] item.x.e = "map" -> (item.as :> item.x.pairs) @@ @ [] OTHER -> @,
                  !.null = IF isNull THEN @ \cup {item.as} ELSE @,
                  !.lists = IF item.x.e = "list" THEN (item.as :> item.x.items) @@ @ ELSE @,
                  !.lits = IF e.x.e = "val" THEN @ \cup {item.as} ELSE @]
  IN IF Same(item) THEN st ELSE Remember(NowNull(BoundTo(Evaluated(st, item.x), item.as), item, {item.as}))

Flat(st, op) ==
  LET Done(all) ==
        [all EXCEPT !.p = IF op.distinct THEN Distinctly(Projecting(@, Aliases(op.items))) ELSE @,
                    !.scan = Kept(all, op.items)]
  IN Done(FoldLeft(Extended, st, op.items))

-----------------------------------------------------------------------------
(* The columns of the answer. *)

Column(st, v) ==
  CASE v \notin st.scan -> [name |-> v, kind |-> "scalar", v |-> v]
    [] v \in st.scan /\ v \notin DOMAIN st.edges -> [name |-> v, kind |-> "node", v |-> v]
    [] OTHER -> [name |-> v, kind |-> "relationship", v |-> st.edges[v].r]
Computed(as, v) == [name |-> as, kind |-> "scalar", v |-> v]
Pushed(st, col) == [st EXCEPT !.cols = Append(@, col)]

\* The variable of the last column of that name, or the alias.
ColumnVar(st, as) ==
  LET named == {i \in DOMAIN st.cols : st.cols[i].name = as}
      last == st.cols[CHOOSE i \in named : \A j \in named : j <= i]
  IN IF named = {} \/ last.kind # "scalar" THEN as ELSE last.v
ProjectVars(st, items) == [i \in DOMAIN items |-> ColumnVar(st, items[i].as)]

\* An alias a pattern already binds is computed under a fresh name.
Returned(st, item) ==
  LET Under(e, v) == Pushed(BoundTo(WithInts(e, item.as, item.x), v), Computed(item.as, v))
      Fresh(e) == IF item.as \in e.scan THEN NextName(Under(e, Name(e))) ELSE Under(e, item.as)
  IN CASE ~ Same(item) -> Fresh(Evaluated(st, item.x))
       [] Same(item) /\ item.as \in DOMAIN st.paths -> Fail(st, "unsupported")
       [] OTHER -> Pushed(st, Column(st, item.as))

\* A key that is a name groups by it and has no column; a property is looked
\* up under the alias; any other key is bound before the grouping.
GroupKey(acc, item) ==
  LET st == acc.st
      Looked(s, v) ==
        [acc EXCEPT !.keys = Append(@, v),
                    !.st = Pushed([s EXCEPT !.opts = Append(@, PropT(X(item.x.v), item.x.k, X(v)))], Computed(item.as, v))]
      Binding(e) ==
        [st |-> Pushed(e, Computed(item.as, item.as)), keys |-> Append(acc.keys, item.as),
         binds |-> Append(acc.binds, <<item.as, e.x>>)]
  IN CASE item.x.e = "var" -> [acc EXCEPT !.keys = Append(@, item.x.v)]
       [] item.x.e = "prop" -> IF item.as \in st.scan THEN Looked(NextName(st), Name(st)) ELSE Looked(st, item.as)
       [] OTHER -> Binding(LowerX(st, item.x))

\* The property an aggregate asks of a node must be there; to count paths is to
\* count rows.
LowerAgg(acc, item) ==
  LET before == Len(acc.st.opts)
      countsRows == \/ item.x.f = "countStar"
                    \/ item.x.f = "count" /\ item.x.a.e = "var" /\ item.x.a.v \in DOMAIN acc.st.paths
      Summing(st, f, x) ==
        [st |-> st, aggs |-> Append(acc.aggs, [f |-> f, a |-> x, distinct |-> item.x.distinct, v |-> item.as])]
      Needed(e) == Summing([e EXCEPT !.opts = SubSeq(@, 1, before), !.req = @ \o SubSeq(e.opts, before + 1, Len(e.opts))],
                         item.x.f, e.x)
  IN IF countsRows THEN Summing(acc.st, "countStar", ValX(Null)) ELSE Needed(LowerX(acc.st, item.x.a))

\* An unwound name whose list holds null must be bound to be aggregated.
Tested(p, nulls, aggs) ==
  LET direct == {v \in nulls : \E i \in DOMAIN aggs : aggs[i].x.f # "countStar" /\ aggs[i].x.a = [e |-> "var", v |-> v]}
      tests == SetToSeq(direct)
  IN p \o [i \in DOMAIN tests |-> [e |-> "filter", x |-> BoundX(tests[i])]]

GroupItems(st, op, items) ==
  LET keys == SelectSeq(items, LAMBDA i : Contains(op.keys, i.as))
      others == SelectSeq(items, LAMBDA i : ~ Contains(op.keys, i.as))
      Grouping(all, keyed, aggs) ==
        [all EXCEPT !.p = Grouped(Tested(Binds(@, keyed.binds), st.nulls, op.aggs), keyed.keys, aggs),
                    !.cols = @ \o [i \in DOMAIN others |-> Computed(others[i].as, others[i].as)]]
      Summed(keyed, sums) == Grouping(Flush(sums.st), keyed, sums.aggs)
      Keyed(keyed) == Summed(keyed, FoldLeft(LowerAgg, [st |-> keyed.st, aggs |-> <<>>], op.aggs))
  IN Keyed(FoldLeft(GroupKey, [st |-> Flush(st), keys |-> <<>>, binds |-> <<>>], keys))

-----------------------------------------------------------------------------
(* ORDER BY. *)

\* The alias of the item a key repeats.
Repeats(items, x) == {i \in DOMAIN items : Equivalent(x, items[i].x)}

RECURSIVE WithAliases(_, _), WithItems(_, _)
\* Aliases in sums and quotients are replaced by what they name ...
WithItems(x, items) ==
  LET same == {i \in DOMAIN items : x.e = "var" /\ items[i].as = x.v}
  IN CASE same # {} -> items[FirstOf(same)].x
       [] same = {} /\ x.e \in {"add", "div"} ->
            [x EXCEPT !.a = WithItems(@, items), !.b = WithItems(@, items)]
       [] OTHER -> x
\* ... and, where only aliases are left, what they name by the aliases.
WithAliases(x, items) ==
  CASE Repeats(items, x) # {} -> Variable(items[FirstOf(Repeats(items, x))].as)
    [] Repeats(items, x) = {} /\ x.e \in {"add", "div"} ->
         [x EXCEPT !.a = WithAliases(@, items), !.b = WithAliases(@, items)]
    [] OTHER -> x

ComputedItems(items) == SelectSeq(items, LAMBDA i : i.x.e # "var")

\* The keys of the ORDER BY of a WITH.
MidKeys(items, keys) ==
  LET SortedOn(x) == IF Repeats(items, x) # {} THEN Variable(items[FirstOf(Repeats(items, x))].as)
                   ELSE WithAliases(x, ComputedItems(items))
  IN [i \in DOMAIN keys |-> [keys[i] EXCEPT !.x = SortedOn(@)]]

\* The key of the ORDER BY of RETURN: an alias of a property stays, an alias of
\* another expression is that expression.  Grouping binds its own aliases.
LastKey(in, items, x) ==
  LET own == IF in.o = "group" THEN Range(in.keys) \cup Range(Aliases(in.aggs)) ELSE {}
      same == {i \in DOMAIN items : x.e = "var" /\ items[i].as = x.v /\ items[i].x.e # "var"}
  IN CASE x.e = "var" /\ x.v \notin own /\ same # {} ->
            LET y == items[FirstOf(same)].x IN IF y.e = "prop" THEN x ELSE y
       [] x.e # "var" /\ Repeats(items, x) # {} -> Variable(items[FirstOf(Repeats(items, x))].as)
       [] x.e # "var" /\ Repeats(items, x) = {} ->
            WithItems(x, SelectSeq(ComputedItems(items), LAMBDA i : i.as \notin own))
       [] OTHER -> x

LastKeys(in, items, keys) == [i \in DOMAIN keys |-> [keys[i] EXCEPT !.x = LastKey(in, items, @)]]

LowerKeys(st, keys) ==
  LET Lowering(acc, k, e) == [st |-> e, keys |-> Append(acc.keys, [x |-> e.x, desc |-> k.desc])]
  IN FoldLeft(LAMBDA acc, k : Lowering(acc, k, LowerX(acc.st, k.x)), [st |-> st, keys |-> <<>>], keys)

OrderedOp(st, keys) ==
  LET Sorting(lowered) == [Flush(lowered.st) EXCEPT !.p = OrderedBy(@, lowered.keys)] IN Sorting(LowerKeys(st, keys))

-----------------------------------------------------------------------------
(* The operators. *)

WithoutLast(p) == SubSeq(p, 1, Len(p) - 1)
\* A LIMIT joins the SKIP under it.
Limit(p, n) == LET s == AsSelect(p) IN IF s.length = -1 THEN <<[s EXCEPT !.length = n]>> ELSE p
PeeledInner(op) ==
  LET Under[d \in 0 .. 2] == IF d = 0 THEN op
                             ELSE IF Under[d - 1].o \in {"skip", "limit"} THEN Under[d - 1].in ELSE Under[d - 1]
  IN Under[2]
\* The SKIP and LIMIT right under the last projection end up outside of it.
Peeled(op) ==
  [skip |-> CASE op.o = "skip" -> op.n [] op.o = "limit" /\ op.in.o = "skip" -> op.in.n [] OTHER -> 0,
   limit |-> IF op.o = "limit" THEN op.n ELSE -1]

Unwound(st, op, items) ==
  IF \E i \in DOMAIN items : items[i].e # "lit" THEN Fail(st, "unsupported") ELSE
  [st EXCEPT !.p = Join(@, ValuesOf(<<op.v>>, [i \in DOMAIN items |-> <<IF items[i].x = Null THEN <<>> ELSE items[i].x>>])),
             !.nulls = IF \E i \in DOMAIN items : items[i].x = Null THEN @ \cup {op.v} ELSE @,
             !.scan = @ \cup {op.v}]

ScanTriples(op) ==
  IF op.labels = <<>> THEN <<NodeT(X(op.v))>> ELSE [i \in DOMAIN op.labels |-> LabelT(X(op.v), op.labels[i])]

ProjectInner(st, in, items) ==
  IF in.o = "group" THEN GroupItems(LowerOp(st, in.in), in, items)
  ELSE FoldLeft(Returned, LowerOp(st, in), items)

\* The WHERE of a WITH DISTINCT is applied before DISTINCT.
DistinctItem(st, item) ==
  LET Under(e) == IF item.as \in e.scan THEN NextName(BoundTo(e, Name(e))) ELSE BoundTo(e, item.as)
  IN IF Same(item) THEN st ELSE Under(Evaluated(st, item.x))

SelectDistinct(st, op) ==
  LET items == op.in.items
      Met(e) ==
        [e EXCEPT !.p = Distinctly(Projecting(Filter(@, e.x), Aliases(items))),
                  !.scan = Kept(e, items),
                  !.scalar = @ \cup (Range(Aliases(items)) \ Kept(e, items))]
  IN Met(Evaluated(FoldLeft(DistinctItem, LowerOp(st, op.in.in), items), op.p))

\* A projection in the middle of the query.
MidProject(st, op) ==
  LET same == Range(Aliases(SelectSeq(op.items, Same)))
      AfterGroup(all) ==
        [all EXCEPT !.scalar = @ \cup (Range(Aliases(op.items)) \ (same \cap (all.scan \cup Range(op.in.keys))))]
      After(in) == IF Taken(in, op.items) THEN Renewed(in, op.items) ELSE Flat(in, op)
  IN IF op.in.o = "group" THEN AfterGroup(Flush(ProjectInner(st, op.in, op.items))) ELSE After(LowerOp(st, op.in))

\* An OPTIONAL's names may be unbound from here on; what waits on either side
\* goes to the left one.
Outer(st, op) ==
  LET Left(all, left, right) ==
        [all EXCEPT !.p = Optional(@, right.p), !.null = @ \cup (right.scan \ left.scan)]
      Right(left, right) == Left(Flush([right EXCEPT !.p = left.p]), left, right)
      Onto(left) == Right(left, LowerOp(left, op.r))
  IN Onto(LowerOp(st, op.l))

\* The arms of a UNION start from the names before it.
Either(st, op) ==
  LET Two(l, r) == [r EXCEPT !.p = IF op.all THEN UnionOfTwo(l.p, @) ELSE Distinctly(UnionOfTwo(l.p, @))]
      Onto(l) == Two(l, LowerOp([l EXCEPT !.scan = st.scan, !.scalar = st.scalar], op.r))
  IN Onto(LowerOp(st, op.l))

\* A last FILTER of the right side moves round the product.
Crossed(st, op) ==
  LET Two(l, r) ==
        [r EXCEPT !.p = IF LastKind(@) = "filter" THEN Filter(Join(l.p, WithoutLast(@)), Last(@).x) ELSE Join(l.p, @)]
      Onto(l) == Two(l, LowerOp(l, op.r))
  IN Onto(LowerOp(st, op.l))

Filtered(e) == [e EXCEPT !.p = Filter(@, e.x)]

PatternOf(st, op) ==
  CASE op.o = "unit" -> [st EXCEPT !.p = <<>>]
    [] op.o = "scan" ->
         [st EXCEPT !.scan = @ \cup {op.v}, !.p = IF op.v \in st.scalar THEN <<>> ELSE Bgp(ScanTriples(op))]
    [] op.o = "expand" ->
         Expanded(LowerOp([PathHops(st, op) EXCEPT !.scan = @ \cup {op.from, op.to}], op.in), op)
    [] op.o = "select" /\ op.in.o = "project" /\ op.in.distinct -> SelectDistinct(st, op)
    [] op.o = "select" /\ ~ (op.in.o = "project" /\ op.in.distinct) ->
         Filtered(Evaluated(LowerOp(st, op.in), op.p))
    [] op.o = "project" -> MidProject(st, op)
    [] op.o = "order" ->
         OrderedOp(LowerOp(st, op.in), MidKeys(IF op.in.o = "project" THEN op.in.items ELSE <<>>, op.keys))
    [] op.o = "skip" -> [AsQuery(st, op.in) EXCEPT !.p = Slice(@, op.n, -1)]
    [] op.o = "limit" -> [AsQuery(st, op.in) EXCEPT !.p = Limit(@, op.n)]
    [] op.o = "distinct" -> [LowerOp(st, op.in) EXCEPT !.p = Distinctly(@)]
    [] op.o = "unwind" /\ op.list.e = "list" -> Unwound(LowerOp(st, op.in), op, op.list.items)
    \* a name for a list: the empty one keeps the rows
    [] op.o = "unwind" /\ op.list.e = "var" /\ op.list.v \in DOMAIN st.lists ->
         IF st.lists[op.list.v] = <<>> THEN LowerOp(st, op.in) ELSE Unwound(LowerOp(st, op.in), op, st.lists[op.list.v])
    [] op.o = "unwind" /\ op.list.e # "list" /\ ~ (op.list.e = "var" /\ op.list.v \in DOMAIN st.lists) ->
         Fail(st, "unsupported")
    [] op.o = "union" -> Either(st, op)
    [] op.o = "product" -> Crossed(st, op)
    [] op.o = "outer" -> Outer(st, op)

\* The SELECT of a projection.
Selecting(st, items, distinct) ==
  LET p == IF items = <<>> THEN st.p ELSE Projecting(st.p, ProjectVars(st, items))
  IN [st EXCEPT !.p = IF distinct THEN Distinctly(p) ELSE p]

\* Keys are looked up in the same group as the items.
OrderedProject(st, proj, keys) ==
  LET late == [i \in DOMAIN keys.st.opts |-> Bgp(<<keys.st.opts[i]>>)]
      Whole(all) ==
        [all EXCEPT !.p = OrderedBy(Optionals(Join(@, Bgp(keys.st.req)), late), keys.keys)]
  IN Selecting(Whole(Flush(ProjectInner([keys.st EXCEPT !.req = <<>>, !.opts = <<>>], proj.in, proj.items))),
               proj.items, proj.distinct)

OutsideCut(cut, done) ==
  IF cut.skip = 0 /\ cut.limit = -1 THEN done ELSE [done EXCEPT !.p = Slice(@, cut.skip, cut.limit)]

QueryOf(st, op) ==
  CASE op.o = "limit" -> [AsQuery(st, op.in) EXCEPT !.p = Limit(@, op.n)]
    [] op.o = "skip" -> [AsQuery(st, op.in) EXCEPT !.p = Slice(@, op.n, -1)]
    [] op.o = "order" /\ op.in.o = "project" ->
         OrderedProject(st, op.in, LowerKeys(st, LastKeys(op.in.in, op.in.items, op.keys)))
    [] op.o = "order" /\ op.in.o # "project" -> OrderedOp(AsQuery(st, op.in), op.keys)
    [] op.o = "distinct" -> [AsQuery([st EXCEPT !.once = TRUE], op.in) EXCEPT !.p = Distinctly(@)]
    [] op.o = "project" ->
         OutsideCut(Peeled(op.in),
                    Selecting(Flush(ProjectInner([st EXCEPT !.once = op.distinct], PeeledInner(op.in), op.items)),
                              op.items, op.distinct))
    [] OTHER -> LowerOp(st, op)

\* The first error ends the compilation.
Lowered(as, st, it) ==
  CASE st.err # "" -> st
    [] st.err = "" /\ as = "value" -> ValueOf(st, it)
    [] st.err = "" /\ as = "pattern" -> PatternOf(st, it)
    [] st.err = "" /\ as = "query" -> QueryOf(st, it)

\* The query for a tree of operators, and the columns of its answer.
Compile(op) ==
  LET Query(st) == [query |-> st.p, cols |-> st.cols, once |-> st.once, err |-> st.err] IN Query(AsQuery(Start, op))
=============================================================================
