---------------------------- MODULE LiteralFold ----------------------------
(***************************************************************************)
(* The part of lqa/sparql.rs that computes with literals while compiling:  *)
(* what a list, a comparison or a condition of literals alone is worth.    *)
(* A text of the generated query stands for the value it is read as.       *)
(***************************************************************************)
EXTENDS CypherRead, ReadLower

\* What cannot be computed from literals alone.
Unknown == <<"unknown">>

RECURSIVE LiteralOnly(_), HoldsNull(_), Serialized(_)
LiteralOnly(x) ==
  CASE x.e = "lit" -> TRUE
    [] x.e \in {"list", "map"} -> \A y \in Range(Children(x)) : LiteralOnly(y)
    [] OTHER -> FALSE

\* Null in a list or a map, however deep.
HoldsNull(x) ==
  CASE x.e = "lit" -> x.x = Null
    [] x.e \in {"list", "map"} -> \E y \in Range(Children(x)) : HoldsNull(y)
    [] OTHER -> FALSE

\* The text of a literal.
Serialized(x) ==
  CASE x.e = "lit" -> x.x
    [] x.e = "list" -> <<"list", [i \in DOMAIN x.items |-> Serialized(x.items[i])]>>
    [] x.e = "map" -> <<"map", [i \in DOMAIN x.pairs |-> <<x.pairs[i][1], Serialized(x.pairs[i][2])>>]>>

\* The keys of two maps are compared in the order they are written; a list, a
\* map and a scalar are told apart before their texts are compared.
RECURSIVE SameLiteral(_, _)
SameLiteral(x, y) ==
  LET inX == Children(x)
      inY == Children(y)
      Keys(m) == [i \in DOMAIN m.pairs |-> m.pairs[i][1]]
      alike == /\ x.e = y.e /\ Len(inX) = Len(inY)
               /\ x.e = "map" => Keys(x) = Keys(y)
  IN CASE x = Literal(Null) \/ y = Literal(Null) -> Null
       [] x # Literal(Null) /\ y # Literal(Null) /\ alike /\ x.e = "lit" -> BoolV(Serialized(x) = Serialized(y))
       [] x # Literal(Null) /\ y # Literal(Null) /\ alike /\ x.e # "lit" -> AllOf([i \in DOMAIN inX |-> SameLiteral(inX[i], inY[i])])
       [] OTHER -> False

\* x IN [...] of literals.
FoldedIn(x, items) == AnyOf([i \in DOMAIN items |-> SameLiteral(x, items[i])])

-----------------------------------------------------------------------------
(* Numbers are computed as floats: a fraction <<n, d>>, d > 0.             *)

RECURSIVE Numeric(_)
Numeric(x) ==
  CASE Integral(x) -> <<x.x[2], 1>>
    [] x.e \in {"add", "div"} ->
         LET a == Numeric(x.a)
             b == Numeric(x.b)
         IN CASE Unknown \in {a, b} -> Unknown
              [] Unknown \notin {a, b} /\ x.e = "add" -> <<a[1] * b[2] + b[1] * a[2], a[2] * b[2]>>
              [] OTHER -> IF b[1] = 0 THEN Unknown
                          ELSE IF b[1] < 0 THEN <<-a[1] * b[2], -b[1] * a[2]>> ELSE <<a[1] * b[2], b[1] * a[2]>>
    [] OTHER -> Unknown

OrderHolds(op, a, b) ==
  CASE op = "<" -> a < b [] op = "<=" -> a <= b [] op = "=" -> a = b [] op = "<>" -> a # b
AsNumbers(op, x, y) ==
  LET Held(a, b) == IF Unknown \in {a, b} THEN Unknown ELSE BoolV(OrderHolds(op, a[1] * b[2], b[1] * a[2]))
  IN Held(Numeric(x), Numeric(y))
\* Two members of the same kind, numbers or texts.
MemberOrder(op, x, y) ==
  IF x.e = "lit" /\ y.e = "lit" /\ x.x[1] = "str" /\ y.x[1] = "str" THEN BoolV(OrderHolds(op, x.x[2], y.x[2]))
  ELSE AsNumbers(op, x, y)

\* Lists member by member, as far as the shorter goes; what cannot be compared
\* leaves the order open.
ListOrder(op, xs, ys) ==
  LET both == 1 .. (IF Len(xs) < Len(ys) THEN Len(xs) ELSE Len(ys))
      differ == {i \in both : MemberOrder("=", xs[i], ys[i]) # True}
      at == CHOOSE i \in differ : \A j \in differ : i <= j
  IN IF differ = {} THEN BoolV(OrderHolds(op, Len(xs), Len(ys))) ELSE MemberOrder("<", xs[at], ys[at])

\* A condition of literals; two that are no numbers are compared as written, so
\* that null is equal to null and different from all else.
RECURSIVE DecidedBool(_)
DecidedBool(x) ==
  LET a == DecidedBool(x.a)
      b == DecidedBool(x.b)
      Settled(end) ==
        CASE end \in {a, b} -> end [] a = Neg(end) /\ b = Neg(end) -> Neg(end) [] OTHER -> Unknown
      OrAsWritten(t) ==
        IF t = Unknown /\ x.op \in {"=", "<>"} /\ x.a.e = "lit" /\ x.b.e = "lit" THEN BoolV(OrderHolds(x.op, x.a.x, x.b.x)) ELSE t
  IN CASE x.e = "lit" -> IF x.x = Null \/ x.x[1] = "bool" THEN x.x ELSE Unknown
       [] x.e = "not" -> IF a = Unknown THEN Unknown ELSE Neg(a)
       [] x.e = "and" -> Settled(False)
       [] x.e = "or" -> Settled(True)
       [] x.e = "cmp" -> OrAsWritten(AsNumbers(x.op, x.a, x.b))
       [] OTHER -> Unknown

-----------------------------------------------------------------------------
(* A member takes the place of the variable of a quantifier or of a list   *)
(* comprehension, but not where another one has the same variable.         *)

RECURSIVE SubstVar(_, _, _)
SubstVar(x, v, y) ==
  LET hidden == x.e \in {"quant", "listcomp"} /\ x.v = v
      Inside(k) == IF hidden /\ OwnParts(x)[k] # "list" THEN Children(x)[k] ELSE SubstVar(Children(x)[k], v, y)
  IN CASE x.e = "var" -> IF x.v = v THEN y ELSE x
       [] x.e = "prop" -> IF x.v # v THEN x ELSE IF y.e = "var" THEN [x EXCEPT !.v = y.v] ELSE [e |-> "key", a |-> y, k |-> x.k]
       [] x.e \in {"exists", "degree", "agg", "patcomp"} -> x
       [] OTHER -> WithChildren(x, [k \in DOMAIN Children(x) |-> Inside(k)])

\* Whether v is an operand of a quotient.
RECURSIVE UsesArithmetic(_, _)
UsesArithmetic(x, v) ==
  CASE x.e = "div" -> x.a = Variable(v) \/ x.b = Variable(v) \/ UsesArithmetic(x.a, v) \/ UsesArithmetic(x.b, v)
    [] x.e \in {"and", "or", "cmp"} -> UsesArithmetic(x.a, v) \/ UsesArithmetic(x.b, v)
    [] x.e \in {"not", "isnull"} -> UsesArithmetic(x.a, v)
    [] OTHER -> FALSE

\* The members of a known list a comprehension keeps; a condition that is
\* null keeps none, and one left open leaves the whole open.
TestOf(x, y) == DecidedBool(SubstVar(x.where, x.v, y))
LeftOpen(x, items) == \E i \in DOMAIN items : TestOf(x, items[i]) = Unknown
KeptMembers(x, items) == SelectSeq(items, LAMBDA y : TestOf(x, y) = True)

\* The list it gives: its members must be literals once v is replaced.
Comprehended(x, items) ==
  LET Mapped(kept) == [i \in DOMAIN kept |-> SubstVar(x.map, x.v, kept[i])]
      Text(mapped) ==
        IF \E i \in DOMAIN mapped : mapped[i].e # "lit" THEN Unknown
        ELSE <<"list", [i \in DOMAIN mapped |-> mapped[i].x]>>
  IN IF LeftOpen(x, items) THEN Unknown ELSE Text(Mapped(KeptMembers(x, items)))

\* [x IN ... WHERE x <> null], whatever the list.
KeepsNothing(x) ==
  /\ x.where.e = "cmp" /\ x.where.op = "<>" /\ x.map = Variable(x.v)
  /\ <<x.where.a, x.where.b>> \in {<<Variable(x.v), Literal(Null)>>, <<Literal(Null), Variable(x.v)>>}
=============================================================================
