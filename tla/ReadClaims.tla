----------------------------- MODULE ReadClaims -----------------------------
(***************************************************************************)
(* Which reading queries the compilers answer exactly, and which only in   *)
(* the number of rows.  Each restriction names a shape the generated       *)
(* SPARQL treats otherwise than Cypher does; the README lists them.        *)
(***************************************************************************)
EXTENDS ReadPath

MatchClauses(q) == SelectSeq(Clauses(q), LAMBDA cl : cl.c = "match")
RelsOf(cl) == FlatMap(LAMBDA c : [i \in DOMAIN c.steps |-> c.steps[i].rel], cl.chains)
NewNames(q, i) ==
  IF Clauses(q)[i].c = "match" THEN ClauseVars(Clauses(q)[i])
  ELSE IF Clauses(q)[i].c = "unwind" THEN {Clauses(q)[i].v} ELSE {}
PatternNames(q) == UNION {NewNames(q, i) : i \in DOMAIN Clauses(q)}
UnwoundNames(q) == {cl.v : cl \in {d \in Range(Clauses(q)) : d.c = "unwind"}}
RelNames(q) ==
  UNION {{RelsOf(MatchClauses(q)[i])[j].v : j \in DOMAIN RelsOf(MatchClauses(q)[i])} : i \in DOMAIN MatchClauses(q)} \ {""}

\* The names an OPTIONAL MATCH may leave null.
OptionalNames(q) ==
  UNION {ClauseVars(Clauses(q)[i]) \ UNION {NewNames(q, j) : j \in 1 .. i - 1} :
           i \in {j \in DOMAIN Clauses(q) : Clauses(q)[j].c = "match" /\ Clauses(q)[j].optional}}

RECURSIVE NamesIn(_), Sought(_)
\* The names an expression speaks of, and those of the patterns in it.
NamesIn(x) ==
  CASE x.e \in {"var", "prop", "label", "length"} -> {x.v}
    [] x.e \in {"exists", "degree"} -> (ChainVars(x.chain) \ {""}) \cup NamesIn(x.where)
    [] x.e \in {"quant", "listcomp"} -> NamesIn(x.list) \cup (UNION {NamesIn(y) : y \in Range(Children(x))} \ {x.v})
    [] OTHER -> UNION {NamesIn(y) : y \in Range(Children(x))}
Sought(x) ==
  (IF x.e \in {"exists", "degree"} THEN ChainVars(x.chain) \ {""} ELSE {}) \cup UNION {Sought(y) : y \in Range(Children(x))}

ExpressionsOf(cl) ==
  CASE cl.c = "match" -> {cl.where}
    [] cl.c = "unwind" -> {cl.list}
    [] OTHER -> {cl.where} \cup {cl.items[i].x : i \in DOMAIN cl.items} \cup {cl.order[i].x : i \in DOMAIN cl.order}

-----------------------------------------------------------------------------
(* Expressions.                                                            *)

\* The names a WITH binds to a literal, when no name is taken twice.
ItemsOfWith(q) ==
  FlattenSeq([i \in DOMAIN Clauses(q) |->
    IF Clauses(q)[i].c = "with" /\ ~ Aggregates(Clauses(q)[i]) /\ ~ Clauses(q)[i].distinct
    THEN SelectSeq(Clauses(q)[i].items, LAMBDA item : ~ Same(item)) ELSE <<>>])
Fixed(q) ==
  LET items == ItemsOfWith(q)
      names == {items[i].as : i \in DOMAIN items}
  IN IF Cardinality(names) < Len(items) THEN <<>>
     ELSE [v \in {items[i].as : i \in {j \in DOMAIN items : LiteralOnly(items[j].x)}} |->
             items[CHOOSE i \in DOMAIN items : items[i].as = v].x]

\* What the expressions of q may rely on: fixed names, and those of nodes that
\* are there.
Known(q) == [fixed |-> Fixed(q), nodes |-> PatternNames(q) \ (RelNames(q) \cup OptionalNames(q) \cup UnwoundNames(q)),
             names |-> PatternNames(q)]

FlatList(x) == x.e = "list" /\ \A i \in DOMAIN x.items : x.items[i].e = "lit"
OfKind(x, kind) == FlatList(x) /\ \A i \in DOMAIN x.items : x.items[i].x[1] = kind

MayBeTrue(x) == x.e \notin {"list", "map"} /\ (x.e = "lit" => x.x = Null \/ x.x[1] = "bool")

\* Known to be true or false.
RECURSIVE NeverNull(_, _)
NeverNull(c, x) ==
  CASE x.e \in {"isnull", "exists"} -> TRUE
    [] x.e = "lit" -> x.x # Null
    [] x.e = "label" -> x.v \in c.nodes
    [] x.e \in {"and", "or", "xor", "cmp"} -> NeverNull(c, x.a) /\ NeverNull(c, x.b)
    [] x.e = "not" -> NeverNull(c, x.a)
    [] OTHER -> FALSE

\* A condition of a comprehension: comparisons of its variable with numbers.
RECURSIVE Decided(_, _)
Decided(x, v) ==
  CASE x.e = "cmp" -> \A y \in {x.a, x.b} : y = Variable(v) \/ Integral(y)
    [] x.e \in {"and", "or"} -> Decided(x.a, v) /\ Decided(x.b, v)
    [] x.e = "not" -> Decided(x.a, v)
    [] OTHER -> FALSE

\* [x IN [..] WHERE .. | x or a literal] of a literal list; a condition wants
\* numbers, for null is compared as written.
ListcompAlike(x) ==
  /\ FlatList(x.list) /\ (x.map = Variable(x.v) \/ x.map.e = "lit")
  /\ x.where = Always \/ (OfKind(x.list, "int") /\ Decided(x.where, x.v))

\* One relationship from a node; what else is said of it counts for EXISTS only.
OneHop(c, chain) ==
  /\ chain.path = "" /\ Len(chain.steps) = 1
  /\ LET rel == chain.steps[1].rel
     IN rel.v = "" /\ rel.hops = <<>> /\ rel.props = <<>> /\ rel.dir # "both" /\ chain.head.v \in c.nodes
Bare(p) == p.labels = <<>> /\ p.props = <<>>

\* A truth value, on its face.
Logical(x) == x.e \in {"cmp", "and", "or", "xor", "not", "isnull", "in", "label", "exists", "quant"} \/ (x.e = "lit" /\ x.x[1] = "bool")

\* Lists and maps are ordered and compared alike only as literals; a map wants
\* its keys in one order; an order has no number on one side and a truth value
\* on the other.
ComparedAlike(x) ==
  LET Uncomposed(y) == y.e \notin {"list", "map"}
      ordered == x.op \in {"<", "<="}
  IN CASE Uncomposed(x.a) /\ Uncomposed(x.b) -> ordered => Logical(x.a) = Logical(x.b)
       [] ordered /\ ~ (Uncomposed(x.a) /\ Uncomposed(x.b)) ->
            \/ \E kind \in {"int", "str"} : OfKind(x.a, kind) /\ OfKind(x.b, kind)
            \/ FlatList(x.a) /\ Truthlike(x.b)
       [] OTHER -> /\ x.a.e # "map" /\ x.b.e # "map"
                   /\ \/ LiteralOnly(x.a) /\ LiteralOnly(x.b)
                      \/ \A y \in {x.a, x.b} : ~ HoldsNull(y) /\ (Uncomposed(y) \/ LiteralOnly(y))

\* Quotients are rounded down, not towards zero; a path has no term; null in a
\* list is shown otherwise, as is a text; a condition of CASE that is null does
\* not take the next branch; the size of a list that is no literal is that of
\* its text.
RECURSIVE SaidAlike(_, _)
SaidAlike(c, x) ==
  LET KnownBound(y) == Integral(y) \/ (y.e = "var" /\ y.v \in DOMAIN c.fixed /\ Integral(c.fixed[y.v]))
      KnownItems(y) == IF y.e = "var" THEN y.v \in DOMAIN c.fixed /\ FlatList(c.fixed[y.v]) ELSE FlatList(y)
  IN CASE x.e \in {"var", "label", "lit"} -> TRUE
       [] x.e = "prop" -> x.v \in c.names \/ (x.v \in DOMAIN c.fixed /\ c.fixed[x.v].e = "map")
       [] x.e = "add" /\ "list" \in {x.a.e, x.b.e} -> LiteralOnly(x.a) /\ LiteralOnly(x.b)
       [] x.e \in {"cmp", "and", "or", "xor", "not", "isnull", "case", "simplecase"} \/ (x.e = "add" /\ "list" \notin {x.a.e, x.b.e}) ->
            /\ \A y \in Range(Children(x)) : SaidAlike(c, y) /\ (x.e \in {"and", "or", "xor", "not"} => MayBeTrue(y))
            /\ x.e = "cmp" => ComparedAlike(x)
            /\ x.e = "simplecase" => NeverNull(c, x.a)
            /\ x.e \in {"case", "simplecase"} => \A i \in DOMAIN x.branches : NeverNull(c, x.branches[i].when)
       [] x.e \in {"list", "map"} -> \A y \in Range(Children(x)) : LiteralOnly(y) \/ (y.e = "var" /\ y.v \in c.nodes)
       [] x.e = "range" -> x.by # 0
       [] x.e = "in" -> IF x.b.e = "prop" THEN x.a.e = "lit"
                        ELSE /\ x.b.e = "list" /\ SaidAlike(c, x.a)
                             /\ (LiteralOnly(x.b) /\ ~ HoldsNull(x.b)) \/ (LiteralOnly(x.b) /\ LiteralOnly(x.a))
       [] x.e = "index" -> KnownItems(x.a) /\ IF x.a.e = "list" THEN Integral(x.b) ELSE KnownBound(x.b)
       [] x.e = "slice" -> KnownItems(x.a) /\ \A side \in {"lo", "hi"} \cap DOMAIN x : KnownBound(x[side]) \/ x[side] = Literal(Null)
       [] x.e = "quant" -> /\ FlatList(x.list) /\ SaidAlike(c, x.where)
                           /\ x.v \notin c.names \cup DOMAIN c.fixed
       [] x.e = "listcomp" -> ListcompAlike(x)
       [] x.e = "size" -> \/ x.a.e \in {"list", "range"} \/ (x.a.e = "add" /\ "list" \in {x.a.a.e, x.a.b.e} /\ LiteralOnly(x.a.a) /\ LiteralOnly(x.a.b))
                          \/ x.a.e = "listcomp" /\ ListcompAlike(x.a)
       [] x.e = "exists" -> OneHop(c, x.chain) /\ Len(x.chain.steps[1].rel.types) = 1 /\ SaidAlike([c EXCEPT !.names = @ \cup ChainVars(x.chain)], x.where)
       \* the end is a node of its own
       [] x.e = "degree" -> /\ OneHop(c, x.chain) /\ Bare(x.chain.head) /\ Bare(x.chain.steps[1].node) /\ x.where = Always
                            /\ x.chain.steps[1].node.v \notin c.names
       [] OTHER -> FALSE

-----------------------------------------------------------------------------
(* Clauses.                                                                *)

\* The relationships of one MATCH are kept apart only by their types; an
\* undirected one must be without a type, and alone.
RelsExact(q) ==
  /\ \A i \in DOMAIN MatchClauses(q) : LET rels == RelsOf(MatchClauses(q)[i]) IN
       /\ \A j \in DOMAIN rels : rels[j].hops = <<>> /\ Len(rels[j].types) <= 1
       /\ \A j, k \in DOMAIN rels : j # k => rels[j].types # rels[k].types /\ <<>> \notin {rels[j].types, rels[k].types}
       /\ \A j \in DOMAIN rels : rels[j].dir = "both" => rels[j].types = <<>> /\ Len(MatchClauses(q)) = 1
       /\ \A j \in DOMAIN rels : rels[j].v = "" => rels[j].props = <<>>
  /\ \A i \in DOMAIN MatchClauses(q) : \A j \in DOMAIN MatchClauses(q)[i].chains : MatchClauses(q)[i].chains[j].path = ""

\* A property of a name an OPTIONAL left null matches every node, and a later
\* pattern cannot start there; its WHERE speaks of its own pattern.
OptionalExact(q) ==
  \A i \in DOMAIN Clauses(q) : LET cl == Clauses(q)[i] null == OptionalNames(q) IN
    CASE cl.c = "match" ->
           IF cl.optional THEN NamesIn(cl.where) \subseteq ClauseVars(cl) /\ Len(cl.chains) = 1
           ELSE ClauseVars(cl) \cap null = {} /\ NamesIn(cl.where) \cap null = {}
      [] cl.c \in {"with", "return"} ->
           /\ NamesIn(cl.where) \cap null = {}
           /\ \A j \in DOMAIN cl.items : LET x == cl.items[j].x IN
                x.e = "var" \/ NamesIn(x) \cap null = {} \/ (x.e = "agg" /\ x.a.e = "var")
      [] OTHER -> TRUE

\* A key that is a name has no column.  The property an aggregate asks of its
\* rows must be there in all of them, so such an aggregate stands alone.
\* Relationships are shown by their type, so they are not told apart.
ProjectionExact(q, cl) ==
  /\ cl.skip = 0 /\ cl.limit = -1
  /\ \A j \in DOMAIN cl.items : LET x == cl.items[j].x IN
       x.e = "agg" => /\ x.f # "collect"
                      /\ x.f = "countStar" \/ x.a.e \in {"var", "prop"}
                      /\ x.f # "countStar" => NamesIn(x.a) \cap RelNames(q) = {} \/ x.a.e = "prop"
                      /\ x.a.e = "prop" => Len(cl.items) = 1
                      /\ x.a.e = "var" => x.f = "count"
  /\ Aggregates(cl) => \A j \in DOMAIN cl.items : cl.items[j].x.e # "var"
  /\ cl.distinct => \A j \in DOMAIN cl.items : cl.items[j].x.e = "var" => cl.items[j].x.v \notin RelNames(q)
  /\ LET items == SelectSeq(cl.items, LAMBDA i : i.x.e # "agg") \o cl.order \o <<[x |-> cl.where]>> IN
       \A j \in DOMAIN items : SaidAlike(Known(q), items[j].x)

\* A relationship found by any type is shown by the name of a variable.
ShownRels(q) ==
  LET last == Last(Clauses(q)) IN
  \A i \in DOMAIN MatchClauses(q) : \A j \in DOMAIN RelsOf(MatchClauses(q)[i]) :
    LET rel == RelsOf(MatchClauses(q)[i])[j] IN
    Len(rel.types) # 1 => \A k \in DOMAIN last.items : last.items[k].x # Variable(rel.v)

KeptNames(q) ==
  \A i, j \in DOMAIN Clauses(q) : i < j /\ Clauses(q)[i].c = "with" =>
    /\ (PatternNames([arms |-> <<SubSeq(Clauses(q), 1, i)>>]) \ Columns(Clauses(q)[i])) \cap NewNames(q, j) = {}
    /\ \A k \in DOMAIN Clauses(q)[i].items : LET item == Clauses(q)[i].items[k] IN
         Same(item) \/ (item.x.e # "var" /\ item.as \notin PatternNames(q))

\* A name WITH dropped or took again still means what it meant before, and one
\* of a pattern in an expression counts as bound.
NamesExact(q) ==
  /\ \A i, j \in DOMAIN Clauses(q) : i < j =>
       ((UNION {Sought(x) : x \in ExpressionsOf(Clauses(q)[i])}) \ PatternNames([arms |-> <<SubSeq(Clauses(q), 1, i)>>]))
         \cap NewNames(q, j) = {}
  /\ KeptNames(q)

\* The rows the last clause starts from.
BodyExact(q) ==
  /\ Len(q.arms) = 1 /\ ~ DuplicateAlias(q) /\ RelsExact(q) /\ OptionalExact(q) /\ NamesExact(q)
  /\ \A i \in 1 .. Len(Clauses(q)) - 1 : LET cl == Clauses(q)[i] IN
       CASE cl.c = "match" -> SaidAlike(Known(q), cl.where)
         [] cl.c = "unwind" -> cl.list.e = "list" /\ \A j \in DOMAIN cl.list.items : (cl.list.items[j].e = "lit" /\ cl.list.items[j].x # Null)
         [] cl.c = "with" -> ProjectionExact(q, cl)

\* A comprehension over a property that is there, of sums of its members.
RECURSIVE Sums(_, _)
Sums(x, v) == CASE x.e = "var" -> x.v = v [] x.e = "lit" -> x.x # Null [] x.e = "add" -> Sums(x.a, v) /\ Sums(x.b, v) [] OTHER -> FALSE
ListsExact(q) ==
  LET last == Last(Clauses(q)) IN
  /\ \A j \in DOMAIN last.items : ListOfProperty(last.items[j]) /\ Sums(last.items[j].x.map, last.items[j].x.v)
  /\ Last(MatchClauses(q)).where = [e |-> "not", a |-> [e |-> "isnull", a |-> last.items[1].x.list]]
  /\ Len(last.items) = 1 /\ ~ last.distinct /\ last.order = <<>> /\ last.skip = 0 /\ last.limit = -1

\* Queries whose rows are the rows of Cypher.
ReadExact(q) ==
  BodyExact(q) /\ ((ProjectionExact(q, Last(Clauses(q))) /\ ShownRels(q)) \/ ListsExact(q))

\* Queries that have as many rows: a pattern for each member of a list; the
\* members of a list, uncut; paths grouped by where they start; one row of
\* collected paths.
ByMember(last) ==
  \E j \in DOMAIN last.items : last.items[j].x.e = "listcomp" /\ last.items[j].x.list.e = "list" /\ last.items[j].x.map.e = "patcomp"
ByStart(match, with) ==
  /\ with.c = "with" /\ Len(with.items) = 2 /\ with.items[1].x.e = "patcomp" /\ with.items[2].x.e = "agg"
  /\ match.c = "match" /\ Len(match.chains) = 1 /\ Len(match.chains[1].steps) = 1
  /\ match.chains[1].head.v = with.items[1].x.from /\ match.chains[1].steps[1].rel = with.items[1].x.rel
  /\ match.chains[1].steps[1].rel.dir # "both"
CountExact(q) ==
  LET n == Len(Clauses(q))
      last == Last(Clauses(q))
      with == Clauses(q)[n - 1]
      Bodies ==
        CASE ByMember(last) -> {q}
          [] ~ ByMember(last) /\ n > 2 /\ ~ Aggregates(last) ->
               IF with.c = "unwind" /\ with.list.e = "list" THEN {[q EXCEPT !.arms[1] = Append(SubSeq(@, 1, n - 2), last)]}
               ELSE IF n = 3 /\ ByStart(Clauses(q)[1], with) THEN {[q EXCEPT !.arms[1] = <<@[1], @[3]>>]} ELSE {}
          [] OTHER -> {}
  IN /\ Len(q.arms) = 1 /\ ~ DuplicateAlias(q) /\ ~ last.distinct /\ last.skip = 0 /\ last.limit = -1
     /\ \/ \E body \in Bodies : BodyExact(body)
        \/ n = 2 /\ NamesPath(Clauses(q)[1]) /\ \A j \in DOMAIN last.items : last.items[j].x.e = "agg" /\ last.items[j].x.f = "collect"

-----------------------------------------------------------------------------
Bag(rows) == [r \in Range(rows) |-> Count(rows, r)]
RowsIn(bag) == MapThenFoldSet(LAMBDA a, b : a + b, 0, LAMBDA r : bag[r], LAMBDA S : CHOOSE r \in S : TRUE, DOMAIN bag)

ShownAnswer(g, q) ==
  LET Seen(rows) == Bag([i \in DOMAIN rows |-> Shown(rows[i])]) IN Seen(Answer(g, q))

\* The rows a reply on graph g may have.
Permitted(q, g, bag) ==
  /\ ReadExact(q) => bag = ShownAnswer(g, q)
  /\ CountExact(q) => RowsIn(bag) = Len(Answer(g, q))
MayRefuse(q) == ~ ReadExact(q) /\ ~ CountExact(q)
=============================================================================
