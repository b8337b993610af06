----------------------------- MODULE QueryScope -----------------------------
(***************************************************************************)
(* The semantic checks of a Cypher query (translator/cypher/semantics.rs,  *)
(* validate_semantics), which every query passes before it is compiled.    *)
(* They go through the clauses once and keep what they take the names in   *)
(* scope to be.  An operator ...Errors says why a clause is refused, and   *)
(* After... what is known after it; a query is refused by its first error. *)
(*                                                                         *)
(* An expression is what the checks see of it: its outermost form, the     *)
(* terms in it (a name, or a property of a name) and the aggregates in it, *)
(* each with the constructs it lies under.  A check that walks through     *)
(* some constructs sees the terms that lie under no other.  "size" is the  *)
(* argument of size() itself: what lies deeper in it is under "fn".        *)
(***************************************************************************)
EXTENDS Naturals, Sequences

CONSTANTS Names, NoName, NoKey

ASSUME NameAssumption == NoName \notin Names

\* An expression: top is its outermost form, and the terms are
\* [name, key, through], the aggregates [nested, through].
E(top, terms, aggs) == [top |-> top, terms |-> terms, aggs |-> aggs]
NoExpr == E("none", {}, {})
Kinds == {"none", "Node", "Rel", "Path", "Scalar", "VarList"}

Nothing == [kinds |-> [n \in Names |-> "none"], bound |-> {}, matched |-> FALSE]
Known(s) == s.bound \cup {n \in Names : s.kinds[n] # "none"}

-----------------------------------------------------------------------------
(* The walks: the constructs each check goes through. *)

Common == {"arith", "cmp", "not", "null", "fn"}
OrderByWalk == Common \cup {"bool", "xor", "power", "neg", "size"}
ReturnWalk == OrderByWalk \cup {"map", "label"}
WhereWalk == Common \cup {"bool", "xor", "neg", "size", "pattern", "node"}
SetWalk == Common \cup {"neg", "size"}
CreateWalk == {"arith", "fn", "size"}
MergeWalk == {"arith"}
SizeWalk == Common \cup {"bool", "neg", "size"}
PathWalk == {"bool", "cmp", "not", "null"}
PredicateWalk == {"bool", "not"}
ContainsWalk == OrderByWalk \cup {"list", "map", "comp"}
FreeWalk == OrderByWalk \cup {"label"}
AtomWalk == OrderByWalk \ {"xor"}
PatternWalk == Common \cup {"bool", "neg", "size", "list", "map", "comp", "pattern"}
CompWalk == Common \cup {"bool", "neg", "list", "comp"}

Under(e, walk) == {t \in e.terms : t.through \subseteq walk}
Seen(e, walk) == {t.name : t \in Under(e, walk)}
ContainsAggregate(e) == \E g \in e.aggs : g.through \subseteq ContainsWalk
HasFreeVar(e) == Under(e, FreeWalk) # {}
AtomicTerms(e) == {[name |-> t.name, key |-> t.key] : t \in Under(e, AtomWalk)}

\* The name of an expression that is one.
TheName(e) == LET t == CHOOSE x \in e.terms : TRUE IN t.name

\* A name or a property of a name, taken whole.
IsTerm(e) == e.top \in {"name", "property"}
TermsOf(exprs) == UNION {AtomicTerms(e) : e \in {x \in exprs : IsTerm(x)}}

-----------------------------------------------------------------------------
(* Projections: sequences of [alias, expr]. *)

Exprs(c) == {c.items[i].expr : i \in DOMAIN c.items}
Grouping(c) == {e \in Exprs(c) : ~ContainsAggregate(e)}
Aggregating(c) == Grouping(c) # Exprs(c)
NameOf(item) ==
  IF item.alias # NoName \/ item.expr.top # "name" THEN item.alias ELSE TheName(item.expr)
Aliases(c) == {c.items[i].alias : i \in DOMAIN c.items} \ {NoName}
Projected(c) == {NameOf(c.items[i]) : i \in DOMAIN c.items}

Refused(what, reason) == IF reason THEN {what} ELSE {}

\* A value next to an aggregate has to be one of those the rows are grouped by.
Ambiguous(c, e) ==
  /\ e.top # "agg" /\ ContainsAggregate(e) /\ HasFreeVar(e)
  /\ Grouping(c) = {} \/ \E t \in AtomicTerms(e) : t \notin TermsOf(Grouping(c))
AmbiguousSort(c, e) ==
  /\ ContainsAggregate(e) /\ HasFreeVar(e)
  /\ \E t \in AtomicTerms(e) : t \notin TermsOf(Grouping(c)) /\ ~(t.key = NoKey /\ t.name \in Aliases(c))
AggregateErrors(c) ==
  Refused("AmbiguousAggregation", \E e \in Exprs(c) : Ambiguous(c, e))
  \cup Refused("InvalidAggregation", ~Aggregating(c) /\ \E e \in c.orderBy : ContainsAggregate(e))
  \cup Refused("AmbiguousAggregation", Aggregating(c) /\ \E e \in c.orderBy : AmbiguousSort(c, e))

\* Mutant: only the first item is looked at.
UnnamedFirst(c) == NameOf(c.items[1]) = NoName
Unnamed(c) == NoName \in Projected(c)

\* What a sort of an aggregating WITH may name.
GroupedNames(c) == Aliases(c) \cup {t.name : t \in TermsOf(Grouping(c))}
WithErrors(c, s) ==
  IF c.star THEN {}
  ELSE LET sortable == IF Aggregating(c) THEN GroupedNames(c) ELSE s.bound \cup Projected(c) IN
       Refused("UnexpectedSyntax", \E e \in Exprs(c) : e.top = "pattern")
       \cup Refused("NoExpressionAlias", Unnamed(c))
       \cup Refused("UndefinedVariable",
              /\ s.bound # {}
              /\ \E e \in c.orderBy : ~ContainsAggregate(e) /\ ~(Seen(e, OrderByWalk) \subseteq sortable))
       \cup Refused("UndefinedVariable",
              /\ Aggregating(c)
              /\ \E e \in c.orderBy : ContainsAggregate(e) /\ ~HasFreeVar(e) /\ e \notin Exprs(c))
       \cup AggregateErrors(c)

\* The kind of a projected value, from its form or from the name it passes on.
ItemKind(e, s) ==
  CASE e.top \in {"literal", "map", "list", "maps"} -> "Scalar"
    [] e.top = "names" -> "VarList"
    [] e.top = "name" -> s.kinds[TheName(e)]
    [] OTHER -> "none"
\* The last item of a name that has a kind gives the kind of the name.
KindAfter(c, s, n) ==
  LET of == {i \in DOMAIN c.items : NameOf(c.items[i]) = n /\ ItemKind(c.items[i].expr, s) # "none"}
      latest == {i \in of : \A j \in of : j <= i}
  IN  IF latest = {} THEN "none" ELSE ItemKind(c.items[CHOOSE i \in latest : TRUE].expr, s)

\* Mutant: a kind stays until the name gets another one.
AfterWithKept(c, s) ==
  [s EXCEPT !.bound = Projected(c),
            !.kinds = [n \in Names |-> IF KindAfter(c, s, n) = "none" THEN s.kinds[n] ELSE KindAfter(c, s, n)]]
\* WITH: the names it projects are the only ones after it.
AfterWith(c, s) ==
  IF c.star THEN s
  ELSE [s EXCEPT !.bound = Projected(c), !.kinds = [n \in Names |-> KindAfter(c, s, n)]]

SizeErrors(e, s) ==
  Refused("InvalidArgumentType",
    \E t \in Under(e, SizeWalk) : t.key = NoKey /\ "size" \in t.through /\ s.kinds[t.name] = "Path")
  \cup Refused("UnexpectedSyntax",
    \E t \in Under(e, SizeWalk \cup {"pattern"}) : {"size", "pattern"} \subseteq t.through)

\* DISTINCT leaves nothing to sort by but what is returned.
DistinctErrors(c, s) ==
  LET vars == Aliases(c) \cup {t.name : t \in {u \in TermsOf(Exprs(c)) : u.key = NoKey}}
  IN  Refused("UndefinedVariable",
        c.distinct /\ \E e \in c.orderBy : /\ e.top = "property" /\ e \notin Exprs(c)
                                           /\ \E t \in e.terms : t.name \in Known(s) \ vars)

\* Mutant: only a name with a kind is one that can be returned.
ReturnErrorsByKind(c, s) ==
  Refused("UndefinedVariable", \E e \in Exprs(c) : \E n \in Seen(e, ReturnWalk) : s.kinds[n] = "none")
ReturnErrors(c, s) ==
  Refused("NoVariablesInScope", c.star /\ s.matched /\ s.bound = {})
  \cup Refused("UnexpectedSyntax", \E e \in Exprs(c) : e.top = "pattern")
  \cup (UNION {SizeErrors(e, s) : e \in Exprs(c)})
  \cup Refused("NestedAggregation", \E e \in Exprs(c) : e.top = "agg" /\ \E g \in e.aggs : g.nested)
  \cup Refused("UndefinedVariable", \E e \in Exprs(c) : ~(Seen(e, ReturnWalk) \subseteq Known(s)))
  \cup DistinctErrors(c, s)
  \cup Refused("InvalidAggregation", \E e \in Exprs(c) : \E g \in e.aggs : "comp" \in g.through /\ g.through \subseteq CompWalk)
  \cup AggregateErrors(c)

-----------------------------------------------------------------------------
(* MATCH [paths, nodes, rels, walks, twice, where]: the names of its paths,
   nodes, relationships and relationships of variable length. *)

Links(c) == c.rels \cup c.walks
\* Path names first, for the checks of the WHERE.
WithPaths(c, s) == [n \in Names |-> IF n \in c.paths THEN "Path" ELSE s.kinds[n]]
\* The kinds when a WHERE is checked, and after the MATCH.
KindsInMatch(c, s) ==
  [n \in Names |-> IF n \in c.nodes THEN "Node" ELSE IF n \in Links(c) THEN "Rel" ELSE WithPaths(c, s)[n]]
AfterMatch(c, s) ==
  [kinds |-> KindsInMatch(c, s), bound |-> s.bound \cup c.paths \cup c.nodes \cup Links(c), matched |-> TRUE]

WhereErrors(c, s) ==
  LET e == c.where
      after == AfterMatch(c, s)
  IN  Refused("InvalidAggregation", ContainsAggregate(e))
      \cup Refused("InvalidArgumentType",
             \E t \in Under(e, PathWalk) : t.key # NoKey /\ WithPaths(c, s)[t.name] = "Path")
      \cup Refused("InvalidArgumentType",
             \/ \E t \in Under(e, PredicateWalk) : t.key = NoKey /\ after.kinds[t.name] \in {"Node", "Rel"}
             \/ \E t \in Under(e, PredicateWalk \cup {"node"}) : "node" \in t.through)
      \cup Refused("UndefinedVariable", ~(Seen(e, WhereWalk) \subseteq Known(after)))

\* A list of names may be the relationships of a walk.
MatchErrors(c, s) ==
  Refused("VariableAlreadyBound", "path" \in c.twice \/ \E n \in c.paths : s.kinds[n] # "none")
  \cup Refused("RelationshipUniquenessViolation", "rel" \in c.twice)
  \cup Refused("VariableTypeConflict",
         \/ \E n \in c.nodes : WithPaths(c, s)[n] \in {"Rel", "Path", "Scalar", "VarList"} \/ n \in Links(c)
         \/ \E n \in Links(c) : WithPaths(c, s)[n] \in {"Node", "Path", "Scalar"})
  \cup WhereErrors(c, s)

\* UNWIND: what the name stands for is not known.
AfterUnwind(c, s) == [s EXCEPT !.bound = @ \cup {c.name}]

-----------------------------------------------------------------------------
(* The write clauses.  CALL and REMOVE are not looked at. *)

\* DELETE and SET are not checked while nothing is known to be in scope.
Checked(s) == s.matched \/ s.bound # {}
DeleteErrors(c, s) ==
  Refused("InvalidDelete", \E e \in c.exprs : e.top = "label")
  \cup Refused("InvalidArgumentType", \E e \in c.exprs : e.top \in {"literal", "arith"})
  \cup Refused("UndefinedVariable",
         Checked(s) /\ \E e \in c.exprs : e.top = "name" /\ \E t \in e.terms : t.name \notin Known(s))

\* Items [form, name, value] of a SET: a property, a whole node, or what is not read here.
Valued(items) == {i \in items : i.form \in {"property", "replace"}}
SetErrors(c, s) ==
  LET values == {i.value : i \in {j \in c.items : j.form = "property"}} IN
  Refused("InvalidPropertyType", \E e \in values : e.top \in {"map", "maps"})
  \cup Refused("UnexpectedSyntax", \E e \in values : \E t \in Under(e, PatternWalk) : "pattern" \in t.through)
  \cup Refused("UndefinedVariable",
         Checked(s) /\ \E i \in Valued(c.items) : ~(Seen(i.value, SetWalk) \subseteq Known(s)))

\* CREATE and MERGE: the elements of their patterns in order, each
\* [rel, name, extra (labels or properties), alone (its whole pattern), uses
\* (its property values), types, both (directions), range, null].
Earlier(c, i) == {c.elems[j].name : j \in 1 .. i - 1} \ {NoName}
Introduced(c) == Earlier(c, Len(c.elems) + 1)
\* Mutant: only the names of other clauses count.
AgainElsewhere(c, s, i) ==
  LET x == c.elems[i]
  IN  x.name \in Known(s) /\ (x.rel \/ x.extra \/ x.alone)
Again(c, s, i) ==
  LET x == c.elems[i]
  IN  /\ x.name \in Known(s) \cup Earlier(c, i)
      /\ x.rel \/ x.extra \/ x.alone
ShapeErrors(c, s) ==
  LET rels == {i \in DOMAIN c.elems : c.elems[i].rel} IN
  Refused("VariableAlreadyBound", \E i \in DOMAIN c.elems : Again(c, s, i))
  \cup Refused("NoSingleRelationshipType", \E i \in rels : c.elems[i].types # 1)
  \cup Refused("CreatingVarLength", \E i \in rels : c.elems[i].range)
CreateErrors(c, s) ==
  ShapeErrors(c, s)
  \cup Refused("RequiresDirectedRelationship", \E i \in DOMAIN c.elems : c.elems[i].rel /\ c.elems[i].both)
  \cup Refused("UndefinedVariable",
         \E i \in DOMAIN c.elems : /\ ~c.elems[i].rel
                                   /\ ~(Seen(c.elems[i].uses, CreateWalk) \subseteq Known(s) \cup Earlier(c, i + 1)))
\* The name of a path it creates is not kept.
AfterCreate(c, s) == [s EXCEPT !.bound = @ \cup Introduced(c)]

\* Mutant: every name of the pattern is taken for a node.
AfterMergeNodes(c, s) ==
  [s EXCEPT !.kinds = [n \in Names |-> IF n \in c.paths THEN "Path" ELSE IF n \in Introduced(c) THEN "Node" ELSE s.kinds[n]],
            !.bound = @ \cup Introduced(c) \cup c.paths]
\* The names that are new get the kind of their first element.
FirstIsRel(c, n) == \E i \in DOMAIN c.elems : c.elems[i].rel /\ c.elems[i].name = n /\ n \notin Earlier(c, i)
AfterMerge(c, s) ==
  [s EXCEPT !.kinds = [n \in Names |->
              IF n \in c.paths THEN "Path"
              ELSE IF n \in Introduced(c) \ Known(s) THEN (IF FirstIsRel(c, n) THEN "Rel" ELSE "Node")
              ELSE s.kinds[n]],
            !.bound = @ \cup Introduced(c) \cup c.paths]
\* ON CREATE SET and ON MATCH SET see the names of the pattern.
MergeErrors(c, s) ==
  ShapeErrors(c, s)
  \cup Refused("SemanticError", \E i \in DOMAIN c.elems : c.elems[i].null)
  \cup Refused("UndefinedVariable",
         \/ \E i \in c.sets : i.name \notin Known(AfterMerge(c, s))
         \/ \E i \in Valued(c.sets) : ~(Seen(i.value, MergeWalk) \subseteq Known(AfterMerge(c, s))))

-----------------------------------------------------------------------------
(* UNION: the columns of an arm are those of its last projection. *)

NoColumns == <<"none">>
Columns(c) ==
  IF c.star THEN NoColumns
  ELSE [i \in DOMAIN c.items |-> NameOf(c.items[i])]
UnionErrors(alls, arms) ==
  Refused("InvalidClauseComposition", alls = BOOLEAN)
  \cup Refused("DifferentColumnsInUnion", \E i \in DOMAIN arms : arms[i] # arms[1])
=============================================================================
