----------------------------- MODULE LegacyWrite -----------------------------
(***************************************************************************)
(* The older write generator (translator/cypher/write_update.rs).  It goes *)
(* through the clauses in textual order and remembers, for every variable, *)
(* a pattern of that variable alone; the relationships of a MATCH, its     *)
(* WHERE, its OPTIONAL and the rows it joins are not kept.  It serves      *)
(* cypher_to_sparql_update for every query without a DELETE, and those     *)
(* with a DELETE that the LQA compiler refuses.                            *)
(***************************************************************************)
EXTENDS LqaWrite

\* match_node_triples and with_aliases: known patterns, and what an alias stood for.
IsKnown(f) ==
  /\ f = [v \in DOMAIN f |-> f[v]] /\ DOMAIN f \subseteq Var
  /\ \A v \in DOMAIN f : f[v] \in Graph(Var) /\ Ids(f[v]) = {v}
IsAlias(f) == f = [v \in DOMAIN f |-> f[v]] /\ \A v \in DOMAIN f : v \in Var /\ f[v] \in Var
Nothing == [v \in {} |-> EmptyGraph]

\* Function g where f says nothing.
Over(f, g) == [v \in DOMAIN f \cup DOMAIN g |-> IF v \in DOMAIN f THEN f[v] ELSE g[v]]

Sentinel(v) == [EmptyGraph EXCEPT !.node = {v}]

\* What a pattern says of v alone.
Mention(p, v) ==
  [Sentinel(v) EXCEPT !.label = {t \in p.label : t[1] = v}, !.prop = {t \in p.prop : t[1] = v}]

\* Mutant: the labels and properties of a matched node are not kept.
AfterMatchBare(known, p) == Over([v \in Ids(p) \ AnonVar |-> Sentinel(v)], known)

\* MATCH, OPTIONAL or not: the last mention of a variable is the one that stays.
AfterMatch(known, p) == Over([v \in Ids(p) \ AnonVar |-> Mention(p, v)], known)

\* WITH v AS w: w has the pattern of what v first stood for.
Origin(v, alias) == IF v \in DOMAIN alias THEN alias[v] ELSE v

PatternOf(v, known) == IF v \in DOMAIN known THEN known[v] ELSE Sentinel(v)

Source(rename, w) == (CHOOSE t \in rename : t[2] = w)[1]

Aliased(rename, known, alias) ==
  [w \in {t[2] : t \in rename} |->
     LET v == Source(rename, w)
         o == Origin(v, alias)
         p == PatternOf(IF o \in DOMAIN known THEN o ELSE v, known)
     IN Image(p, [u \in Ids(p) |-> w])]

\* The code takes the items one by one; as their new names are new and no two are
\* the same (Lowered), they can be taken at once.
AfterWith(rename, known, alias) == Over(Aliased(rename, known, alias), known)
AliasesAfter(rename, alias) ==
  Over([w \in {t[2] : t \in rename} |-> Origin(Source(rename, w), alias)], alias)

-----------------------------------------------------------------------------
(* CREATE.  Consecutive CREATEs are one clause (the pre-pass). *)

Coalesced(q, i) == i > 1 /\ q[i].c = "create" /\ q[i - 1].c = "create"
Adjacent(q, i) == {j \in i .. Len(q) : \A m \in i .. j : q[m].c = "create"}
CreateGraph(q, i) == UnionOf({q[j].g : j \in Adjacent(q, i)})

\* The nodes of the clause an earlier clause has bound.
BoundIn(g, known) == g.node \cap DOMAIN known

Constraints(V, known) == [NoWhere EXCEPT !.must = UnionOf({known[v] : v \in V})]

\* Next to a bound node, a new unnamed one gets a marker of its own instead of
\* the sentinel, and neither labels nor properties.
BesideBound(g, bound) == CreateTemplate(g, bound \cup AnonVar)

LegacyInsert(ctx, absent, tmpl, new) ==
  IF tmpl = EmptyGraph THEN <<>>
  ELSE <<[s |-> "insert", ctx |-> ctx, absent |-> absent, tmpl |-> tmpl,
          fresh |-> new \cap Ids(tmpl), iri |-> {}]>>

LegacyCreate(g, known) ==
  LET bound == BoundIn(g, known) IN
  IF bound = {} THEN LegacyInsert(NoWhere, EmptyGraph, g, g.node)
  ELSE LegacyInsert(Constraints(bound, known), EmptyGraph, BesideBound(g, bound), g.node \ bound)

\* A created node is looked for again by its properties, never by its labels.
AfterCreate(g, known) ==
  Over(known, [v \in g.node \ AnonVar |-> [Mention(g, v) EXCEPT !.label = {}]])

-----------------------------------------------------------------------------
(* SET and REMOVE: of every node of the store, whatever the query matched. *)

Assignment(v, k, x, ctx) == [s |-> "upsert", ctx |-> ctx, v |-> v, k |-> k, x |-> x]
Labelling(v, l, ctx) == [s |-> "addLabel", ctx |-> ctx, v |-> v, l |-> l]

\* A value that reads a property is computed from the old value of the assigned
\* one; any other property it reads is unbound there, and the row is dropped.
\* The statement and its twin for relationships put back what they remove.
LegacySetItem(item) ==
  LET all == Pattern(Sentinel(item.v))
      own == [e |-> "prop", v |-> item.v, k |-> item.k]
  IN CASE item.i = "prop" /\ item.x.e = "lit" -> <<Assignment(item.v, item.k, item.x, all)>>
       [] item.i = "prop" /\ item.x.e = "prop" -> <<Assignment(item.v, item.k, own, all)>>
       [] item.i = "label" -> <<Labelling(item.v, item.l, all)>>
       [] item.i = "unprop" -> <<Assignment(item.v, item.k, Null, all),
                                 [s |-> "dropKey", ctx |-> NoWhere, k |-> item.k]>>
       [] item.i = "unlabel" ->
            <<[s |-> "dropLabel", v |-> item.v, l |-> item.l,
               ctx |-> [NoWhere EXCEPT !.must.label = {<<item.v, item.l>>}]]>>
       [] OTHER -> <<>>

-----------------------------------------------------------------------------
(* MERGE *)

\* A node: created unless its pattern is there; what was matched before does
\* not matter.  ON MATCH then writes the nodes the pattern finds, the created
\* one included, and only literals and labels.
MergeItem(cl, item) ==
  LET found == Pattern(Both(cl.p, Sentinel(cl.v))) IN
  CASE item.i = "prop" /\ item.x.e = "lit" -> <<Assignment(cl.v, item.k, item.x, found)>>
    [] item.i = "label" -> <<Labelling(cl.v, item.l, found)>>
    [] OTHER -> <<>>

LegacyMergeInsert(cl) ==
  LegacyInsert(NoWhere, Both(cl.p, Sentinel(cl.v)), CreatedBy(cl), {cl.v})

AfterMergeNode(cl, known) == Over(known, [v \in {cl.v} \ AnonVar |-> Mention(cl.p, v)])

\* A relationship: between every two nodes that its ends' patterns find, each
\* by itself.  ON MATCH is dropped, and the ends are never created.
MergeEnds(cl, known) ==
  [NoWhere EXCEPT !.must = Both(Both(PatternOf(cl.from, known), PatternOf(cl.to, known)),
                                [cl.scan EXCEPT !.edge = {}, !.eprop = {}])]

LegacyMergeRel(cl, known) == <<MergeEdgeInsert(cl, MergeEnds(cl, known))>>

-----------------------------------------------------------------------------
(* The loop of cypher_clauses_to_updates: what clause i pushes in its j-th
   turn (its j-th item; the INSERT of a MERGE comes first). *)

LegacyStatements(q, i, j, known) ==
  LET cl == q[i] IN
  CASE cl.c = "create" /\ ~ Coalesced(q, i) -> LegacyCreate(CreateGraph(q, i), known)
    [] cl.c = "set" /\ j <= Len(cl.items) -> LegacySetItem(cl.items[j])
    [] cl.c = "mergeNode" /\ j = 1 -> LegacyMergeInsert(cl)
    [] cl.c = "mergeNode" /\ j \in 2 .. Len(cl.onMatch) + 1 -> MergeItem(cl, cl.onMatch[j - 1])
    [] cl.c = "mergeRel" -> LegacyMergeRel(cl, known)
    [] OTHER -> <<>>

LastTurn(cl, j) ==
  CASE cl.c = "set" -> j >= Len(cl.items)
    [] cl.c = "mergeNode" -> j > Len(cl.onMatch)
    [] OTHER -> TRUE

KnownAfter(q, i, known, alias) ==
  LET cl == q[i] IN
  CASE cl.c \in {"match", "optional"} -> AfterMatch(known, cl.p)
    [] cl.c = "with" -> AfterWith(cl.rename, known, alias)
    [] cl.c = "create" /\ ~ Coalesced(q, i) -> AfterCreate(CreateGraph(q, i), known)
    [] cl.c = "mergeNode" -> AfterMergeNode(cl, known)
    [] OTHER -> known

AliasAfter(q, i, alias) == IF q[i].c = "with" THEN AliasesAfter(q[i].rename, alias) ELSE alias
=============================================================================
