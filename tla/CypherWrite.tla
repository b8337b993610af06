---------------------------- MODULE CypherWrite -----------------------------
(***************************************************************************)
(* What a write query means in Cypher (openCypher 9, the language the      *)
(* repository's TCK features specify): the reading clauses are matched     *)
(* once, against the graph the query was submitted to; the writing clauses *)
(* then act in textual order, for every row, on the nodes and              *)
(* relationships that row names; and the whole query happens at once.      *)
(***************************************************************************)
EXTENDS LqaWrite

\* The row table: the reading clauses of the query, on the graph as it was.
Table(q, g) == Rows(WhereParts(q.cl, {i \in DOMAIN q.cl : ~ IsWrite(q.cl[i])}), g)

\* The nodes that match the pattern of a node MERGE.
Found(cl, g) == {r[cl.v] : r \in Rows(Pattern(cl.p), g)}

\* The variables that get new nodes: those of CREATEs, and that of a node MERGE
\* that finds none.
Created(q) == UNION {q.cl[j].g.node : j \in {m \in DOMAIN q.cl : q.cl[m].c = "create"}}
Merged(q, g) ==
  {q.cl[j].v : j \in {m \in DOMAIN q.cl : q.cl[m].c = "mergeNode" /\ Found(q.cl[m], g) = {}}}

\* new gives every row its own node for each variable the query creates.
Bind(r, new) == [v \in DOMAIN r \cup {t[2] : t \in {u \in DOMAIN new : u[1] = r}} |->
                   IF v \in DOMAIN r THEN r[v] ELSE new[<<r, v>>]]

Assigned(item) == IF item.x.e = "lit" THEN {item.x.x} ELSE {}

\* One SET or REMOVE item on the nodes N.  SET n = {map} replaces properties only.
SetOn(g, item, N) ==
  CASE item.i \in {"prop", "mergeMap"} ->
         [g EXCEPT !.prop = {t \in @ : ~ (t[1] \in N /\ t[2] = item.k)}
                              \cup {<<n, item.k, x>> : n \in N, x \in Assigned(item)}]
    [] item.i = "unprop" -> [g EXCEPT !.prop = {t \in @ : ~ (t[1] \in N /\ t[2] = item.k)}]
    [] item.i = "label" -> [g EXCEPT !.label = @ \cup {<<n, item.l>> : n \in N}]
    [] item.i = "unlabel" -> [g EXCEPT !.label = @ \ {<<n, item.l>> : n \in N}]
    [] item.i = "replace" ->
         [g EXCEPT !.prop = {t \in @ : t[1] \notin N} \cup {<<n, t[1], t[2]>> : n \in N, t \in item.map}]

\* One item after the other: the graph after each, the i-th on the nodes on[i].
Stages(g, items, on) ==
  LET after[i \in 0 .. Len(items)] == IF i = 0 THEN g ELSE SetOn(after[i - 1], items[i], on[i])
  IN after

SetEach(g, items, on) == Stages(g, items, on)[Len(items)]

\* The nodes of each item, by the rows.
Targets(items, B) == [i \in DOMAIN items |-> {b[items[i].v] : b \in {c \in B : items[i].v \in DOMAIN c}}]

\* A deleted node takes its relationships with it (DETACH; without DETACH a
\* node that still has some is an error, and such a query has no outcome).
DropNodes(g, N) ==
  [node |-> g.node \ N,
   label |-> {t \in g.label : t[1] \notin N}, prop |-> {t \in g.prop : t[1] \notin N},
   edge |-> {t \in g.edge : {t[1], t[3]} \cap N = {}},
   eprop |-> {t \in g.eprop : {t[1], t[3]} \cap N = {}}]

DropEdges(g, E) ==
  [g EXCEPT !.edge = @ \ E, !.eprop = {t \in @ : <<t[1], t[2], t[3]>> \notin E}]

DeleteAll(g, cl, rels, B) ==
  LET named == {cl.what[j] : j \in DOMAIN cl.what}
      cut   == {t \in rels : t[1] \in named}
      edges == UNION {{<<b[t[2]], t[3], b[t[4]]>> : t \in {u \in cut : {u[2], u[4]} \subseteq DOMAIN b}} : b \in B}
      nodes == UNION {{b[v] : v \in named \cap DOMAIN b} : b \in B}
  IN DropNodes(DropEdges(g, edges), nodes)

\* MERGE takes every match of its pattern, and only if there is none creates it.
MergeNode(g, cl, n) ==
  LET found == Found(cl, g) IN
  IF found # {} THEN SetEach(g, cl.onMatch, [i \in DOMAIN cl.onMatch |-> found])
  ELSE SetEach(Both(g, Image([cl.p EXCEPT !.node = {cl.v}], [v \in {cl.v} |-> n])),
               cl.onCreate, [i \in DOMAIN cl.onCreate |-> {n}])

MergeRel(g, cl, B) ==
  LET absent == {b \in B : ~ Embeds(EdgeGraph(cl, cl.props), b, g)}
  IN UnionOf({g} \cup {Image(EdgeGraph(cl, cl.props \cup LiteralProps(cl.onCreate)), b) : b \in absent})

\* What clause j does to the graph h the clauses before it left.
Do(q, g, new, h, j) ==
  LET cl == q.cl[j]
      B == {Bind(r, new) : r \in Table(q, g)}
      fresh == {v \in cl.g.node : \E r \in Table(q, g) : v \notin DOMAIN r}
  IN CASE cl.c = "create" ->
            UnionOf({h} \cup {Image(CreateTemplate(cl.g, Var \ fresh), b) : b \in B})
       [] cl.c = "set" -> SetEach(h, cl.items, Targets(cl.items, B))
       [] cl.c = "delete" -> DeleteAll(h, cl, RelVars(q.cl, DOMAIN q.cl), B)
       [] cl.c = "mergeNode" -> MergeNode(h, cl, CHOOSE n \in {b[cl.v] : b \in B} : TRUE)
       [] cl.c = "mergeRel" -> MergeRel(h, cl, B)
       [] OTHER -> h

Course(q, g, new) ==
  LET after[j \in 0 .. Len(q.cl)] == IF j = 0 THEN g ELSE Do(q, g, new, after[j - 1], j)
  IN after

\* A new node for every row and every variable that gets one, no two the same.
NewNodes(q, g) ==
  LET wanted == {t \in Table(q, g) \X (Created(q) \cup Merged(q, g)) : t[2] \notin DOMAIN t[1]}
  IN {f \in [wanted -> Node \ Ids(g)] : \A x, y \in wanted : f[x] = f[y] => x = y}

\* The graphs a query may leave: one for each choice of new nodes.
Outcomes(q, g) == {Course(q, g, new)[Len(q.cl)] : new \in NewNodes(q, g)}
=============================================================================
