---------------------------- MODULE SparqlUpdate ----------------------------
(***************************************************************************)
(* What the endpoint does with one statement of the list (external: SPARQL *)
(* 1.1 Update).  Each statement evaluates its own WHERE on the store the   *)
(* statements before it left.  A variable its WHERE leaves unbound is      *)
(* bound by the first pattern after it, so it ranges over every subject of *)
(* that pattern; in a template it drops the triple.                        *)
(***************************************************************************)
EXTENDS LqaWrite

\* Property triples by subject: <<n>> for a node, <<a, REL, b>> for << a REL b >>.
Facts(st) ==
  {<< <<t[1]>>, t[2], t[3] >> : t \in st.prop}
    \cup {<< <<t[1], t[2], t[3]>>, t[4], t[5] >> : t \in st.eprop}

FactGraph(F) ==
  [EmptyGraph EXCEPT
     !.prop = {<<f[1][1], f[2], f[3]>> : f \in {g \in F : Len(g[1]) = 1}},
     !.eprop = {<<f[1][1], f[1][2], f[1][3], f[2], f[3]>> : f \in {g \in F : Len(g[1]) = 3}}]

\* The subjects ?v ranges over in OPTIONAL { ?v <k> ?old }.
Subjects(r, v, k, st) ==
  IF v \in DOMAIN r THEN {<<r[v]>>} ELSE {f[1] : f \in {g \in Facts(st) : g[2] = k}}

\* The values of expression x for row r, with the assigned variable v at subject s.
Values(x, r, v, s, st) ==
  CASE x.e = "lit" -> {x.x}
    [] x.e = "null" -> {}
    [] x.e = "prop" ->
         LET of == IF x.v = v THEN {s} ELSE Subjects(r, x.v, x.k, st)
         IN {f[3] : f \in {g \in Facts(st) : g[1] \in of /\ g[2] = x.k}}

\* FILTER(BOUND(new)) drops the solutions where a property read is absent.
Hits(s, st) ==
  {h \in UNION {{<<r, u>> : u \in Subjects(r, s.v, s.k, st)} : r \in Rows(s.ctx, st)} :
     s.x.e = "prop" => Values(s.x, h[1], s.v, h[2], st) # {}}

\* Mutant: the old values are not deleted.
UpsertKeepsOld(s, st) ==
  [del |-> EmptyGraph,
   ins |-> FactGraph(UNION {{<<h[2], s.k, y>> : y \in Values(s.x, h[1], s.v, h[2], st)} : h \in Hits(s, st)})]

Upsert(s, st) ==
  LET hit == {h[2] : h \in Hits(s, st)} IN
  [del |-> FactGraph({f \in Facts(st) : f[1] \in hit /\ f[2] = s.k}),
   ins |-> FactGraph(UNION {{<<h[2], s.k, y>> : y \in Values(s.x, h[1], s.v, h[2], st)} : h \in Hits(s, st)})]

UpsertEdge(s, st) ==
  LET hit == {<<r[s.from], s.rel, r[s.to]>> : r \in Rows(s.ctx, st)} IN
  [del |-> FactGraph({f \in Facts(st) : f[1] \in hit /\ f[2] = s.k}),
   ins |-> FactGraph({<<u, s.k, s.x.x>> : u \in hit})]

\* The relationship has to be there: ?s ?p ?o . ?reif rdf:reifies <<( ?s ?p ?o )>>.
DropKey(s, st) ==
  [del |-> [EmptyGraph EXCEPT !.eprop = {t \in st.eprop : t[4] = s.k /\ <<t[1], t[2], t[3]>> \in st.edge}],
   ins |-> EmptyGraph]

\* The nodes a statement on ?v names, and whether some row leaves ?v unbound.
Named(s, st) == {r[s.v] : r \in {u \in Rows(s.ctx, st) : s.v \in DOMAIN u}}
Loose(s, st) == \E r \in Rows(s.ctx, st) : s.v \notin DOMAIN r

AddLabel(s, st) ==
  [del |-> EmptyGraph, ins |-> [EmptyGraph EXCEPT !.label = {<<n, s.l>> : n \in Named(s, st)}]]

DropLabel(s, st) ==
  [del |-> [EmptyGraph EXCEPT !.label = {t \in st.label : t[2] = s.l /\ (Loose(s, st) \/ t[1] \in Named(s, st))}],
   ins |-> EmptyGraph]

\* The predicates are all but rdf:type and the sentinel: edges go with the properties.
Replace(s, st) ==
  LET loose == IF Loose(s, st)
               THEN {f[1] : f \in Facts(st)} \cup {<<t[1]>> : t \in st.edge} ELSE {}
      hit == {<<n>> : n \in Named(s, st)} \cup loose
  IN [del |-> [FactGraph({f \in Facts(st) : f[1] \in hit})
                 EXCEPT !.edge = {t \in st.edge : <<t[1]>> \in hit}],
      ins |-> FactGraph({<<u, t[1], t[2]>> : u \in hit, t \in s.map})]

WipeOut(s, st) ==
  LET N == Named(s, st) IN
  [del |-> IF Loose(s, st) THEN st
           ELSE [node |-> st.node \cap N,
                 label |-> {t \in st.label : t[1] \in N}, prop |-> {t \in st.prop : t[1] \in N},
                 edge |-> {t \in st.edge : t[1] \in N}, eprop |-> {}],
   ins |-> EmptyGraph]

WipeIn(s, st) ==
  LET N == Named(s, st) edges == {t \in st.edge : t[1] # t[3]} IN
  [del |-> IF Loose(s, st) THEN [st EXCEPT !.edge = edges]
           ELSE [EmptyGraph EXCEPT !.edge = {t \in edges : t[3] \in N}],
   ins |-> EmptyGraph]

Cut(s, st) ==
  [del |-> [EmptyGraph EXCEPT
              !.edge = {<<r[s.from], s.rel, r[s.to]>> :
                          r \in {u \in Rows(s.ctx, st) : {s.from, s.to} \subseteq DOMAIN u}}],
   ins |-> EmptyGraph]

\* The rows an INSERT fires for, and the blank nodes it makes for them.
Fires(s, st) == {r \in Rows(s.ctx, st) : ~ Blocked(s.absent, r, st)}
Wanted(s, st) == IF s.s = "insert" THEN Fires(s, st) \X s.fresh ELSE {}

IriOf(s, v) == (CHOOSE t \in s.iri : t[1] = v)[2]

Assign(s, r, alloc) ==
  LET stable == {t[1] : t \in s.iri} IN
  [v \in s.fresh \cup stable \cup DOMAIN r |->
     IF v \in s.fresh THEN alloc[<<r, v>>] ELSE IF v \in stable THEN IriOf(s, v) ELSE r[v]]

Insert(s, st, alloc) ==
  [del |-> EmptyGraph, ins |-> UnionOf({Image(s.tmpl, Assign(s, r, alloc)) : r \in Fires(s, st)})]

Effect(s, st, alloc) ==
  CASE s.s = "insert" -> Insert(s, st, alloc)
    [] s.s = "upsert" -> Upsert(s, st)
    [] s.s = "upsertEdge" -> UpsertEdge(s, st)
    [] s.s = "dropKey" -> DropKey(s, st)
    [] s.s = "addLabel" -> AddLabel(s, st)
    [] s.s = "dropLabel" -> DropLabel(s, st)
    [] s.s = "replace" -> Replace(s, st)
    [] s.s = "wipeOut" -> WipeOut(s, st)
    [] s.s = "wipeIn" -> WipeIn(s, st)
    [] s.s = "cut" -> Cut(s, st)

Apply(s, st, alloc) == LET e == Effect(s, st, alloc) IN Patch(st, e.del, e.ins)

\* Blank nodes are new: not in the store, and never one of the stable IRIs.
Spare(st) ==
  Node \ (Ids(st) \cup {StableIri[j] : j \in DOMAIN StableIri})

Allocations(s, st) ==
  {a \in [Wanted(s, st) -> Spare(st)] : \A x, y \in Wanted(s, st) : a[x] = a[y] => x = y}
=============================================================================
