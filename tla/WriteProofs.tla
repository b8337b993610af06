----------------------------- MODULE WriteProofs -----------------------------
(***************************************************************************)
(* What the write compiler guarantees of the statements it emits, for      *)
(* every query the lowering produces: they are well formed, and they have  *)
(* the shape the safety of the store rests on.  Then the write session,    *)
(* for every set of queries, every store and every number of failures: it  *)
(* is well typed, while no query deletes a node the graph stays closed     *)
(* after every single statement, and a node MERGE finds what it has made.  *)
(***************************************************************************)
EXTENDS WriteSession, TLAPS, FiniteSetTheorems

-----------------------------------------------------------------------------
(* Stores: graphs, rows and templates *)

\* A graph is given by its five sets of triples.
LEMMA GraphFields ==
  ASSUME NEW Id, NEW g
  PROVE  g \in Graph(Id) =>
           /\ g.node \subseteq Id
           /\ g.label \subseteq Id \X Label
           /\ g.prop \subseteq Id \X Key \X Val
           /\ g.edge \subseteq Id \X Rel \X Id
           /\ g.eprop \subseteq Id \X Rel \X Id \X Key \X Val
  BY DEF Graph

\* The empty graph is a graph over any identifiers.
LEMMA EmptyGraphType == ASSUME NEW Id PROVE EmptyGraph \in Graph(Id)
  BY DEF EmptyGraph, Graph

\* Joining two patterns or two graphs gives one over the same identifiers.
LEMMA BothType ==
  ASSUME NEW Id, NEW g \in Graph(Id), NEW h \in Graph(Id)
  PROVE  Both(g, h) \in Graph(Id)
  BY DEF Both, Graph

\* So does joining a set of them, as the WHERE of several clauses does.
LEMMA UnionOfType ==
  ASSUME NEW Id, NEW S, \A g \in S : g \in Graph(Id)
  PROVE  UnionOf(S) \in Graph(Id)
  BY DEF UnionOf, Graph

\* A store is well typed after an update whose insertions are.
LEMMA PatchType ==
  ASSUME NEW Id, NEW st \in Graph(Id), NEW ins \in Graph(Id), NEW del
  PROVE  Patch(st, del, ins) \in Graph(Id)
  BY DEF Patch, Graph

\* The identifiers of a well-typed graph are identifiers.
LEMMA IdsType ==
  ASSUME NEW Id, NEW g \in Graph(Id)
  PROVE  Ids(g) \subseteq Id
  BY DEF Ids, Graph

\* The image of a template is a graph over what the map sends its variables to.
LEMMA ImageInto ==
  ASSUME NEW M, NEW g \in Graph(Var), NEW f, \A v \in Ids(g) \cap DOMAIN f : f[v] \in M
  PROVE  Image(g, f) \in Graph(M)
<1> DEFINE B == DOMAIN f
<1>1. {f[v] : v \in g.node \cap B} \subseteq M
  BY DEF Ids
<1>2. {<<f[t[1]], t[2]>> : t \in {u \in g.label : u[1] \in B}} \subseteq M \X Label
  BY DEF Ids, Graph
<1>3. {<<f[t[1]], t[2], t[3]>> : t \in {u \in g.prop : u[1] \in B}} \subseteq M \X Key \X Val
  BY DEF Ids, Graph
<1>4. {<<f[t[1]], t[2], f[t[3]]>> : t \in {u \in g.edge : u[1] \in B /\ u[3] \in B}} \subseteq M \X Rel \X M
  BY DEF Ids, Graph
<1>5. {<<f[t[1]], t[2], f[t[3]], t[4], t[5]>> : t \in {u \in g.eprop : u[1] \in B /\ u[3] \in B}}
        \subseteq M \X Rel \X M \X Key \X Val
  BY DEF Ids, Graph
<1> QED
  BY <1>1, <1>2, <1>3, <1>4, <1>5 DEF Image, Graph

\* A bound node of a template is inserted under the identifier it is bound to.
LEMMA ImageNodes ==
  ASSUME NEW g, NEW f, NEW v \in g.node \cap DOMAIN f
  PROVE  f[v] \in Image(g, f).node
  BY DEF Image

\* A graph is closed when it is a graph over its own nodes.
LEMMA ClosedGraph ==
  ASSUME NEW st \in Graph(Node)
  PROVE  Closed(st) <=> st \in Graph(st.node)
  BY DEF Closed, Ids, Graph

\* A graph over some identifiers is one over more identifiers.
LEMMA GraphGrows ==
  ASSUME NEW M, NEW N, M \subseteq N, NEW g \in Graph(M)
  PROVE  g \in Graph(N)
  BY DEF Graph

-----------------------------------------------------------------------------
(* Rows *)

\* A pattern that embeds in a graph over N sends its variables to N.
LEMMA EmbedsInto ==
  ASSUME NEW N, NEW p \in Graph(Var), NEW r, NEW st \in Graph(N), Embeds(p, r, st),
         NEW v \in Ids(p)
  PROVE  r[v] \in N
<1>1. CASE v \in p.node
  BY <1>1 DEF Embeds, Graph
<1>2. CASE v \in {t[1] : t \in p.label}
  BY <1>2 DEF Embeds, Graph
<1>3. CASE v \in {t[1] : t \in p.prop}
  BY <1>3 DEF Embeds, Graph
<1>4. CASE v \in {t[1] : t \in p.edge} \cup {t[3] : t \in p.edge}
  <2>1. \A t \in p.edge : <<r[t[1]], t[2], r[t[3]]>> \in N \X Rel \X N
    BY DEF Embeds, Graph
  <2> QED
    BY <1>4, <2>1
<1>5. CASE v \in {t[1] : t \in p.eprop} \cup {t[3] : t \in p.eprop}
  <2>1. \A t \in p.eprop : <<r[t[1]], t[2], r[t[3]], t[4], t[5]>> \in N \X Rel \X N \X Key \X Val
    BY DEF Embeds, Graph
  <2> QED
    BY <1>5, <2>1
<1> QED
  BY <1>1, <1>2, <1>3, <1>4, <1>5 DEF Ids

\* A solution of a WHERE embeds its required pattern, agrees with its BINDs, and
\* embeds the OPTIONAL group too unless it leaves its variables unbound.
LEMMA RowFacts ==
  ASSUME NEW c \in Where, NEW st, NEW r \in Rows(c, st)
  PROVE  /\ r \in [DOMAIN r -> Node]
         /\ DOMAIN r \subseteq WhereVars(c)
         /\ Embeds(c.must, r, st)
         /\ DOMAIN r = MustVars(c) \/ Embeds(c.opt, r, st)
         /\ \A t \in c.same : r[t[1]] = r[t[2]]
         /\ \A t \in c.iri : r[t[1]] = t[2]
<1>1. CASE r \in Matches(c.must, MustVars(c), c, st)
  BY <1>1 DEF Matches, WhereVars
<1>2. CASE r \in Matches(Both(c.must, c.opt), WhereVars(c), c, st)
  <2>1. Embeds(Both(c.must, c.opt), r, st)
    BY <1>2 DEF Matches
  <2>2. Embeds(c.must, r, st) /\ Embeds(c.opt, r, st)
    BY <2>1 DEF Embeds, Both
  <2> QED
    BY <1>2, <2>2 DEF Matches
<1> QED
  BY <1>1, <1>2 DEF Rows

\* A solution binds every variable the required part of the WHERE mentions.
LEMMA RowDomain ==
  ASSUME NEW c \in Where, NEW st, NEW r \in Rows(c, st)
  PROVE  MustVars(c) \subseteq DOMAIN r
<1>1. CASE r \in Matches(c.must, MustVars(c), c, st)
  BY <1>1 DEF Matches
<1>2. CASE r \in Matches(Both(c.must, c.opt), WhereVars(c), c, st)
  BY <1>2 DEF Matches, WhereVars
<1> QED
  BY <1>1, <1>2 DEF Rows

\* The renames of a WHERE name variables its pattern binds.
SourcesBound(c) == \A t \in c.same : t[1] \in Ids(c.must)

\* Rows of a WHERE stay among the nodes N of the graph.
LEMMA RowsInto ==
  ASSUME NEW N, NEW c \in Where, NEW st \in Graph(N), SourcesBound(c),
         \A t \in c.iri : t[2] \in N, NEW r \in Rows(c, st), NEW v \in DOMAIN r
  PROVE  r[v] \in N
<1>0. c.must \in Graph(Var) /\ c.opt \in Graph(Var)
  BY DEF Where
<1>1. v \in Ids(c.must) \cup {t[1] : t \in c.iri} \cup {t[1] : t \in c.same} \cup {t[2] : t \in c.same}
       \/ (v \in Ids(c.opt) /\ Embeds(c.opt, r, st))
  BY RowFacts DEF WhereVars, MustVars
<1>2. \A w \in Ids(c.must) : r[w] \in N
  BY <1>0, RowFacts, EmbedsInto
<1>3. CASE v \in Ids(c.opt) /\ Embeds(c.opt, r, st)
  BY <1>0, <1>3, EmbedsInto
<1>4. CASE v \in {t[1] : t \in c.iri}
  BY <1>4, RowFacts
<1>5. CASE v \in {t[1] : t \in c.same} \cup {t[2] : t \in c.same}
  BY <1>5, <1>2, RowFacts DEF SourcesBound
<1> QED
  BY <1>1, <1>2, <1>3, <1>4, <1>5

-----------------------------------------------------------------------------
(* Property triples *)

SubjectsOf(N) == {<<n>> : n \in N} \cup (N \X Rel \X N)
FactsOf(N) == SubjectsOf(N) \X Key \X Val

\* The property triples of a graph over N have subjects over N.
LEMMA FactsType ==
  ASSUME NEW N, NEW st \in Graph(N)
  PROVE  Facts(st) \subseteq FactsOf(N)
<1>1. {<< <<t[1]>>, t[2], t[3] >> : t \in st.prop} \subseteq FactsOf(N)
  BY DEF FactsOf, SubjectsOf, Graph
<1>2. {<< <<t[1], t[2], t[3]>>, t[4], t[5] >> : t \in st.eprop} \subseteq FactsOf(N)
  BY DEF FactsOf, SubjectsOf, Graph
<1> QED
  BY <1>1, <1>2 DEF Facts

\* Property triples over N make a graph over N.
LEMMA FactGraphType ==
  ASSUME NEW N, NEW F, F \subseteq FactsOf(N)
  PROVE  FactGraph(F) \in Graph(N)
<1>1. \A f \in F : Len(f[1]) = 1 => f[1][1] \in N
  BY DEF FactsOf, SubjectsOf
<1>2. \A f \in F : Len(f[1]) = 3 => f[1][1] \in N /\ f[1][2] \in Rel /\ f[1][3] \in N
  BY DEF FactsOf, SubjectsOf
<1>3. \A f \in F : f[2] \in Key /\ f[3] \in Val
  BY DEF FactsOf
<1>4. FactGraph(F).prop \subseteq N \X Key \X Val
  BY <1>1, <1>3 DEF FactGraph, EmptyGraph
<1>5. FactGraph(F).eprop \subseteq N \X Rel \X N \X Key \X Val
  BY <1>2, <1>3 DEF FactGraph, EmptyGraph
<1> QED
  BY <1>4, <1>5 DEF FactGraph, Graph, EmptyGraph

\* The subjects an OPTIONAL old-value pattern ranges over are those of the graph.
LEMMA SubjectsType ==
  ASSUME NEW N, NEW st \in Graph(N), NEW r, \A w \in DOMAIN r : r[w] \in N, NEW v, NEW k
  PROVE  Subjects(r, v, k, st) \subseteq SubjectsOf(N)
  BY FactsType DEF Subjects, FactsOf, SubjectsOf

\* What an assigned expression evaluates to is a value, whatever it reads.
LEMMA ValuesType ==
  ASSUME NEW N, NEW st \in Graph(N), NEW x \in Expr, NEW r, NEW v, NEW u
  PROVE  Values(x, r, v, u, st) \subseteq Val
  BY FactsType DEF Values, FactsOf, Expr

-----------------------------------------------------------------------------
(* What a statement adds to a graph over N, when its rows stay in N, is a
   graph over N; only a wipeOut removes nodes. *)

RowsStay(s, st, N) == \A r \in Rows(s.ctx, st) : \A v \in DOMAIN r : r[v] \in N

\* Property triples bring no node sentinel with them.
LEMMA FactGraphNodes == ASSUME NEW F PROVE FactGraph(F).node = {}
  BY DEF FactGraph, EmptyGraph

\* SET v.k = x deletes no sentinel and inserts on subjects of the graph only.
LEMMA UpsertEffect ==
  ASSUME NEW N, NEW st \in Graph(N), NEW s \in Statement, s.s = "upsert", RowsStay(s, st, N)
  PROVE  Upsert(s, st).del.node = {} /\ Upsert(s, st).ins \in Graph(N)
<1>1. s.x \in Expr /\ s.k \in Key
  BY DEF Statement
<1>2. \A h \in Hits(s, st) : h[2] \in SubjectsOf(N)
  BY SubjectsType DEF Hits, RowsStay
<1>3. UNION {{<<h[2], s.k, y>> : y \in Values(s.x, h[1], s.v, h[2], st)} : h \in Hits(s, st)} \subseteq FactsOf(N)
  BY <1>1, <1>2, ValuesType DEF FactsOf
<1> QED
  BY <1>3, FactGraphType, FactGraphNodes DEF Upsert

\* The same of ON MATCH SET on a relationship with both ends named.
LEMMA UpsertEdgeEffect ==
  ASSUME NEW N, NEW st \in Graph(N), NEW s \in Statement, s.s = "upsertEdge", RowsStay(s, st, N),
         {s.from, s.to} \subseteq MustVars(s.ctx)
  PROVE  UpsertEdge(s, st).del.node = {} /\ UpsertEdge(s, st).ins \in Graph(N)
<1>1. s.rel \in Rel /\ s.k \in Key /\ s.x.x \in Val /\ s.ctx \in Where
  BY DEF Statement
<1>2. \A r \in Rows(s.ctx, st) : {s.from, s.to} \subseteq DOMAIN r
  BY RowDomain, <1>1
<1>3. {<<u, s.k, s.x.x>> : u \in {<<r[s.from], s.rel, r[s.to]>> : r \in Rows(s.ctx, st)}} \subseteq FactsOf(N)
  BY <1>1, <1>2 DEF FactsOf, SubjectsOf, RowsStay
<1> QED
  BY <1>3, FactGraphType, FactGraphNodes DEF UpsertEdge

\* The same of SET v:L and REMOVE v:L.
LEMMA LabelEffect ==
  ASSUME NEW N, NEW st \in Graph(N), NEW s \in Statement, s.s \in {"addLabel", "dropLabel"}, RowsStay(s, st, N)
  PROVE  /\ AddLabel(s, st).del.node = {} /\ AddLabel(s, st).ins \in Graph(N)
         /\ DropLabel(s, st).del.node = {} /\ DropLabel(s, st).ins \in Graph(N)
<1>1. s.l \in Label
  BY DEF Statement
<1>2. Named(s, st) \subseteq N
  BY DEF Named, RowsStay
<1> QED
  BY <1>1, <1>2 DEF AddLabel, DropLabel, EmptyGraph, Graph

\* The same of SET v = {map}, also when v is unbound.
LEMMA ReplaceEffect ==
  ASSUME NEW N, NEW st \in Graph(N), NEW s \in Statement, s.s = "replace", RowsStay(s, st, N)
  PROVE  Replace(s, st).del.node = {} /\ Replace(s, st).ins \in Graph(N)
<1> DEFINE loose == IF Loose(s, st) THEN {f[1] : f \in Facts(st)} \cup {<<t[1]>> : t \in st.edge} ELSE {}
           hit == {<<n>> : n \in Named(s, st)} \cup loose
<1>1. s.map \subseteq Key \X Val
  BY DEF Statement
<1>2. {<<n>> : n \in Named(s, st)} \subseteq SubjectsOf(N)
  BY DEF Named, RowsStay, SubjectsOf
<1>3. {f[1] : f \in Facts(st)} \subseteq SubjectsOf(N)
  BY FactsType DEF FactsOf
<1>4. {<<t[1]>> : t \in st.edge} \subseteq SubjectsOf(N)
  BY DEF SubjectsOf, Graph
<1>5. hit \subseteq SubjectsOf(N)
  BY <1>2, <1>3, <1>4
<1>6. {<<u, t[1], t[2]>> : u \in hit, t \in s.map} \subseteq FactsOf(N)
  BY <1>1, <1>5 DEF FactsOf
<1>7. Replace(s, st).ins = FactGraph({<<u, t[1], t[2]>> : u \in hit, t \in s.map})
  BY DEF Replace
<1>8. Replace(s, st).del.node = {}
  <2> DEFINE F == {f \in Facts(st) : f[1] \in hit}
             E == {t \in st.edge : <<t[1]>> \in hit}
  <2>1. Replace(s, st).del = [FactGraph(F) EXCEPT !.edge = E]
    BY DEF Replace
  <2> HIDE DEF F, E
  <2>2. [FactGraph(F) EXCEPT !.edge = E].node = {}
    BY DEF FactGraph, EmptyGraph
  <2> QED
    BY <2>1, <2>2
<1> QED
  BY <1>6, <1>7, <1>8, FactGraphType

\* The statements of a DELETE insert nothing; DELETE r and the removal of a key
\* from all relationships delete no sentinel.
LEMMA WipeInEffect ==
  ASSUME NEW N, NEW st, NEW s
  PROVE  /\ WipeIn(s, st).ins \in Graph(N) /\ WipeOut(s, st).ins \in Graph(N)
         /\ Cut(s, st).del.node = {} /\ Cut(s, st).ins \in Graph(N)
         /\ DropKey(s, st).del.node = {} /\ DropKey(s, st).ins \in Graph(N)
  BY EmptyGraphType DEF WipeIn, WipeOut, Cut, DropKey, EmptyGraph

\* A variable with a stable IRI has one, and it is a node identifier.
LEMMA IriOfType ==
  ASSUME NEW s \in Statement, s.s = "insert", NEW v \in {t[1] : t \in s.iri}
  PROVE  \E t \in s.iri : t[1] = v /\ IriOf(s, v) = t[2] /\ t[2] \in Node
<1>1. s.iri \subseteq Var \X Node
  BY DEF Statement
<1> QED
  BY <1>1 DEF IriOf

\* An INSERT assigns a node identifier to every variable of its template it binds.
LEMMA AssignType ==
  ASSUME NEW st, NEW s \in Statement, s.s = "insert", NEW r \in Fires(s, st),
         NEW alloc \in [Wanted(s, st) -> Node],
         NEW v \in DOMAIN Assign(s, r, alloc)
  PROVE  Assign(s, r, alloc)[v] \in Node
<1>1. s.ctx \in Where /\ r \in Rows(s.ctx, st)
  BY DEF Statement, Fires
<1>2. r \in [DOMAIN r -> Node]
  BY <1>1, RowFacts
<1>3. v \in s.fresh => alloc[<<r, v>>] \in Node
  BY DEF Wanted
<1> QED
  BY <1>2, <1>3, IriOfType DEF Assign

\* An INSERT deletes nothing and inserts a well-typed graph.
LEMMA InsertType ==
  ASSUME NEW st, NEW s \in Statement, s.s = "insert", NEW alloc \in [Wanted(s, st) -> Node]
  PROVE  Insert(s, st, alloc).del.node = {} /\ Insert(s, st, alloc).ins \in Graph(Node)
<1>1. s.tmpl \in Graph(Var)
  BY DEF Statement
<1>2. \A r \in Fires(s, st) : Image(s.tmpl, Assign(s, r, alloc)) \in Graph(Node)
  BY <1>1, AssignType, ImageInto
<1>3. \A g \in {Image(s.tmpl, Assign(s, r, alloc)) : r \in Fires(s, st)} : g \in Graph(Node)
  BY <1>2
<1>4. Insert(s, st, alloc).ins \in Graph(Node)
  BY <1>3, UnionOfType DEF Insert
<1> QED
  BY <1>4 DEF Insert, EmptyGraph

\* Every variable of the template that is not one of its nodes comes from the row.
RowEnds(s) ==
  (Ids(s.tmpl) \ s.tmpl.node) \cap (s.fresh \cup {t[1] : t \in s.iri}) = {}

\* What an INSERT adds hangs from nodes of the store or from nodes it adds itself.
LEMMA InsertEffect ==
  ASSUME NEW N, NEW st \in Graph(N), NEW s \in Statement, s.s = "insert", RowsStay(s, st, N),
         RowEnds(s), NEW alloc
  PROVE  Insert(s, st, alloc).ins \in Graph(N \cup Insert(s, st, alloc).ins.node)
<1> DEFINE I(r) == Image(s.tmpl, Assign(s, r, alloc))
           M == N \cup UNION {g.node : g \in {I(r) : r \in Fires(s, st)}}
<1>1. s.tmpl \in Graph(Var) /\ s.ctx \in Where
  BY DEF Statement
<1>2. ASSUME NEW r \in Fires(s, st) PROVE I(r) \in Graph(M)
  <2> DEFINE f == Assign(s, r, alloc)
  <2>1. I(r).node \subseteq M
    OBVIOUS
  <2>2. ASSUME NEW v \in Ids(s.tmpl) \cap DOMAIN f PROVE f[v] \in M
    <3>1. CASE v \in s.tmpl.node
      BY <2>1, <2>2, <3>1, ImageNodes
    <3>2. CASE v \notin s.tmpl.node
      <4>1. v \notin s.fresh /\ v \notin {t[1] : t \in s.iri}
        BY <2>2, <3>2 DEF RowEnds
      <4>2. v \in DOMAIN r /\ f[v] = r[v]
        BY <2>2, <4>1 DEF Assign
      <4>3. r \in Rows(s.ctx, st)
        BY DEF Fires
      <4> QED
        BY <4>2, <4>3 DEF RowsStay
    <3> QED
      BY <3>1, <3>2
  <2> QED
    BY <1>1, <2>2, ImageInto
<1>3. UnionOf({I(r) : r \in Fires(s, st)}) \in Graph(M)
  BY <1>2, UnionOfType
<1>4. Insert(s, st, alloc).ins = UnionOf({I(r) : r \in Fires(s, st)})
  BY DEF Insert
<1>5. M = N \cup UnionOf({I(r) : r \in Fires(s, st)}).node
  BY DEF UnionOf
<1> QED
  BY <1>3, <1>4, <1>5

-----------------------------------------------------------------------------
(* One statement *)

\* What the compiler makes sure of in every statement it emits.
EndsBound(s) == s.s = "upsertEdge" => {s.from, s.to} \subseteq MustVars(s.ctx)

\* Every solution of a statement of the list binds node identifiers.
LEMMA RowsTyped ==
  ASSUME NEW s \in Statement, NEW st
  PROVE  s.ctx \in Where /\ RowsStay(s, st, Node)
<1>1. s.ctx \in Where
  BY DEF Statement
<1> QED
  BY <1>1, RowFacts DEF RowsStay

\* The list holds statements of ten kinds.
LEMMA StatementKinds ==
  ASSUME NEW s \in Statement
  PROVE  s.s \in {"insert", "upsert", "upsertEdge", "addLabel", "dropLabel", "replace", "wipeOut", "wipeIn", "cut", "dropKey"}
  BY DEF Statement

\* A statement leaves a well-typed store.
LEMMA ApplyType ==
  ASSUME NEW st \in Graph(Node), NEW s \in Statement, EndsBound(s), NEW alloc \in [Wanted(s, st) -> Node]
  PROVE  Apply(s, st, alloc) \in Graph(Node)
<1>0. RowsStay(s, st, Node)
  BY RowsTyped
<1>1. Effect(s, st, alloc).ins \in Graph(Node)
  <2>1. CASE s.s = "insert"
    BY <2>1, InsertType DEF Effect
  <2>2. CASE s.s = "upsert"
    BY <2>2, <1>0, UpsertEffect DEF Effect
  <2>3. CASE s.s = "upsertEdge"
    BY <2>3, <1>0, UpsertEdgeEffect DEF Effect, EndsBound
  <2>4. CASE s.s = "addLabel"
    BY <2>4, <1>0, LabelEffect DEF Effect
  <2>5. CASE s.s = "dropLabel"
    BY <2>5, <1>0, LabelEffect DEF Effect
  <2>6. CASE s.s = "replace"
    BY <2>6, <1>0, ReplaceEffect DEF Effect
  <2>7. CASE s.s \in {"wipeOut", "wipeIn", "cut", "dropKey"}
    BY <2>7, WipeInEffect DEF Effect
  <2> QED
    BY <2>1, <2>2, <2>3, <2>4, <2>5, <2>6, <2>7, StatementKinds
<1> QED
  BY <1>1, PatchType DEF Apply

\* A statement that is not part of a node delete keeps every node, and leaves
\* the graph closed if it was and if the identifiers it names are nodes.
LEMMA ApplyClosed ==
  ASSUME NEW st \in Graph(Node), Closed(st), NEW s \in Statement,
         s.s \notin {"wipeOut", "wipeIn"}, EndsBound(s), SourcesBound(s.ctx),
         s.s = "insert" => RowEnds(s),
         \A t \in s.ctx.iri : t[2] \in st.node,
         NEW alloc \in [Wanted(s, st) -> Node]
  PROVE  /\ Closed(Apply(s, st, alloc))
         /\ Apply(s, st, alloc).node = st.node \cup Effect(s, st, alloc).ins.node
<1> DEFINE N == st.node
           e == Effect(s, st, alloc)
           new == Apply(s, st, alloc)
<1>0. s.ctx \in Where /\ st \in Graph(N)
  BY RowsTyped, ClosedGraph
<1>1. RowsStay(s, st, N)
  BY <1>0, RowsInto DEF RowsStay
<1>2. e.del.node = {} /\ e.ins \in Graph(N \cup e.ins.node)
  <2>1. CASE s.s = "insert"
    BY <2>1, <1>0, <1>1, InsertEffect, InsertType DEF Effect
  <2>2. CASE e.del.node = {} /\ e.ins \in Graph(N)
    BY <2>2, GraphGrows
  <2>3. CASE s.s = "upsert"
    BY <2>2, <2>3, <1>0, <1>1, UpsertEffect DEF Effect
  <2>4. CASE s.s = "upsertEdge"
    BY <2>2, <2>4, <1>0, <1>1, UpsertEdgeEffect DEF Effect, EndsBound
  <2>5. CASE s.s = "addLabel"
    BY <2>2, <2>5, <1>0, <1>1, LabelEffect DEF Effect
  <2>6. CASE s.s = "dropLabel"
    BY <2>2, <2>6, <1>0, <1>1, LabelEffect DEF Effect
  <2>7. CASE s.s = "replace"
    BY <2>2, <2>7, <1>0, <1>1, ReplaceEffect DEF Effect
  <2>8. CASE s.s \in {"cut", "dropKey"}
    BY <2>2, <2>8, WipeInEffect DEF Effect
  <2> QED
    BY <2>1, <2>3, <2>4, <2>5, <2>6, <2>7, <2>8, StatementKinds
<1>3. new.node = N \cup e.ins.node
  BY <1>2 DEF Apply, Patch
<1>4. st \in Graph(new.node) /\ e.ins \in Graph(new.node)
  BY <1>0, <1>2, <1>3, GraphGrows
<1>5. new \in Graph(new.node)
  BY <1>4, PatchType DEF Apply
<1>6. new \in Graph(Node)
  BY ApplyType
<1> QED
  BY <1>3, <1>5, <1>6, ClosedGraph

-----------------------------------------------------------------------------
(* WHERE clauses *)

\* What a clause contributes to a WHERE is well typed.
LEMMA ClauseParts ==
  ASSUME NEW cl \in Clause
  PROVE  /\ MustPart(cl) \in Graph(Var)
         /\ OptPart(cl) \in Graph(Var)
         /\ Renames(cl) \subseteq Var \X Var
<1>1. cl.c = "match" => cl.p \in Graph(Var)
  BY DEF Clause
<1>2. cl.c = "optional" => cl.p \in Graph(Var)
  BY DEF Clause
<1>3. cl.c = "with" => cl.rename \subseteq Var \X Var
  BY DEF Clause
<1>4. cl.c = "create" => cl.g \in Graph(Var)
  BY DEF Clause
<1>5. ASSUME NEW g \in Graph(Var), NEW V PROVE Scanned(g, V) \in Graph(Var)
  BY <1>5 DEF Scanned, Graph, EmptyGraph
<1> QED
  BY <1>1, <1>2, <1>3, <1>4, <1>5, EmptyGraphType DEF MustPart, OptPart, Renames

\* So is the WHERE of any set of clauses (op_to_where_parts).
LEMMA WherePartsType ==
  ASSUME NEW q \in Seq(Clause), NEW S \in SUBSET DOMAIN q
  PROVE  WhereParts(q, S) \in Where
<1>1. \A j \in S : q[j] \in Clause
  OBVIOUS
<1>2. UnionOf({MustPart(q[j]) : j \in S}) \in Graph(Var)
  BY <1>1, ClauseParts, UnionOfType
<1>3. UnionOf({OptPart(q[j]) : j \in S}) \in Graph(Var)
  BY <1>1, ClauseParts, UnionOfType
<1>4. UNION {Renames(q[j]) : j \in S} \subseteq Var \X Var
  BY <1>1, ClauseParts
<1> QED
  BY <1>2, <1>3, <1>4 DEF WhereParts, Where

\* A pattern's variables are among those of a WHERE it is part of.
LEMMA UnionOfIds ==
  ASSUME NEW S, NEW g \in S
  PROVE  Ids(g) \subseteq Ids(UnionOf(S))
  BY DEF Ids, UnionOf

\* More clauses bind more variables.
LEMMA UnionOfMonotone ==
  ASSUME NEW S, NEW T, S \subseteq T
  PROVE  Ids(UnionOf(S)) \subseteq Ids(UnionOf(T))
  BY DEF Ids, UnionOf

\* A set of positions that is closed downwards binds the sources of its renames.
LEMMA WherePartsSources ==
  ASSUME NEW q \in Seq(Clause), \A i \in DOMAIN q : Lowered(q, i),
         NEW S \in SUBSET DOMAIN q, \A j \in S : 1 .. j - 1 \subseteq S
  PROVE  SourcesBound(WhereParts(q, S))
<1> SUFFICES ASSUME NEW j \in S, NEW t \in Renames(q[j])
             PROVE  t[1] \in Ids(WhereParts(q, S).must)
  BY DEF SourcesBound, WhereParts
<1>1. q[j].c = "with" /\ t \in q[j].rename
  BY DEF Renames
<1>2. t[1] \in Ids(WhereParts(q, 1 .. j - 1).must)
  BY <1>1 DEF Lowered
<1>3. {MustPart(q[m]) : m \in 1 .. j - 1} \subseteq {MustPart(q[m]) : m \in S}
  OBVIOUS
<1> QED
  BY <1>2, <1>3, UnionOfMonotone DEF WhereParts

\* The clauses a write reads are the first ones of the query (read_context).
LEMMA ReadContextDown ==
  ASSUME NEW q \in Seq(Clause), NEW i \in 0 .. Len(q)
  PROVE  /\ ReadContext(q, i) \in SUBSET DOMAIN q
         /\ \A j \in ReadContext(q, i) : 1 .. j - 1 \subseteq ReadContext(q, i)
  BY DEF ReadContext

\* The WHERE of a CREATE, SET or DELETE is well typed, binds the source of every
\* rename and names no IRI.
LEMMA ContextOfFacts ==
  ASSUME NEW q \in Seq(Clause), \A i \in DOMAIN q : Lowered(q, i), NEW i \in DOMAIN q
  PROVE  /\ ContextOf(q, i) \in Where
         /\ SourcesBound(ContextOf(q, i))
         /\ ContextOf(q, i).iri = {}
<1>1. i - 1 \in 0 .. Len(q)
  OBVIOUS
<1>2. ContextOf(q, i) \in Where
  BY <1>1, ReadContextDown, WherePartsType DEF ContextOf
<1>3. SourcesBound(ContextOf(q, i))
  BY <1>1, ReadContextDown, WherePartsSources DEF ContextOf
<1> QED
  BY <1>2, <1>3 DEF ContextOf, WhereParts

\* The WHERE of a MERGE does too, and names only IRIs of bnode_map.
LEMMA MergeWhereFacts ==
  ASSUME NEW q \in Seq(Clause), \A j \in DOMAIN q : Lowered(q, j), NEW i \in DOMAIN q, NEW b \in NodeMap
  PROVE  /\ MergeWhere(q, i, b) \in Where
         /\ SourcesBound(MergeWhere(q, i, b))
         /\ MergeWhere(q, i, b).iri \subseteq b.iri
<1> DEFINE above == {j \in 1 .. i - 1 : \A m \in j .. i - 1 : q[m].c = "create"}
           S == (1 .. i - 1) \ above
           below == WhereParts(q, S)
           bound == {t \in b.iri : t[1] \notin AnonVar /\ \E j \in above : t[1] \in q[j].g.node}
           scan == Var \ ({t[1] : t \in bound} \cup b.row)
           G == {below.must} \cup {Scanned(q[j].g, scan) : j \in above}
<1>1. MergeWhere(q, i, b) = [below EXCEPT !.must = UnionOf(G), !.iri = bound]
  BY DEF MergeWhere
<1>2. S \in SUBSET DOMAIN q
  OBVIOUS
<1>3. \A j \in S : 1 .. j - 1 \subseteq S
  OBVIOUS
<1>4. below \in Where /\ SourcesBound(below)
  BY <1>2, <1>3, WherePartsType, WherePartsSources
<1>5. \A j \in above : q[j] \in Clause /\ q[j].c = "create"
  OBVIOUS
<1>6. \A j \in above : Scanned(q[j].g, scan) \in Graph(Var)
  <2>1. \A j \in above : q[j].g \in Graph(Var)
    BY <1>5 DEF Clause
  <2>2. ASSUME NEW g \in Graph(Var), NEW V PROVE Scanned(g, V) \in Graph(Var)
    BY <2>2 DEF Scanned, Graph, EmptyGraph
  <2> QED
    BY <2>1, <2>2
<1> HIDE DEF above, S, below, bound, scan
<1>7. UnionOf(G) \in Graph(Var)
  <2>1. below.must \in Graph(Var)
    BY <1>4 DEF Where
  <2>2. \A g \in G : g \in Graph(Var)
    BY <2>1, <1>6
  <2> QED
    BY <2>2, UnionOfType
<1>8. bound \subseteq b.iri /\ b.iri \subseteq Var \X Node
  BY DEF bound, NodeMap
<1>9. Ids(below.must) \subseteq Ids(UnionOf(G))
  BY UnionOfIds
<1> HIDE DEF G
<1> QED
  BY <1>1, <1>4, <1>7, <1>8, <1>9 DEF Where, SourcesBound

-----------------------------------------------------------------------------
(* Statements *)

\* What an INSERT of a node MERGE looks like: one new node, made to match the
\* very pattern the statement waits for.
MergeShaped(s) ==
  (s.s = "insert" /\ s.fresh # {} /\ s.absent # EmptyGraph) =>
    /\ s.ctx = NoWhere /\ s.iri = {}
    /\ \E v \in s.fresh : Ids(s.absent) = {v}
    /\ s.absent.node \subseteq s.tmpl.node
    /\ s.absent.label \subseteq s.tmpl.label
    /\ s.absent.prop \subseteq s.tmpl.prop
    /\ s.absent.edge \subseteq s.tmpl.edge
    /\ s.absent.eprop \subseteq s.tmpl.eprop

Shaped ==
  {s \in Statement : /\ SourcesBound(s.ctx) /\ EndsBound(s) /\ MergeShaped(s)
                     /\ s.s = "insert" => RowEnds(s)}

\* A statement that binds identifiers in its WHERE, and the INSERT that makes one.
Makes(s, t) ==
  /\ s.s = "insert" /\ s.ctx = NoWhere /\ s.absent = EmptyGraph
  /\ t \in s.iri /\ t[1] \in s.tmpl.node /\ t[1] \notin s.fresh
  /\ \A u \in s.iri : u[1] = t[1] => u = t

Keeps(s) == s.s \notin {"wipeOut", "wipeIn"}

\* Adding the scan of all nodes to an empty WHERE keeps it well formed.
LEMMA OrScanFacts ==
  ASSUME NEW ctx \in Where, SourcesBound(ctx), NEW v \in Var
  PROVE  OrScan(ctx, v) \in Where /\ SourcesBound(OrScan(ctx, v)) /\ OrScan(ctx, v).iri = ctx.iri
  BY DEF OrScan, Where, SourcesBound, NoWhere, Graph, EmptyGraph

\* A SET or REMOVE item becomes a statement that deletes no node.
LEMMA SetStatementFacts ==
  ASSUME NEW it \in SetItem, NEW ctx \in Where, SourcesBound(ctx)
  PROVE  /\ SetStatement(it, ctx) \in Shaped
         /\ Keeps(SetStatement(it, ctx))
         /\ SetStatement(it, ctx).ctx.iri = ctx.iri
         /\ SetStatement(it, ctx).s # "insert"
<1> DEFINE on == OrScan(ctx, it.v)
           s == SetStatement(it, ctx)
<1>1. it.v \in Var
  BY DEF SetItem
<1>2. on \in Where /\ SourcesBound(on) /\ on.iri = ctx.iri
  BY <1>1, OrScanFacts
<1> HIDE DEF on
<1>3. CASE it.i \in {"prop", "mergeMap"}
  <2>1. it.k \in Key /\ it.x \in Expr
    BY <1>3 DEF SetItem
  <2>2. s = [s |-> "upsert", ctx |-> on, v |-> it.v, k |-> it.k, x |-> it.x]
    BY <1>3 DEF SetStatement, on
  <2> QED
    BY <1>1, <1>2, <2>1, <2>2 DEF Statement, Shaped, EndsBound, MergeShaped, Keeps
<1>4. CASE it.i = "label"
  <2>1. it.l \in Label
    BY <1>4 DEF SetItem
  <2>2. s = [s |-> "addLabel", ctx |-> on, v |-> it.v, l |-> it.l]
    BY <1>4 DEF SetStatement, on
  <2> QED
    BY <1>1, <1>2, <2>1, <2>2 DEF Statement, Shaped, EndsBound, MergeShaped, Keeps
<1>5. CASE it.i = "unlabel"
  <2>1. it.l \in Label
    BY <1>5 DEF SetItem
  <2>2. s = [s |-> "dropLabel", ctx |-> on, v |-> it.v, l |-> it.l]
    BY <1>5 DEF SetStatement, on
  <2> QED
    BY <1>1, <1>2, <2>1, <2>2 DEF Statement, Shaped, EndsBound, MergeShaped, Keeps
<1>6. CASE it.i = "replace"
  <2>1. it.map \subseteq Key \X Val
    BY <1>6 DEF SetItem
  <2>2. s = [s |-> "replace", ctx |-> on, v |-> it.v, map |-> it.map]
    BY <1>6 DEF SetStatement, on
  <2> QED
    BY <1>1, <1>2, <2>1, <2>2 DEF Statement, Shaped, EndsBound, MergeShaped, Keeps
<1>7. CASE it.i = "unprop"
  <2>1. it.k \in Key /\ Null \in Expr
    BY <1>7 DEF SetItem, Expr, Null
  <2>2. s = [s |-> "upsert", ctx |-> on, v |-> it.v, k |-> it.k, x |-> Null]
    BY <1>7 DEF SetStatement, on
  <2> QED
    BY <1>1, <1>2, <2>1, <2>2 DEF Statement, Shaped, EndsBound, MergeShaped, Keeps
<1>8. it.i \in {"prop", "mergeMap", "unprop", "label", "unlabel", "replace"}
  BY DEF SetItem
<1> QED
  BY <1>3, <1>4, <1>5, <1>6, <1>7, <1>8

\* A list of shaped statements that name the identifiers I at most.
Emits(list, I) == list \in Seq(Shaped) /\ \A k \in DOMAIN list : list[k].ctx.iri \subseteq I

\* A list of shaped statements that read only the IRIs in I is emitted as such.
LEMMA EmitsOf ==
  ASSUME NEW n \in Nat, NEW list, DOMAIN list = 1 .. n, list = [k \in 1 .. n |-> list[k]], NEW I,
         \A k \in 1 .. n : list[k] \in Shaped /\ list[k].ctx.iri \subseteq I
  PROVE  Emits(list, I)
  BY DEF Emits

\* So is one such list after another.
LEMMA EmitsConcat ==
  ASSUME NEW l, NEW m, NEW I, Emits(l, I), Emits(m, I)
  PROVE  Emits(l \o m, I)
  BY DEF Emits

\* compile_set_items emits statements that delete no node.
LEMMA CompileSetItemsFacts ==
  ASSUME NEW items \in Seq(SetItem), NEW ctx \in Where, SourcesBound(ctx)
  PROVE  /\ Emits(CompileSetItems(items, ctx), ctx.iri)
         /\ \A k \in DOMAIN CompileSetItems(items, ctx) : Keeps(CompileSetItems(items, ctx)[k])
<1> DEFINE list == CompileSetItems(items, ctx)
<1>1. list = [k \in 1 .. Len(items) |-> SetStatement(items[k], ctx)]
  BY DEF CompileSetItems, Each
<1>2. \A k \in 1 .. Len(items) : items[k] \in SetItem
  OBVIOUS
<1>3. \A k \in 1 .. Len(items) :
        list[k] \in Shaped /\ Keeps(list[k]) /\ list[k].ctx.iri \subseteq ctx.iri
  BY <1>1, <1>2, SetStatementFacts
<1> HIDE DEF list
<1>4. Emits(list, ctx.iri)
  BY <1>1, <1>3, EmitsOf
<1> QED
  BY <1>1, <1>3, <1>4 DEF list

\* An item of a DELETE becomes one statement; it deletes no node if the item is a
\* relationship variable.
LEMMA DeleteStatementFacts ==
  ASSUME NEW v \in Var, NEW ctx \in Where, SourcesBound(ctx), NEW rels \in SUBSET (Var \X Var \X Rel \X Var)
  PROVE  /\ DeleteStatement(v, ctx, rels) \in Shaped
         /\ DeleteStatement(v, ctx, rels).ctx.iri \subseteq ctx.iri
         /\ (\E t \in rels : t[1] = v) => Keeps(DeleteStatement(v, ctx, rels))
<1> DEFINE s == DeleteStatement(v, ctx, rels)
<1>1. CASE \E t \in rels : t[1] = v
  <2> DEFINE t == CHOOSE u \in rels : u[1] = v
  <2>1. t \in Var \X Var \X Rel \X Var
    BY <1>1
  <2>2. s = [s |-> "cut", ctx |-> ctx, from |-> t[2], rel |-> t[3], to |-> t[4]]
    BY <1>1 DEF DeleteStatement
  <2> HIDE DEF t
  <2> QED
    BY <2>1, <2>2 DEF Statement, Shaped, EndsBound, MergeShaped, Keeps
<1>2. CASE ~ \E t \in rels : t[1] = v
  <2>1. s = [s |-> "wipeOut", ctx |-> OrScan(ctx, v), v |-> v]
    BY <1>2 DEF DeleteStatement
  <2> QED
    BY <1>2, <2>1, OrScanFacts DEF Statement, Shaped, EndsBound, MergeShaped
<1> QED
  BY <1>1, <1>2

\* compile_delete emits well-formed statements, and none that deletes a node when
\* it is asked to delete relationships only.
LEMMA CompileDeleteFacts ==
  ASSUME NEW cl \in Clause, cl.c = "delete", NEW ctx \in Where, SourcesBound(ctx),
         NEW rels \in SUBSET (Var \X Var \X Rel \X Var)
  PROVE  /\ Emits(CompileDelete(cl, ctx, rels), ctx.iri)
         /\ (~ cl.detach /\ \A j \in DOMAIN cl.what : \E t \in rels : t[1] = cl.what[j])
              => \A k \in DOMAIN CompileDelete(cl, ctx, rels) : Keeps(CompileDelete(cl, ctx, rels)[k])
<1> DEFINE list == CompileDelete(cl, ctx, rels)
<1>1. cl.what \in Seq(Var) /\ cl.detach \in BOOLEAN
  BY DEF Clause
<1>2. CASE cl.detach
  <2> DEFINE n == 2 * Len(cl.what)
  <2>1. \A k \in 1 .. n : cl.what[(k + 1) \div 2] \in Var
    BY <1>1
  <2>2. list = [k \in 1 .. n |->
                  LET v == cl.what[(k + 1) \div 2]
                  IN [s |-> IF k % 2 = 1 THEN "wipeOut" ELSE "wipeIn", ctx |-> OrScan(ctx, v), v |-> v]]
    BY <1>2 DEF CompileDelete
  <2>3. ASSUME NEW v \in Var, NEW kind \in {"wipeOut", "wipeIn"}
        PROVE  LET s == [s |-> kind, ctx |-> OrScan(ctx, v), v |-> v]
               IN s \in Shaped /\ s.ctx.iri \subseteq ctx.iri
    BY <2>3, OrScanFacts DEF Statement, Shaped, EndsBound, MergeShaped
  <2>4. \A k \in 1 .. n : list[k] \in Shaped /\ list[k].ctx.iri \subseteq ctx.iri
    BY <2>1, <2>2, <2>3
  <2>5. n \in Nat
    BY <1>1
  <2> HIDE DEF list
  <2> QED
    BY <1>2, <2>2, <2>4, <2>5, EmitsOf DEF list
<1>3. CASE ~ cl.detach
  <2>1. list = [k \in 1 .. Len(cl.what) |-> DeleteStatement(cl.what[k], ctx, rels)]
    BY <1>3 DEF CompileDelete, Each
  <2>2. \A k \in 1 .. Len(cl.what) : cl.what[k] \in Var
    BY <1>1
  <2>3. \A k \in 1 .. Len(cl.what) : list[k] \in Shaped /\ list[k].ctx.iri \subseteq ctx.iri
    BY <2>1, <2>2, DeleteStatementFacts
  <2>4. (\A j \in DOMAIN cl.what : \E t \in rels : t[1] = cl.what[j]) => \A k \in 1 .. Len(cl.what) : Keeps(list[k])
    BY <1>1, <2>1, <2>2, DeleteStatementFacts
  <2>5. Len(cl.what) \in Nat
    BY <1>1
  <2> HIDE DEF list
  <2> QED
    BY <2>1, <2>3, <2>4, <2>5, EmitsOf DEF list
<1> QED
  BY <1>2, <1>3

-----------------------------------------------------------------------------
(* CREATE *)

\* bnode_map gives a variable one identifier, one blank node, or one row.
OneName(b) ==
  LET named == {t[1] : t \in b.iri} IN
  /\ \A t, u \in b.iri : t[1] = u[1] => t = u
  /\ named \cap b.blank = {} /\ named \cap b.row = {} /\ b.blank \cap b.row = {}

\* A CREATE keeps what bnode_map already names, gives each variable one IRI, and
\* names only nodes of its own, and only when its WHERE is empty.
LEMMA CreateMapFacts ==
  ASSUME NEW cl \in Clause, cl.c = "create", NEW ctx \in Where, NEW b \in NodeMap, OneName(b),
         NEW num \in [NewVars(cl, ctx, b) -> DOMAIN StableIri]
  PROVE  /\ CreateMap(cl, ctx, b, num) \in NodeMap
         /\ OneName(CreateMap(cl, ctx, b, num))
         /\ b.iri \subseteq CreateMap(cl, ctx, b, num).iri
         /\ \A t \in CreateMap(cl, ctx, b, num).iri \ b.iri : ctx = NoWhere /\ t[1] \in cl.g.node
<1> DEFINE new == NewVars(cl, ctx, b)
           named == IF ctx = NoWhere THEN new \ AnonVar ELSE {}
           known == b.blank \cup {t[1] : t \in b.iri}
           I == {<<v, StableIri[num[v]]>> : v \in named}
           a == CreateMap(cl, ctx, b, num)
<1>1. cl.g \in Graph(Var) /\ cl.g.node \subseteq Var
  <2>1. cl.g \in Graph(Var)
    BY DEF Clause
  <2> QED
    BY <2>1 DEF Graph
<1>2. new \subseteq cl.g.node /\ new \cap (known \cup b.row \cup WhereVars(ctx)) = {}
  BY DEF NewVars
<1>3. I \subseteq Var \X Node
  BY <1>1, <1>2, IriAssumption
<1>4. a = [iri |-> b.iri \cup I, blank |-> b.blank \cup (new \ named),
           row |-> b.row \cup ((cl.g.node \cap WhereVars(ctx)) \ known)]
  BY DEF CreateMap
<1>5. b.iri \subseteq Var \X Node /\ b.blank \subseteq Var /\ b.row \subseteq Var
  BY DEF NodeMap
<1>6. \A t \in I : t[1] \in named
  OBVIOUS
<1>7. \A t, u \in I : t[1] = u[1] => t = u
  OBVIOUS
<1>8. named \subseteq new /\ (named # {} => ctx = NoWhere)
  OBVIOUS
<1>9. \A t \in b.iri : t[1] \in known
  OBVIOUS
<1>10. b.blank \subseteq known
  OBVIOUS
<1> HIDE DEF new, I, named, a, known
<1>11. a \in NodeMap
  BY <1>1, <1>2, <1>3, <1>4, <1>5 DEF NodeMap
<1>12. OneName(a)
  <2>1. {t[1] : t \in a.iri} \subseteq {t[1] : t \in b.iri} \cup named
    BY <1>4, <1>6
  <2>2. \A t, u \in a.iri : t[1] = u[1] => t = u
    BY <1>2, <1>4, <1>6, <1>7, <1>8, <1>9 DEF OneName
  <2>3. named \cap a.blank = {} /\ named \cap a.row = {}
    BY <1>2, <1>4, <1>8, <1>10
  <2>4. {t[1] : t \in b.iri} \cap a.blank = {} /\ {t[1] : t \in b.iri} \cap a.row = {}
    BY <1>2, <1>4, <1>9 DEF OneName
  <2>5. a.blank \cap a.row = {}
    BY <1>2, <1>4, <1>10 DEF OneName
  <2> QED
    BY <2>1, <2>2, <2>3, <2>4, <2>5 DEF OneName
<1> QED
  BY <1>2, <1>4, <1>6, <1>8, <1>11, <1>12 DEF a

\* The template of a CREATE is its pattern without what the WHERE binds.
LEMMA CreateTemplateFacts ==
  ASSUME NEW g \in Graph(Var), NEW row
  PROVE  /\ CreateTemplate(g, row) \in Graph(Var)
         /\ CreateTemplate(g, row).node = g.node \ row
         /\ Ids(CreateTemplate(g, row)) \subseteq Ids(g)
<1>1. /\ CreateTemplate(g, row).node = g.node \ row
      /\ CreateTemplate(g, row).label \subseteq g.label
      /\ CreateTemplate(g, row).prop \subseteq g.prop
      /\ CreateTemplate(g, row).edge = g.edge
      /\ CreateTemplate(g, row).eprop = g.eprop
      /\ CreateTemplate(g, row) \in Graph(Var)
  BY DEF CreateTemplate, Graph
<1> QED
  BY <1>1 DEF Ids

\* compile_create emits an INSERT that makes every IRI the clause put in bnode_map.
LEMMA CompileCreateFacts ==
  ASSUME NEW cl \in Clause, cl.c = "create", Closed(cl.g), NEW ctx \in Where, SourcesBound(ctx),
         NEW a \in NodeMap, OneName(a)
  PROVE  /\ Emits(CompileCreate(cl, ctx, a), ctx.iri)
         /\ \A k \in DOMAIN CompileCreate(cl, ctx, a) : Keeps(CompileCreate(cl, ctx, a)[k])
         /\ \A t \in a.iri : ctx = NoWhere /\ t[1] \in cl.g.node =>
              \E k \in DOMAIN CompileCreate(cl, ctx, a) : Makes(CompileCreate(cl, ctx, a)[k], t)
<1> DEFINE tmpl == CreateTemplate(cl.g, a.row)
           s == [s |-> "insert", ctx |-> ctx, absent |-> EmptyGraph, tmpl |-> tmpl,
                 fresh |-> a.blank \cap Ids(tmpl), iri |-> {t \in a.iri : t[1] \in Ids(tmpl)}]
           list == CompileCreate(cl, ctx, a)
<1>1. cl.g \in Graph(Var)
  BY DEF Clause
<1>2. tmpl \in Graph(Var) /\ tmpl.node = cl.g.node \ a.row /\ Ids(tmpl) \subseteq cl.g.node
  BY <1>1, CreateTemplateFacts DEF Closed
<1>3. list = IF tmpl = EmptyGraph THEN <<>> ELSE <<s>>
  BY DEF CompileCreate
<1>4. s \in Statement
  BY <1>2, EmptyGraphType DEF Statement, NodeMap
<1>5. RowEnds(s)
  <2>1. Ids(tmpl) \ tmpl.node \subseteq a.row
    BY <1>2
  <2>2. a.blank \cap a.row = {} /\ \A t \in a.iri : t[1] \notin a.row
    BY DEF OneName
  <2> HIDE DEF tmpl
  <2> QED
    BY <2>1, <2>2 DEF RowEnds
<1>6. s \in Shaped /\ Keeps(s)
  BY <1>4, <1>5 DEF Shaped, EndsBound, MergeShaped, Keeps
<1>7. ASSUME NEW t \in a.iri, ctx = NoWhere, t[1] \in cl.g.node
      PROVE  tmpl # EmptyGraph /\ Makes(s, t)
  <2>1. t[1] \notin a.row /\ t[1] \notin a.blank /\ \A u \in a.iri : u[1] = t[1] => u = t
    BY <1>7 DEF OneName
  <2>2. t[1] \in tmpl.node
    BY <1>2, <1>7, <2>1
  <2>3. tmpl # EmptyGraph /\ t[1] \in Ids(tmpl)
    BY <2>2 DEF EmptyGraph, Ids
  <2> HIDE DEF tmpl
  <2> QED
    BY <1>7, <2>1, <2>2, <2>3 DEF Makes
<1> HIDE DEF s, tmpl, list
<1>8. s.ctx = ctx
  BY DEF s
<1>9. Emits(list, ctx.iri)
  BY <1>3, <1>6, <1>8 DEF Emits
<1>10. \A k \in DOMAIN list : Keeps(list[k])
  BY <1>3, <1>6
<1>11. \A t \in a.iri : ctx = NoWhere /\ t[1] \in cl.g.node => \E k \in DOMAIN list : Makes(list[k], t)
  <2> SUFFICES ASSUME NEW t \in a.iri, ctx = NoWhere, t[1] \in cl.g.node
               PROVE  \E k \in DOMAIN list : Makes(list[k], t)
    OBVIOUS
  <2>1. list = <<s>> /\ Makes(s, t)
    BY <1>3, <1>7
  <2> QED
    BY <2>1
<1> QED
  BY <1>9, <1>10, <1>11 DEF list

-----------------------------------------------------------------------------
(* MERGE *)

\* The literal assignments of ON CREATE are keys with values.
LEMMA LiteralPropsType ==
  ASSUME NEW items \in Seq(SetItem)
  PROVE  LiteralProps(items) \subseteq Key \X Val
<1>1. ASSUME NEW m \in DOMAIN items, items[m].i = "prop", items[m].x.e = "lit"
      PROVE  items[m].k \in Key /\ items[m].x.x \in Val
  <2>1. items[m] \in SetItem
    OBVIOUS
  <2>2. items[m].k \in Key /\ items[m].x \in Expr
    BY <1>1, <2>1 DEF SetItem
  <2> QED
    BY <1>1, <2>2 DEF Expr
<1> QED
  BY <1>1 DEF LiteralProps

\* A label item has a label.
LEMMA LabelItemType ==
  ASSUME NEW items \in Seq(SetItem), NEW j \in DOMAIN items, items[j].i = "label"
  PROVE  items[j].l \in Label
<1>1. items[j] \in SetItem
  OBVIOUS
<1> QED
  BY <1>1 DEF SetItem

\* A pattern alone is a well-formed WHERE.
LEMMA PatternFacts ==
  ASSUME NEW p \in Graph(Var)
  PROVE  Pattern(p) \in Where /\ SourcesBound(Pattern(p)) /\ Pattern(p).iri = {}
  BY EmptyGraphType DEF Pattern, NoWhere, Where, SourcesBound

\* So is the empty WHERE.
LEMMA NoWhereFacts == NoWhere \in Where /\ SourcesBound(NoWhere) /\ NoWhere.iri = {}
  BY EmptyGraphType DEF NoWhere, Where, SourcesBound

\* Joining patterns loses no variable.
LEMMA BothIds ==
  ASSUME NEW g, NEW h
  PROVE  Ids(g) \subseteq Ids(Both(g, h)) /\ Ids(h) \subseteq Ids(Both(g, h))
  BY DEF Ids, Both

\* A WHERE with a pattern added is well formed and binds no less.
LEMMA FacingFacts ==
  ASSUME NEW ctx \in Where, SourcesBound(ctx), NEW p \in Graph(Var)
  PROVE  /\ Facing(ctx, p) \in Where
         /\ SourcesBound(Facing(ctx, p))
         /\ Facing(ctx, p).iri = ctx.iri
         /\ MustVars(ctx) \subseteq MustVars(Facing(ctx, p))
<1>1. Both(ctx.must, p) \in Graph(Var)
  BY BothType DEF Where
<1>2. Ids(ctx.must) \subseteq Ids(Both(ctx.must, p))
  BY BothIds
<1> QED
  BY <1>1, <1>2 DEF Facing, Where, SourcesBound, MustVars

\* The node a MERGE makes carries everything its pattern asks for.
LEMMA CreatedByFacts ==
  ASSUME NEW cl \in Clause, cl.c = "mergeNode", Ids(cl.p) = {cl.v}
  PROVE  /\ CreatedBy(cl) \in Graph(Var)
         /\ Ids(CreatedBy(cl)) = {cl.v}
         /\ cl.v \in CreatedBy(cl).node
         /\ cl.p.node \subseteq CreatedBy(cl).node /\ cl.p.label \subseteq CreatedBy(cl).label
         /\ cl.p.prop \subseteq CreatedBy(cl).prop /\ cl.p.edge \subseteq CreatedBy(cl).edge
         /\ cl.p.eprop \subseteq CreatedBy(cl).eprop
<1> DEFINE props == {<<cl.v, t[1], t[2]>> : t \in LiteralProps(cl.onCreate)}
           labels == {<<cl.v, cl.onCreate[j].l>> : j \in {m \in DOMAIN cl.onCreate : cl.onCreate[m].i = "label"}}
           g == CreatedBy(cl)
<1>1. cl.v \in Var /\ cl.p \in Graph(Var) /\ cl.onCreate \in Seq(SetItem)
  BY DEF Clause
<1>2. props \subseteq {cl.v} \X Key \X Val
  BY <1>1, LiteralPropsType
<1>3. labels \subseteq {cl.v} \X Label
  BY <1>1, LabelItemType
<1> HIDE DEF props, labels
<1>4. g = [cl.p EXCEPT !.node = @ \cup {cl.v}, !.prop = @ \cup props, !.label = @ \cup labels]
  BY DEF CreatedBy, props, labels
<1> HIDE DEF g
<1>5. /\ g.node = cl.p.node \cup {cl.v} /\ g.label = cl.p.label \cup labels
      /\ g.prop = cl.p.prop \cup props /\ g.edge = cl.p.edge /\ g.eprop = cl.p.eprop
  BY <1>1, <1>4 DEF Graph
<1>6. g \in Graph(Var)
  BY <1>1, <1>2, <1>3, <1>4, ZenonT(40) DEF Graph
<1>7. Ids(g) = {cl.v}
  BY <1>2, <1>3, <1>5 DEF Ids
<1> QED
  BY <1>5, <1>6, <1>7 DEF g

\* compile_merge on a node emits statements that delete no node and read no IRI.
LEMMA CompileMergeNodeFacts ==
  ASSUME NEW cl \in Clause, cl.c = "mergeNode", Ids(cl.p) = {cl.v}
  PROVE  /\ Emits(CompileMergeNode(cl), {})
         /\ \A k \in DOMAIN CompileMergeNode(cl) : Keeps(CompileMergeNode(cl)[k])
<1> DEFINE s == [s |-> "insert", ctx |-> NoWhere, absent |-> cl.p, tmpl |-> CreatedBy(cl), fresh |-> {cl.v}, iri |-> {}]
           rest == CompileSetItems(cl.onMatch, Pattern(cl.p))
<1>1. cl.v \in Var /\ cl.p \in Graph(Var) /\ cl.onMatch \in Seq(SetItem)
  BY DEF Clause
<1>2. s \in Statement
  BY <1>1, NoWhereFacts, CreatedByFacts DEF Statement
<1>3. s \in Shaped /\ Keeps(s) /\ s.ctx.iri = {}
  <2>1. RowEnds(s)
    BY CreatedByFacts DEF RowEnds
  <2>2. MergeShaped(s)
    BY CreatedByFacts DEF MergeShaped
  <2> QED
    BY <1>2, <2>1, <2>2, NoWhereFacts DEF Shaped, EndsBound, Keeps
<1>4. Emits(rest, {}) /\ \A k \in DOMAIN rest : Keeps(rest[k])
  BY <1>1, PatternFacts, CompileSetItemsFacts
<1> HIDE DEF s, rest
<1>5. Emits(<<s>>, {})
  BY <1>3 DEF Emits
<1>6. CompileMergeNode(cl) = <<s>> \o rest
  BY DEF CompileMergeNode, s, rest
<1>7. rest \in Seq(Shaped)
  BY <1>4 DEF Emits
<1> QED
  BY <1>3, <1>4, <1>5, <1>6, <1>7, EmitsConcat

\* The edge of a MERGE, with properties, speaks of its two ends.
LEMMA EdgeGraphFacts ==
  ASSUME NEW cl \in Clause, cl.c = "mergeRel", NEW props \in SUBSET (Key \X Val)
  PROVE  /\ EdgeGraph(cl, props) \in Graph(Var)
         /\ Ids(EdgeGraph(cl, props)) = {cl.from, cl.to}
<1>1. cl.from \in Var /\ cl.to \in Var /\ cl.rel \in Rel
  BY DEF Clause
<1>2. {<<cl.from, cl.rel, cl.to, t[1], t[2]>> : t \in props} \subseteq {cl.from} \X {cl.rel} \X {cl.to} \X Key \X Val
  OBVIOUS
<1>3. EdgeGraph(cl, props) \in Graph(Var)
  <2> DEFINE e == {<<cl.from, cl.rel, cl.to>>}
             E == {<<cl.from, cl.rel, cl.to, t[1], t[2]>> : t \in props}
  <2>1. E \in SUBSET (Var \X Rel \X Var \X Key \X Val)
    BY <1>1
  <2>2. e \in SUBSET (Var \X Rel \X Var)
    BY <1>1
  <2>3. EdgeGraph(cl, props) = [EmptyGraph EXCEPT !.edge = e, !.eprop = E]
    BY DEF EdgeGraph
  <2> HIDE DEF e, E
  <2>4. [EmptyGraph EXCEPT !.edge = e, !.eprop = E] \in Graph(Var)
    BY <2>1, <2>2 DEF EmptyGraph, Graph
  <2> QED
    BY <2>3, <2>4
<1>4. Ids(EdgeGraph(cl, props)) = {cl.from, cl.to}
  BY <1>2 DEF EdgeGraph, EmptyGraph, Ids
<1> QED
  BY <1>3, <1>4

\* The INSERT of a relationship MERGE is well formed and deletes no node.
LEMMA MergeEdgeInsertFacts ==
  ASSUME NEW cl \in Clause, cl.c = "mergeRel", NEW ctx \in Where, SourcesBound(ctx)
  PROVE  MergeEdgeInsert(cl, ctx) \in Shaped /\ Keeps(MergeEdgeInsert(cl, ctx))
<1> DEFINE s == MergeEdgeInsert(cl, ctx)
           lits == LiteralProps(cl.onCreate)
<1>1. cl.props \in SUBSET (Key \X Val) /\ cl.onCreate \in Seq(SetItem)
  BY DEF Clause
<1>2. lits \subseteq Key \X Val
  BY <1>1, LiteralPropsType
<1>3. EdgeGraph(cl, cl.props) \in Graph(Var) /\ EdgeGraph(cl, cl.props \cup lits) \in Graph(Var)
  BY <1>1, <1>2, EdgeGraphFacts
<1>4. s = [s |-> "insert", ctx |-> ctx, absent |-> EdgeGraph(cl, cl.props),
           tmpl |-> EdgeGraph(cl, cl.props \cup lits), fresh |-> {}, iri |-> {}]
  BY DEF MergeEdgeInsert
<1> HIDE DEF s
<1>5. s \in Statement
  BY <1>3, <1>4 DEF Statement
<1>6. RowEnds(s) /\ MergeShaped(s) /\ EndsBound(s) /\ Keeps(s)
  BY <1>4 DEF RowEnds, MergeShaped, EndsBound, Keeps
<1> QED
  BY <1>4, <1>5, <1>6 DEF Shaped, s

\* The items an ON MATCH of a relationship MERGE takes are SET items.
LEMMA LitItems == LitItem \subseteq SetItem
  BY DEF LitItem, SetItem, Expr

\* compile_merge_rel_with_props emits statements that delete no node.
LEMMA CompileMergeRelFacts ==
  ASSUME NEW cl \in Clause, cl.c = "mergeRel", NEW ctx \in Where, SourcesBound(ctx)
  PROVE  /\ Emits(CompileMergeRel(cl, ctx), ctx.iri)
         /\ \A k \in DOMAIN CompileMergeRel(cl, ctx) : Keeps(CompileMergeRel(cl, ctx)[k])
<1> DEFINE s == MergeEdgeInsert(cl, ctx)
           on == Facing(ctx, EdgeGraph(cl, {}))
           rest == CompileSetItems(cl.onMatch, on)
<1>1. cl.onMatch \in Seq(SetItem)
  <2>1. cl.onMatch \in Seq(LitItem)
    BY DEF Clause
  <2> QED
    BY <2>1, LitItems
<1>2. on \in Where /\ SourcesBound(on) /\ on.iri = ctx.iri
  BY EdgeGraphFacts, FacingFacts
<1>3. Emits(rest, ctx.iri) /\ \A k \in DOMAIN rest : Keeps(rest[k])
  BY <1>1, <1>2, CompileSetItemsFacts
<1>4. s \in Shaped /\ Keeps(s) /\ s.ctx = ctx
  BY MergeEdgeInsertFacts DEF MergeEdgeInsert
<1> HIDE DEF s, rest
<1>5. Emits(<<s>>, ctx.iri)
  BY <1>4 DEF Emits
<1>6. CompileMergeRel(cl, ctx) = <<s>> \o rest
  BY DEF CompileMergeRel, s, rest
<1>7. rest \in Seq(Shaped)
  BY <1>3 DEF Emits
<1> QED
  BY <1>3, <1>4, <1>5, <1>6, <1>7, EmitsConcat

\* compile_merge_rel_fully_bound does too, and reads IRIs of bnode_map only.
LEMMA CompileMergeBoundFacts ==
  ASSUME NEW cl \in Clause, cl.c = "mergeRel", NEW b \in NodeMap, FullyBound(cl, b)
  PROVE  /\ Emits(CompileMergeBound(cl, b), b.iri)
         /\ \A k \in DOMAIN CompileMergeBound(cl, b) : Keeps(CompileMergeBound(cl, b)[k])
<1> DEFINE ctx == [NoWhere EXCEPT !.iri = EndIris(cl, b)]
           on == Facing(ctx, EdgeGraph(cl, {}))
           s == MergeEdgeInsert(cl, ctx)
           U(it) == [s |-> "upsertEdge", ctx |-> on, from |-> cl.from, rel |-> cl.rel, to |-> cl.to,
                     k |-> it.k, x |-> it.x]
           rest == [k \in 1 .. Len(cl.onMatch) |-> U(cl.onMatch[k])]
<1>1. EndIris(cl, b) \subseteq b.iri /\ b.iri \subseteq Var \X Node
  BY DEF EndIris, NodeMap
<1>2. ctx \in Where /\ SourcesBound(ctx) /\ ctx.iri \subseteq b.iri
  BY <1>1, NoWhereFacts, EmptyGraphType DEF NoWhere, Where, SourcesBound
<1>3. EdgeGraph(cl, {}) \in Graph(Var) /\ Ids(EdgeGraph(cl, {})) = {cl.from, cl.to}
  BY EdgeGraphFacts
<1>4. on \in Where /\ SourcesBound(on) /\ on.iri = ctx.iri
  BY <1>2, <1>3, FacingFacts
<1>5. {cl.from, cl.to} \subseteq MustVars(on)
  BY <1>3, BothIds DEF Facing, MustVars
<1>6. cl.from \in Var /\ cl.to \in Var /\ cl.rel \in Rel /\ cl.onMatch \in Seq(LitItem)
  BY DEF Clause
<1>7. s \in Shaped /\ Keeps(s) /\ s.ctx = ctx
  BY <1>2, MergeEdgeInsertFacts DEF MergeEdgeInsert
<1> HIDE DEF on, s, ctx
<1>8. ASSUME NEW it \in LitItem PROVE U(it) \in Shaped /\ Keeps(U(it)) /\ U(it).ctx.iri \subseteq b.iri
  <2>1. U(it) \in Statement
    BY <1>4, <1>6 DEF Statement, LitItem
  <2> QED
    BY <1>2, <1>4, <1>5, <2>1 DEF Shaped, EndsBound, MergeShaped, Keeps
<1>9. \A k \in 1 .. Len(cl.onMatch) : cl.onMatch[k] \in LitItem
  BY <1>6
<1>10. CompileMergeBound(cl, b) = <<s>> \o rest
  BY DEF CompileMergeBound, Each, s, ctx, on
<1> HIDE DEF U
<1>11. \A k \in 1 .. Len(cl.onMatch) : rest[k] \in Shaped /\ Keeps(rest[k]) /\ rest[k].ctx.iri \subseteq b.iri
  BY <1>8, <1>9
<1>12. Len(cl.onMatch) \in Nat
  BY <1>6
<1>13. DOMAIN rest = 1 .. Len(cl.onMatch) /\ rest = [k \in 1 .. Len(cl.onMatch) |-> rest[k]]
  OBVIOUS
<1> HIDE DEF rest
<1>14. Emits(rest, b.iri)
  BY <1>11, <1>12, <1>13, EmitsOf
<1>15. Emits(<<s>>, b.iri)
  BY <1>2, <1>7 DEF Emits
<1>16. rest \in Seq(Shaped)
  BY <1>14 DEF Emits
<1>17. \A k \in DOMAIN rest : Keeps(rest[k])
  BY <1>11, <1>13
<1> QED
  BY <1>7, <1>10, <1>14, <1>15, <1>16, <1>17, EmitsConcat

-----------------------------------------------------------------------------
(* A clause of the list *)

\* Clause i of q removes no node.
KeepingClause(q, i) ==
  q[i].c = "delete" =>
    /\ ~ q[i].detach
    /\ \A j \in DOMAIN q[i].what : \E t \in RelVars(q, ReadContext(q, i - 1)) : t[1] = q[i].what[j]

\* A relationship variable stands for an edge between two variables.
LEMMA RelVarsType ==
  ASSUME NEW q \in Seq(Clause), NEW S \in SUBSET DOMAIN q
  PROVE  RelVars(q, S) \in SUBSET (Var \X Var \X Rel \X Var)
<1>1. ASSUME NEW j \in S, q[j].c \in {"match", "optional"}
      PROVE  q[j].rels \subseteq Var \X Var \X Rel \X Var
  <2>1. q[j] \in Clause
    OBVIOUS
  <2> QED
    BY <1>1, <2>1 DEF Clause
<1> QED
  BY <1>1 DEF RelVars

\* What any clause but CREATE emits is well formed and reads only IRIs of
\* bnode_map; it deletes no node unless the clause is a DELETE of nodes.
LEMMA OwnFacts ==
  ASSUME NEW q \in Seq(Clause), \A j \in DOMAIN q : Lowered(q, j), NEW i \in DOMAIN q,
         NEW b \in NodeMap, OwnSupported(q, i, b)
  PROVE  /\ Emits(OwnStatements(q, i, b), b.iri)
         /\ KeepingClause(q, i) => \A k \in DOMAIN OwnStatements(q, i, b) : Keeps(OwnStatements(q, i, b)[k])
<1> DEFINE cl == q[i]
           ctx == ContextOf(q, i)
           list == OwnStatements(q, i, b)
<1>1. cl \in Clause /\ Lowered(q, i)
  OBVIOUS
<1>2. ctx \in Where /\ SourcesBound(ctx) /\ ctx.iri = {}
  BY ContextOfFacts
<1>3. cl.c \in {"set", "delete", "mergeNode", "mergeRel"}
  BY DEF OwnSupported
<1>4. ASSUME NEW l, Emits(l, {}) PROVE Emits(l, b.iri)
  BY <1>4 DEF Emits
<1>5. CASE cl.c = "set"
  <2>1. cl.items \in Seq(SetItem)
    BY <1>1, <1>5 DEF Clause
  <2>2. list = CompileSetItems(cl.items, ctx)
    BY <1>5 DEF OwnStatements
  <2> QED
    BY <1>2, <1>4, <2>1, <2>2, CompileSetItemsFacts
<1>6. CASE cl.c = "delete"
  <2> DEFINE rels == RelVars(q, ReadContext(q, i - 1))
  <2>1. rels \in SUBSET (Var \X Var \X Rel \X Var)
    BY ReadContextDown, RelVarsType
  <2>2. list = CompileDelete(cl, ctx, rels)
    BY <1>6 DEF OwnStatements
  <2>3. KeepingClause(q, i) => ~ cl.detach /\ \A j \in DOMAIN cl.what : \E t \in rels : t[1] = cl.what[j]
    BY <1>6 DEF KeepingClause
  <2> HIDE DEF rels, ctx, list
  <2>4. /\ Emits(CompileDelete(cl, ctx, rels), ctx.iri)
        /\ (~ cl.detach /\ \A j \in DOMAIN cl.what : \E t \in rels : t[1] = cl.what[j])
             => \A k \in DOMAIN CompileDelete(cl, ctx, rels) : Keeps(CompileDelete(cl, ctx, rels)[k])
    BY <1>1, <1>2, <1>6, <2>1, CompileDeleteFacts
  <2>5. Emits(list, b.iri)
    BY <1>2, <1>4, <2>2, <2>4
  <2>6. KeepingClause(q, i) => \A k \in DOMAIN list : Keeps(list[k])
    BY <2>2, <2>3, <2>4
  <2> QED
    BY <2>5, <2>6 DEF list
<1>7. CASE cl.c = "mergeNode"
  <2>1. Ids(cl.p) = {cl.v}
    BY <1>1, <1>7 DEF Lowered
  <2>2. list = CompileMergeNode(cl)
    BY <1>7 DEF OwnStatements
  <2> QED
    BY <1>1, <1>4, <1>7, <2>1, <2>2, CompileMergeNodeFacts
<1>8. CASE cl.c = "mergeRel"
  <2> DEFINE outer == MergeWhere(q, i, b)
             on == Facing(outer, cl.scan)
  <2>1. outer \in Where /\ SourcesBound(outer) /\ outer.iri \subseteq b.iri
    BY MergeWhereFacts
  <2>2. cl.scan \in Graph(Var)
    BY <1>1, <1>8 DEF Clause
  <2>3. on \in Where /\ SourcesBound(on) /\ on.iri \subseteq b.iri
    BY <2>1, <2>2, FacingFacts
  <2>4. list = IF Constrained(cl, on) THEN CompileMergeRel(cl, on) ELSE CompileMergeBound(cl, b)
    BY <1>8 DEF OwnStatements
  <2>5. Constrained(cl, on) \/ FullyBound(cl, b)
    BY <1>8 DEF OwnSupported
  <2> HIDE DEF outer, on, list
  <2>6. CASE Constrained(cl, on)
    <3>1. Emits(CompileMergeRel(cl, on), on.iri)
      BY <1>1, <1>8, <2>3, CompileMergeRelFacts
    <3>2. Emits(CompileMergeRel(cl, on), b.iri)
      BY <2>3, <3>1 DEF Emits
    <3> QED
      BY <1>1, <1>8, <2>3, <2>4, <2>6, <3>2, CompileMergeRelFacts DEF list
  <2>7. CASE ~ Constrained(cl, on)
    BY <1>1, <1>8, <2>4, <2>5, <2>7, CompileMergeBoundFacts DEF list
  <2> QED
    BY <2>6, <2>7
<1> QED
  BY <1>3, <1>5, <1>6, <1>7, <1>8

-----------------------------------------------------------------------------
(* The session: types *)

\* The type invariant is inductive together with the shape of the statements
\* and of bnode_map: a statement that names a variable its WHERE does not bind
\* would have no result.  Busy: a query being served has not been counted yet.
Busy == pc # "idle" => served < MaxQueries
TypeInv == TypeOK /\ out \in Seq(Shaped) /\ OneName(bmap) /\ Busy

\* The query being served is one the lowering can produce.
LEMMA QueryFacts ==
  ASSUME TypeOK, query # NoQuery
  PROVE  query.cl \in Seq(Clause) /\ \A i \in DOMAIN query.cl : Lowered(query.cl, i)
  BY QueryAssumption DEF TypeOK

\* The statements the compiler emits are statements.
LEMMA ShapedStatements == Shaped \subseteq Statement
  BY DEF Shaped

\* bnode_map starts empty.
LEMMA NoNodesFacts == NoNodes \in NodeMap /\ OneName(NoNodes)
  BY DEF NoNodes, NodeMap, OneName

\* The session starts well typed.
LEMMA InitType == Init => TypeInv
<1> SUFFICES ASSUME Init PROVE TypeInv
  OBVIOUS
<1>1. store \in Graph(Node)
  BY QueryAssumption DEF Init
<1>2. TypeOK
  BY <1>1, NoNodesFacts, BoundAssumption DEF Init, TypeOK, NoQuery
<1> QED
  BY <1>2, NoNodesFacts DEF Init, TypeInv, Busy

\* A walk is over a query: there is a clause at every position it visits.
LEMMA Walking ==
  ASSUME TypeOK
  PROVE  /\ at > 0 => at \in DOMAIN query.cl /\ query # NoQuery
         /\ waiting # <<>> => Head(waiting) \in DOMAIN query.cl /\ query # NoQuery
<1>1. query = NoQuery => Len(query.cl) = 0
  BY DEF NoQuery
<1>2. query # NoQuery => query.cl \in Seq(Clause)
  BY QueryFacts
<1>3. query.cl \in Seq(Clause)
  <2>1. CASE query = NoQuery
    <3>1. query.cl = <<>>
      BY <2>1 DEF NoQuery
    <3>2. <<>> \in Seq(Clause)
      OBVIOUS
    <3> QED
      BY <3>1, <3>2
  <2> QED
    BY <1>2, <2>1
<1>4. waiting # <<>> => Head(waiting) \in 1 .. Len(query.cl)
  BY DEF TypeOK
<1> QED
  BY <1>1, <1>3, <1>4 DEF TypeOK

\* Starting to compile a query, new or again, keeps the types.
LEMMA CompileType ==
  ASSUME NEW q \in Query, Compile(q), query' = q, TypeOK, served < MaxQueries,
         base' \in {base, store}, UNCHANGED <<store, client>>
  PROVE  TypeInv'
<1>1. q.cl \in Seq(Clause)
  BY QueryAssumption
<1>2. TypeOK'
  BY <1>1, NoNodesFacts DEF Compile, TypeOK, client
<1> QED
  BY <1>2, NoNodesFacts DEF Compile, TypeInv, Busy, client

\* The walk only goes inwards.
LEMMA BelowType ==
  ASSUME at \in Nat, at > 0
  PROVE  Below(at) \in 0 .. at - 1
  BY DEF Below

\* Compiling a CREATE keeps the types: its INSERT is shaped, its IRIs are unique.
LEMMA VisitCreateType ==
  ASSUME TypeInv, VisitCreate
  PROVE  TypeInv'
<1> DEFINE cl == query.cl[at]
           ctx == ContextOf(query.cl, at)
           new == NewVars(cl, ctx, bmap)
<1>1. at \in DOMAIN query.cl /\ query # NoQuery /\ at \in Nat /\ at > 0
  BY Walking DEF TypeInv, TypeOK, VisitCreate
<1>2. query.cl \in Seq(Clause) /\ \A i \in DOMAIN query.cl : Lowered(query.cl, i)
  BY <1>1, QueryFacts DEF TypeInv
<1>3. cl \in Clause /\ cl.c = "create" /\ Closed(cl.g)
  BY <1>1, <1>2 DEF VisitCreate, Lowered
<1>4. ctx \in Where /\ SourcesBound(ctx)
  BY <1>1, <1>2, ContextOfFacts
<1>5. bmap \in NodeMap /\ OneName(bmap)
  BY DEF TypeInv, TypeOK
<1>6. PICK num \in [new -> DOMAIN StableIri] : bmap' = CreateMap(cl, ctx, bmap, num)
  BY DEF VisitCreate
<1> HIDE DEF cl, ctx
<1>7. bmap' \in NodeMap /\ OneName(bmap')
  BY <1>3, <1>4, <1>5, <1>6, CreateMapFacts
<1>8. out' = out \o CompileCreate(cl, ctx, bmap') /\ counter' = counter + Cardinality(new)
  BY DEF VisitCreate, cl, ctx
<1>9. Emits(CompileCreate(cl, ctx, bmap'), ctx.iri)
  BY <1>3, <1>4, <1>7, CompileCreateFacts
<1>10. CompileCreate(cl, ctx, bmap') \in Seq(Shaped)
  BY <1>9 DEF Emits
<1>11. out' \in Seq(Shaped) /\ Len(out') >= Len(out) /\ Len(out') \in Nat
  BY <1>8, <1>10 DEF TypeInv
<1>12. counter' \in Nat
  <2>1. cl.g \in Graph(Var)
    BY <1>3 DEF Clause
  <2>2. new \subseteq Var
    BY <2>1 DEF NewVars, Graph
  <2>3. IsFiniteSet(new)
    BY <2>2, VarAssumption, FS_Subset
  <2> QED
    BY <1>8, <2>3, FS_CardinalityType DEF TypeInv, TypeOK
<1>13. at' \in 0 .. Len(query.cl)
  <2>1. at' \in 0 .. at - 1
    BY <1>1, BelowType DEF VisitCreate
  <2> QED
    BY <1>1, <1>2, <2>1
<1>14. ip \in 1 .. Len(out') + 1
  BY <1>11 DEF TypeInv, TypeOK
<1>15. UNCHANGED <<store, query, base, pc, waiting, ip, failures, served, committed, last>>
  BY DEF VisitCreate, client
<1>16. TypeOK'
  BY <1>7, <1>11, <1>12, <1>13, <1>14, <1>15, ShapedStatements DEF TypeInv, TypeOK
<1> QED
  BY <1>7, <1>11, <1>15, <1>16 DEF TypeInv, Busy

\* Compiling any other write clause keeps the types.
LEMMA EmitType ==
  ASSUME TypeInv, Emit
  PROVE  TypeInv'
<1> DEFINE i == Head(waiting)
<1>1. i \in DOMAIN query.cl /\ query # NoQuery
  BY Walking DEF TypeInv, Emit
<1>2. query.cl \in Seq(Clause) /\ \A j \in DOMAIN query.cl : Lowered(query.cl, j)
  BY <1>1, QueryFacts DEF TypeInv
<1>3. bmap \in NodeMap /\ OwnSupported(query.cl, i, bmap)
  BY DEF TypeInv, TypeOK, Emit
<1> HIDE DEF i
<1>4. Emits(OwnStatements(query.cl, i, bmap), bmap.iri)
  BY <1>1, <1>2, <1>3, OwnFacts
<1>5. OwnStatements(query.cl, i, bmap) \in Seq(Shaped)
  BY <1>4 DEF Emits
<1>6. out' = out \o OwnStatements(query.cl, i, bmap)
  BY DEF Emit, i
<1>7. out' \in Seq(Shaped) /\ Len(out') >= Len(out) /\ Len(out') \in Nat
  BY <1>5, <1>6 DEF TypeInv
<1>8. waiting' \in Seq(1 .. Len(query.cl))
  BY DEF TypeInv, TypeOK, Emit
<1>9. ip \in 1 .. Len(out') + 1
  BY <1>7 DEF TypeInv, TypeOK
<1>10. UNCHANGED <<store, query, base, pc, at, bmap, counter, ip, failures, served, committed, last>>
  BY DEF Emit, client
<1>11. TypeOK'
  BY <1>7, <1>8, <1>9, <1>10, ShapedStatements DEF TypeInv, TypeOK
<1> QED
  BY <1>7, <1>10, <1>11 DEF TypeInv, Busy

\* Running a statement leaves a well-typed store.
LEMMA ExecuteType ==
  ASSUME TypeInv, Execute
  PROVE  TypeInv'
<1>1. PICK alloc \in Allocations(out[ip], store) : store' = Apply(out[ip], store, alloc)
  BY DEF Execute
<1>2. ip \in DOMAIN out /\ out[ip] \in Shaped
  BY DEF TypeInv, TypeOK, Execute
<1>3. out[ip] \in Statement /\ EndsBound(out[ip])
  BY <1>2 DEF Shaped
<1>4. alloc \in [Wanted(out[ip], store) -> Node]
  BY <1>1 DEF Allocations, Spare
<1>5. store' \in Graph(Node)
  BY <1>1, <1>3, <1>4, ApplyType DEF TypeInv, TypeOK
<1>6. ip' \in 1 .. Len(out) + 1
  BY DEF TypeInv, TypeOK, Execute
<1>7. UNCHANGED <<query, base, pc, compile, client>>
  BY DEF Execute
<1> QED
  BY <1>5, <1>6, <1>7 DEF TypeInv, TypeOK, Busy, compile, client

\* Every step keeps the types.
LEMMA NextType == TypeInv /\ [Next]_vars => TypeInv'
<1> SUFFICES ASSUME TypeInv, [Next]_vars PROVE TypeInv'
  OBVIOUS
<1> USE DEF TypeInv, Busy
<1>1. CASE Submit
  <2>1. PICK q \in Query : query' = q /\ Compile(q)
    BY <1>1 DEF Submit
  <2> QED
    BY <1>1, <2>1, CompileType DEF Submit
<1>2. CASE VisitCreate
  BY <1>2, VisitCreateType
<1>3. CASE VisitWrite
  <2>1. at \in DOMAIN query.cl
    BY <1>3, Walking DEF VisitWrite
  <2>2. at \in Nat /\ at > 0 /\ at' \in 0 .. at - 1
    BY <1>3, BelowType DEF VisitWrite, TypeOK
  <2>3. waiting' \in Seq(1 .. Len(query.cl))
    BY <1>3, <2>1 DEF VisitWrite, TypeOK
  <2>4. at' \in 0 .. Len(query.cl)
    BY <2>2 DEF TypeOK
  <2> QED
    BY <1>3, <2>3, <2>4 DEF VisitWrite, TypeOK, client
<1>4. CASE VisitRead
  <2>1. at \in Nat /\ at > 0
    BY <1>4 DEF VisitRead, TypeOK
  <2>2. at' \in 0 .. Len(query.cl)
    BY <1>4, <2>1, BelowType DEF VisitRead, TypeOK
  <2> QED
    BY <1>4, <2>2 DEF VisitRead, TypeOK, client
<1>5. CASE Emit
  BY <1>5, EmitType
<1>6. CASE Compiled
  BY <1>6 DEF Compiled, TypeOK, compile, client
<1>7. CASE Unsupported
  <2>1. pc' = "idle" /\ at' = 0 /\ waiting' = <<>> /\ out' = <<>> /\ ip' = 1
    BY <1>7 DEF Unsupported
  <2>2. UNCHANGED <<store, query, base, bmap, counter, failures, committed, last>>
    BY <1>7 DEF Unsupported
  <2>3. served' \in 0 .. MaxQueries
    BY <1>7, BoundAssumption DEF Unsupported, Refused, TypeOK
  <2> QED
    BY <2>1, <2>2, <2>3 DEF TypeOK
<1>8. CASE Execute
  BY <1>8, ExecuteType
<1>9. CASE Finish
  BY <1>9, BoundAssumption DEF Finish, TypeOK, compile
<1>10. CASE Fail
  BY <1>10, BoundAssumption DEF Fail, TypeOK, compile
<1>11. CASE Retry
  <2>1. query \in Query
    BY <1>11, QueryAssumption DEF Retry
  <2> QED
    BY <1>11, <2>1, CompileType DEF Retry
<1>12. CASE GiveUp
  BY <1>12, BoundAssumption DEF GiveUp, TypeOK, compile
<1>13. CASE UNCHANGED vars
  BY <1>13 DEF vars, TypeOK, compile, client
<1> QED
  BY <1>1, <1>2, <1>3, <1>4, <1>5, <1>6, <1>7, <1>8, <1>9, <1>10, <1>11, <1>12, <1>13 DEF Next

\* The walk of the compiler and the run of its statements are well typed in
\* every reachable state (compile_write and the loop that executes its list).
THEOREM TypeCorrect == Spec => []TypeOK
<1>1. TypeInv => TypeOK
  BY DEF TypeInv
<1> QED
  BY <1>1, InitType, NextType, PTL DEF Spec

-----------------------------------------------------------------------------
(* The one row of an empty WHERE *)

NoRow == [v \in {} |-> v]

\* An empty WHERE has one solution, which binds nothing.
LEMMA EmptyRows ==
  ASSUME NEW st
  PROVE  NoRow \in Rows(NoWhere, st) /\ \A r \in Rows(NoWhere, st) : r = NoRow
<1>1. MustVars(NoWhere) = {}
  BY DEF MustVars, NoWhere, Ids, EmptyGraph
<1>2. NoWhere.opt = EmptyGraph
  BY DEF NoWhere
<1>3. Rows(NoWhere, st) = Matches(NoWhere.must, {}, NoWhere, st)
  BY <1>1, <1>2 DEF Rows
<1>4. NoRow \in [{} -> Node]
  BY DEF NoRow
<1>5. \A r \in [{} -> Node] : r = NoRow
  BY DEF NoRow
<1>6. Embeds(NoWhere.must, NoRow, st)
  BY DEF Embeds, NoWhere, EmptyGraph
<1>7. NoWhere.same = {} /\ NoWhere.iri = {}
  BY DEF NoWhere
<1> QED
  BY <1>3, <1>4, <1>5, <1>6, <1>7 DEF Matches

\* An INSERT that makes an identifier puts it among the nodes.
LEMMA MakesNode ==
  ASSUME NEW s \in Statement, NEW t, Makes(s, t), NEW st, NEW alloc
  PROVE  t[2] \in Effect(s, st, alloc).ins.node
<1> DEFINE f == Assign(s, NoRow, alloc)
<1>1. NoRow \in Fires(s, st)
  BY EmptyRows DEF Makes, Fires, Blocked
<1>2. t[1] \in DOMAIN f /\ f[t[1]] = IriOf(s, t[1])
  BY DEF Makes, Assign
<1>3. IriOf(s, t[1]) = t[2]
  BY DEF Makes, IriOf
<1>4. t[2] \in Image(s.tmpl, f).node
  BY <1>2, <1>3, ImageNodes DEF Makes
<1>5. Effect(s, st, alloc) = Insert(s, st, alloc)
  BY DEF Makes, Effect
<1>6. Image(s.tmpl, f) \in {Image(s.tmpl, Assign(s, r, alloc)) : r \in Fires(s, st)}
  BY <1>1
<1>7. Image(s.tmpl, f).node \subseteq Insert(s, st, alloc).ins.node
  BY <1>6 DEF Insert, UnionOf
<1> QED
  BY <1>4, <1>5, <1>7

-----------------------------------------------------------------------------
(* The graph stays closed *)

(***************************************************************************)
(* GraphClosed is not inductive by itself: a statement may name an         *)
(* identifier by its IRI, and is safe only if that is a node by then.  So: *)
(*   - no statement deletes a node;                                        *)
(*   - whatever bnode_map names is made by an INSERT already in the list;  *)
(*   - a statement names only what an INSERT before it makes;              *)
(*   - what the INSERTs that have run make is in the store.                *)
(***************************************************************************)
MadeBy(list, k, t) == \E m \in 1 .. k : Makes(list[m], t)

NamesMade == pc = "walk" => \A t \in bmap.iri : MadeBy(out, Len(out), t)
ReadsMade == \A k \in DOMAIN out : \A t \in out[k].ctx.iri : MadeBy(out, k - 1, t)
KeepsAll == \A k \in DOMAIN out : Keeps(out[k])
MadeStays == \A t : MadeBy(out, ip - 1, t) => t[2] \in store.node

ClosedInv == NamesMade /\ ReadsMade /\ KeepsAll /\ MadeStays /\ GraphClosed

\* What the theorem asks of the queries and of the stores they start on.
NoNodeDeleted == /\ \A q \in Query : KeepsNodes(q)
                 /\ \A g \in Graphs : Closed(g)

\* A query that deletes no node has no clause that does.
LEMMA KeepsClauses ==
  ASSUME NEW q, KeepsNodes(q), NEW i \in DOMAIN q.cl
  PROVE  KeepingClause(q.cl, i)
  BY DEF KeepsNodes, KeepingClause

\* Statements put at the end of the list leave those before them as they are.
LEMMA MadeByConcat ==
  ASSUME NEW l \in Seq(Shaped), NEW m \in Seq(Shaped), NEW k \in 0 .. Len(l), NEW t, MadeBy(l, k, t)
  PROVE  MadeBy(l \o m, k, t)
  BY DEF MadeBy

\* A longer prefix of the list makes no less.
LEMMA MadeByMore ==
  ASSUME NEW l, NEW k \in Nat, NEW n \in Nat, k <= n, NEW t, MadeBy(l, k, t)
  PROVE  MadeBy(l, n, t)
  BY DEF MadeBy

\* Statements put at the end read what the list has made before them.
LEMMA ReadsConcat ==
  ASSUME NEW l \in Seq(Shaped), NEW m, NEW I, Emits(m, I), \A t \in I : MadeBy(l, Len(l), t),
         \A k \in DOMAIN l : \A t \in l[k].ctx.iri : MadeBy(l, k - 1, t),
         NEW k \in DOMAIN (l \o m), NEW t \in (l \o m)[k].ctx.iri
  PROVE  MadeBy(l \o m, k - 1, t)
<1>0. m \in Seq(Shaped) /\ Len(l) \in Nat
  BY DEF Emits
<1>1. CASE k \in DOMAIN l
  <2>1. (l \o m)[k] = l[k] /\ k - 1 \in 0 .. Len(l)
    BY <1>0, <1>1
  <2> QED
    BY <1>0, <1>1, <2>1, MadeByConcat
<1>2. CASE k \notin DOMAIN l
  <2>1. k - Len(l) \in DOMAIN m /\ (l \o m)[k] = m[k - Len(l)]
    BY <1>0, <1>2
  <2>2. t \in I
    BY <2>1 DEF Emits
  <2>3. MadeBy(l \o m, Len(l), t)
    BY <1>0, <2>2, MadeByConcat
  <2>4. Len(l) <= k - 1 /\ k - 1 \in Nat
    BY <1>0, <1>2
  <2> QED
    BY <1>0, <2>3, <2>4, MadeByMore
<1> QED
  BY <1>1, <1>2

\* The invariant holds of a closed store with no query.
LEMMA InitClosed == NoNodeDeleted /\ Init => ClosedInv
<1> SUFFICES ASSUME NoNodeDeleted, Init PROVE ClosedInv
  OBVIOUS
<1>1. Closed(store)
  BY DEF NoNodeDeleted, Init
<1>2. out = <<>> /\ ip = 1 /\ pc = "idle"
  BY DEF Init
<1> QED
  BY <1>1, <1>2 DEF ClosedInv, NamesMade, ReadsMade, KeepsAll, MadeStays, MadeBy, GraphClosed

\* Statements that are added name what the list already makes.
LEMMA ClosedAppend ==
  ASSUME out \in Seq(Shaped), ip \in 1 .. Len(out) + 1, ClosedInv,
         NEW m, NEW I, Emits(m, I), \A t \in I : MadeBy(out, Len(out), t),
         \A k \in DOMAIN m : Keeps(m[k]), out' = out \o m, UNCHANGED <<ip, store>>
  PROVE  (ReadsMade /\ KeepsAll /\ MadeStays /\ GraphClosed)'
<1>1. m \in Seq(Shaped) /\ out \in Seq(Shaped)
  BY DEF Emits
<1>2. \A k \in DOMAIN out : \A t \in out[k].ctx.iri : MadeBy(out, k - 1, t)
  BY DEF ClosedInv, ReadsMade
<1>3. ReadsMade'
  BY <1>1, <1>2, ReadsConcat DEF ReadsMade
<1>4. KeepsAll'
  BY <1>1 DEF ClosedInv, KeepsAll
<1>5. MadeStays'
  <2>1. ip \in 1 .. Len(out) + 1 /\ Len(out) \in Nat
    BY <1>1
  <2>2. \A j \in 1 .. ip - 1 : (out \o m)[j] = out[j]
    BY <1>1, <2>1
  <2>3. \A t : MadeBy(out \o m, ip - 1, t) => MadeBy(out, ip - 1, t)
    BY <2>2 DEF MadeBy
  <2> QED
    BY <2>3 DEF ClosedInv, MadeStays
<1>6. GraphClosed'
  BY DEF ClosedInv, GraphClosed
<1> QED
  BY <1>3, <1>4, <1>5, <1>6

\* A CREATE names IRIs in bnode_map and emits the INSERT that makes them.
LEMMA VisitCreateClosed ==
  ASSUME NoNodeDeleted, TypeInv, ClosedInv, VisitCreate
  PROVE  ClosedInv'
<1> DEFINE cl == query.cl[at]
           ctx == ContextOf(query.cl, at)
           new == NewVars(cl, ctx, bmap)
           list == CompileCreate(cl, ctx, bmap')
<1>1. at \in DOMAIN query.cl /\ query # NoQuery
  BY Walking DEF TypeInv, VisitCreate
<1>2. query.cl \in Seq(Clause) /\ \A i \in DOMAIN query.cl : Lowered(query.cl, i)
  BY <1>1, QueryFacts DEF TypeInv
<1>3. cl \in Clause /\ cl.c = "create" /\ Closed(cl.g)
  BY <1>1, <1>2 DEF VisitCreate, Lowered
<1>4. ctx \in Where /\ SourcesBound(ctx) /\ ctx.iri = {}
  BY <1>1, <1>2, ContextOfFacts
<1>5. bmap \in NodeMap /\ OneName(bmap) /\ out \in Seq(Shaped)
  BY DEF TypeInv, TypeOK
<1>6. PICK num \in [new -> DOMAIN StableIri] : bmap' = CreateMap(cl, ctx, bmap, num)
  BY DEF VisitCreate
<1>7. out' = out \o list /\ UNCHANGED <<ip, store>>
  BY DEF VisitCreate
<1> HIDE DEF cl, ctx, new
<1>8. /\ bmap' \in NodeMap /\ OneName(bmap') /\ bmap.iri \subseteq bmap'.iri
      /\ \A t \in bmap'.iri \ bmap.iri : ctx = NoWhere /\ t[1] \in cl.g.node
  BY <1>3, <1>4, <1>5, <1>6, CreateMapFacts DEF new
<1>9. /\ Emits(list, ctx.iri) /\ \A k \in DOMAIN list : Keeps(list[k])
      /\ \A t \in bmap'.iri : ctx = NoWhere /\ t[1] \in cl.g.node => \E k \in DOMAIN list : Makes(list[k], t)
  BY <1>3, <1>4, <1>8, CompileCreateFacts
<1> HIDE DEF list
<1>10. list \in Seq(Shaped)
  BY <1>9 DEF Emits
<1>11. NamesMade'
  <2> SUFFICES ASSUME NEW t \in bmap'.iri PROVE MadeBy(out \o list, Len(out \o list), t)
    BY <1>7 DEF NamesMade
  <2>1. Len(out) \in Nat /\ Len(out \o list) \in Nat /\ Len(out) <= Len(out \o list)
    BY <1>5, <1>10
  <2>2. CASE t \in bmap.iri
    <3>1. MadeBy(out, Len(out), t)
      BY <2>2 DEF ClosedInv, NamesMade, VisitCreate
    <3>2. MadeBy(out \o list, Len(out), t)
      BY <1>5, <1>10, <2>1, <3>1, MadeByConcat
    <3> QED
      BY <2>1, <3>2, MadeByMore
  <2>3. CASE t \notin bmap.iri
    <3>1. PICK k \in DOMAIN list : Makes(list[k], t)
      BY <1>8, <1>9, <2>3
    <3>2. Len(out) + k \in 1 .. Len(out \o list) /\ (out \o list)[Len(out) + k] = list[k]
      BY <1>5, <1>10
    <3> QED
      BY <3>1, <3>2 DEF MadeBy
  <2> QED
    BY <2>2, <2>3
<1>12. (ReadsMade /\ KeepsAll /\ MadeStays /\ GraphClosed)'
  BY <1>4, <1>5, <1>7, <1>9, ClosedAppend DEF TypeInv, TypeOK
<1> QED
  BY <1>11, <1>12 DEF ClosedInv

\* Any other clause emits statements that read IRIs the list makes before them.
LEMMA EmitClosed ==
  ASSUME NoNodeDeleted, TypeInv, ClosedInv, Emit
  PROVE  ClosedInv'
<1> DEFINE i == Head(waiting)
           list == OwnStatements(query.cl, i, bmap)
<1>1. i \in DOMAIN query.cl /\ query # NoQuery
  BY Walking DEF TypeInv, Emit
<1>2. query.cl \in Seq(Clause) /\ \A j \in DOMAIN query.cl : Lowered(query.cl, j)
  BY <1>1, QueryFacts DEF TypeInv
<1>3. bmap \in NodeMap /\ OwnSupported(query.cl, i, bmap)
  BY DEF TypeInv, TypeOK, Emit
<1>4. KeepingClause(query.cl, i)
  <2>1. KeepsNodes(query)
    BY <1>1 DEF NoNodeDeleted, TypeInv, TypeOK
  <2> QED
    BY <1>1, <2>1, KeepsClauses
<1>5. out' = out \o list /\ UNCHANGED <<ip, store, bmap, pc>> /\ pc = "walk"
  BY DEF Emit, client
<1> HIDE DEF i
<1>6. Emits(list, bmap.iri) /\ \A k \in DOMAIN list : Keeps(list[k])
  BY <1>1, <1>2, <1>3, <1>4, OwnFacts
<1> HIDE DEF list
<1>7. \A t \in bmap.iri : MadeBy(out, Len(out), t)
  BY <1>5 DEF ClosedInv, NamesMade
<1>8. (ReadsMade /\ KeepsAll /\ MadeStays /\ GraphClosed)'
  BY <1>5, <1>6, <1>7, ClosedAppend DEF TypeInv, TypeOK
<1>9. NamesMade'
  <2>1. list \in Seq(Shaped) /\ out \in Seq(Shaped)
    BY <1>6 DEF Emits, TypeInv
  <2>2. Len(out) \in Nat /\ Len(out \o list) \in Nat /\ Len(out) <= Len(out \o list)
    BY <2>1
  <2>3. \A t \in bmap.iri : MadeBy(out \o list, Len(out), t)
    BY <1>7, <2>1, <2>2, MadeByConcat
  <2>4. \A t \in bmap.iri : MadeBy(out \o list, Len(out \o list), t)
    BY <2>2, <2>3, MadeByMore
  <2> QED
    BY <1>5, <2>4 DEF NamesMade
<1> QED
  BY <1>8, <1>9 DEF ClosedInv

\* A statement finds the IRIs it reads in the store, and leaves the store closed.
LEMMA ExecuteClosed ==
  ASSUME NoNodeDeleted, TypeInv, ClosedInv, Execute
  PROVE  ClosedInv'
<1> DEFINE s == out[ip]
<1>1. PICK alloc \in Allocations(s, store) : store' = Apply(s, store, alloc)
  BY DEF Execute
<1>2. ip \in DOMAIN out /\ s \in Shaped /\ ip \in Nat /\ out \in Seq(Shaped)
  BY DEF TypeInv, TypeOK, Execute
<1>3. alloc \in [Wanted(s, store) -> Node]
  BY <1>1 DEF Allocations, Spare
<1>4. s \in Statement /\ EndsBound(s) /\ SourcesBound(s.ctx) /\ (s.s = "insert" => RowEnds(s))
  BY <1>2 DEF Shaped
<1>5. s.s \notin {"wipeOut", "wipeIn"}
  BY <1>2 DEF ClosedInv, KeepsAll, Keeps
<1>6. \A t \in s.ctx.iri : t[2] \in store.node
  BY <1>2 DEF ClosedInv, ReadsMade, MadeStays
<1>7. store \in Graph(Node) /\ Closed(store)
  BY DEF TypeInv, TypeOK, ClosedInv, GraphClosed
<1> HIDE DEF s
<1>8. Closed(store') /\ store'.node = store.node \cup Effect(s, store, alloc).ins.node
  BY <1>1, <1>3, <1>4, <1>5, <1>6, <1>7, ApplyClosed
<1>9. UNCHANGED <<out, bmap, pc>> /\ ip' = ip + 1
  BY DEF Execute, compile
<1>10. MadeStays'
  <2> SUFFICES ASSUME NEW t, NEW m \in 1 .. ip, Makes(out[m], t) PROVE t[2] \in store'.node
    BY <1>2, <1>9 DEF MadeStays, MadeBy
  <2>1. CASE m = ip
    <3>1. Makes(s, t)
      BY <2>1 DEF s
    <3> QED
      BY <1>4, <1>8, <3>1, MakesNode
  <2>2. CASE m # ip
    <3>1. m \in 1 .. ip - 1
      BY <1>2, <2>2
    <3>2. MadeBy(out, ip - 1, t)
      BY <3>1 DEF MadeBy
    <3> QED
      BY <1>8, <3>2 DEF ClosedInv, MadeStays
  <2> QED
    BY <2>1, <2>2
<1>11. NamesMade' /\ ReadsMade' /\ KeepsAll'
  BY <1>9 DEF ClosedInv, NamesMade, ReadsMade, KeepsAll
<1> QED
  BY <1>8, <1>10, <1>11 DEF ClosedInv, GraphClosed

\* Every step keeps the invariant.
LEMMA NextClosed == NoNodeDeleted /\ TypeInv /\ ClosedInv /\ [Next]_vars => ClosedInv'
<1> SUFFICES ASSUME NoNodeDeleted, TypeInv, ClosedInv, [Next]_vars PROVE ClosedInv'
  OBVIOUS
<1> USE DEF NamesMade, ReadsMade, KeepsAll, MadeStays, MadeBy, GraphClosed
<1>1. ASSUME out' = <<>>, ip' = 1, store' = store, bmap' = NoNodes \/ pc' # "walk" PROVE ClosedInv'
  BY <1>1 DEF ClosedInv, NoNodes
<1>2. ASSUME out' = out, ip' = ip, store' = store, pc' # "walk" \/ (bmap' = bmap /\ pc = "walk") PROVE ClosedInv'
  BY <1>2 DEF ClosedInv
<1>3. CASE Submit
  BY <1>1, <1>3 DEF Submit, Compile
<1>4. CASE VisitCreate
  BY <1>4, VisitCreateClosed
<1>5. CASE VisitWrite \/ VisitRead
  BY <1>2, <1>5 DEF VisitWrite, VisitRead
<1>6. CASE Emit
  BY <1>6, EmitClosed
<1>7. CASE Compiled
  BY <1>2, <1>7 DEF Compiled, compile
<1>8. CASE Unsupported
  BY <1>1, <1>8 DEF Unsupported
<1>9. CASE Execute
  BY <1>9, ExecuteClosed
<1>10. CASE Finish \/ Fail \/ GiveUp
  BY <1>2, <1>10 DEF Finish, Fail, GiveUp, compile
<1>11. CASE Retry
  BY <1>1, <1>11 DEF Retry, Compile
<1>12. CASE UNCHANGED vars
  BY <1>12 DEF vars, compile, ClosedInv
<1> QED
  BY <1>3, <1>4, <1>5, <1>6, <1>7, <1>8, <1>9, <1>10, <1>11, <1>12 DEF Next

\* Whatever the queries and the store, and wherever a failure cuts a list
\* short: if no query deletes a node and the store starts closed, no label,
\* property or relationship ever hangs from an identifier that is not a node
\* (compile_write_recursive, compile_create, compile_merge).
THEOREM StaysClosed ==
  ASSUME NoNodeDeleted
  PROVE  Spec => []GraphClosed
<1>1. Init => TypeInv /\ ClosedInv
  BY InitType, InitClosed
<1>2. TypeInv /\ ClosedInv /\ [Next]_vars => TypeInv' /\ ClosedInv'
  BY NextType, NextClosed
<1>3. ClosedInv => GraphClosed
  BY DEF ClosedInv
<1> QED
  BY <1>1, <1>2, <1>3, PTL DEF Spec

-----------------------------------------------------------------------------
(* A node MERGE finds what it has made *)

\* An INSERT adds the image of its template for every row it fires for, and
\* takes nothing away.
LEMMA InsertAdds ==
  ASSUME NEW s, s.s = "insert", NEW st, NEW alloc
  PROVE  LET new == Apply(s, st, alloc) IN
         /\ st.node \subseteq new.node /\ st.label \subseteq new.label /\ st.prop \subseteq new.prop
         /\ st.edge \subseteq new.edge /\ st.eprop \subseteq new.eprop
         /\ \A r \in Fires(s, st) :
              LET g == Image(s.tmpl, Assign(s, r, alloc)) IN
              /\ g.node \subseteq new.node /\ g.label \subseteq new.label /\ g.prop \subseteq new.prop
              /\ g.edge \subseteq new.edge /\ g.eprop \subseteq new.eprop
<1> DEFINE S == {Image(s.tmpl, Assign(s, r, alloc)) : r \in Fires(s, st)}
<1>1. Apply(s, st, alloc) = Patch(st, EmptyGraph, UnionOf(S))
  BY DEF Apply, Effect, Insert
<1>2. \A r \in Fires(s, st) : Image(s.tmpl, Assign(s, r, alloc)) \in S
  OBVIOUS
<1> HIDE DEF S
<1>3. \A g \in S : /\ g.node \subseteq UnionOf(S).node /\ g.label \subseteq UnionOf(S).label
                   /\ g.prop \subseteq UnionOf(S).prop /\ g.edge \subseteq UnionOf(S).edge
                   /\ g.eprop \subseteq UnionOf(S).eprop
  BY DEF UnionOf
<1> QED
  BY <1>1, <1>2, <1>3 DEF Patch, EmptyGraph

\* A pattern on one variable embeds in the image of a template that contains it.
LEMMA OwnImage ==
  ASSUME NEW p, NEW g, NEW v, Ids(p) = {v}, NEW f, v \in DOMAIN f, NEW st,
         NEW e, e[v] = f[v],
         p.node \subseteq g.node, p.label \subseteq g.label, p.prop \subseteq g.prop,
         p.edge \subseteq g.edge, p.eprop \subseteq g.eprop,
         Image(g, f).node \subseteq st.node, Image(g, f).label \subseteq st.label,
         Image(g, f).prop \subseteq st.prop, Image(g, f).edge \subseteq st.edge,
         Image(g, f).eprop \subseteq st.eprop
  PROVE  Embeds(p, e, st)
<1>1. \A w \in p.node : w = v
  BY DEF Ids
<1>2. \A t \in p.label : t[1] = v
  BY DEF Ids
<1>3. \A t \in p.prop : t[1] = v
  BY DEF Ids
<1>4. \A t \in p.edge : t[1] = v /\ t[3] = v
  BY DEF Ids
<1>5. \A t \in p.eprop : t[1] = v /\ t[3] = v
  BY DEF Ids
<1>6. \A w \in p.node : e[w] \in st.node
  BY <1>1 DEF Image
<1>7. \A t \in p.label : <<e[t[1]], t[2]>> \in st.label
  BY <1>2 DEF Image
<1>8. \A t \in p.prop : <<e[t[1]], t[2], t[3]>> \in st.prop
  BY <1>3 DEF Image
<1>9. \A t \in p.edge : <<e[t[1]], t[2], e[t[3]]>> \in st.edge
  BY <1>4 DEF Image
<1>10. \A t \in p.eprop : <<e[t[1]], t[2], e[t[3]], t[4], t[5]>> \in st.eprop
  BY <1>5 DEF Image
<1> QED
  BY <1>6, <1>7, <1>8, <1>9, <1>10 DEF Embeds

\* A pattern that blocks a row still does when triples are added.
LEMMA BlockedGrows ==
  ASSUME NEW p, NEW r, NEW st, NEW new, Blocked(p, r, st),
         st.node \subseteq new.node, st.label \subseteq new.label, st.prop \subseteq new.prop,
         st.edge \subseteq new.edge, st.eprop \subseteq new.eprop
  PROVE  Blocked(p, r, new)
<1>1. PICK e \in [Ids(p) -> Node] : /\ \A v \in Ids(p) \cap DOMAIN r : e[v] = r[v]
                                    /\ Embeds(p, e, st)
  BY DEF Blocked
<1>2. Embeds(p, e, new)
  BY <1>1 DEF Embeds
<1> QED
  BY <1>1, <1>2 DEF Blocked

\* After the INSERT of a node MERGE its pattern is found: by what was there, or
\* by the node just inserted, which carries all the pattern asks for.
LEMMA SettlesOnce ==
  ASSUME NEW s \in Statement, MergeShaped(s), s.s = "insert", s.fresh # {}, s.absent # EmptyGraph,
         NEW st, NEW alloc \in [Wanted(s, st) -> Node]
  PROVE  Fires(s, Apply(s, st, alloc)) = {}
<1> DEFINE new == Apply(s, st, alloc)
           f == Assign(s, NoRow, alloc)
<1>1. s \in Statement /\ MergeShaped(s)
  OBVIOUS
<1>2. s.ctx = NoWhere
  BY <1>1 DEF MergeShaped
<1>3. PICK v \in s.fresh : Ids(s.absent) = {v}
  BY <1>1 DEF MergeShaped
<1>4. SUFFICES Blocked(s.absent, NoRow, new)
  BY <1>2, EmptyRows DEF Fires
<1>5. CASE NoRow \in Fires(s, st)
  <2>1. v \in DOMAIN f
    BY DEF Assign
  <2>2. f[v] \in Node
    BY <1>1, <1>5, <2>1, AssignType
  <2> DEFINE e == [w \in {v} |-> f[v]]
  <2>3. /\ Image(s.tmpl, f).node \subseteq new.node /\ Image(s.tmpl, f).label \subseteq new.label
        /\ Image(s.tmpl, f).prop \subseteq new.prop /\ Image(s.tmpl, f).edge \subseteq new.edge
        /\ Image(s.tmpl, f).eprop \subseteq new.eprop
    BY <1>5, InsertAdds
  <2>4. /\ s.absent.node \subseteq s.tmpl.node /\ s.absent.label \subseteq s.tmpl.label
        /\ s.absent.prop \subseteq s.tmpl.prop /\ s.absent.edge \subseteq s.tmpl.edge
        /\ s.absent.eprop \subseteq s.tmpl.eprop
    BY <1>1 DEF MergeShaped
  <2> HIDE DEF new, f
  <2>5. e \in [Ids(s.absent) -> Node] /\ e[v] = f[v]
    BY <1>3, <2>2
  <2> HIDE DEF e
  <2>6. Embeds(s.absent, e, new)
    BY <1>3, <2>1, <2>3, <2>5, <2>4, OwnImage
  <2> QED
    BY <2>5, <2>6 DEF Blocked, NoRow
<1>6. CASE NoRow \notin Fires(s, st)
  <2>1. Blocked(s.absent, NoRow, st)
    BY <1>2, <1>6, EmptyRows DEF Fires
  <2> QED
    BY <2>1, InsertAdds, BlockedGrows
<1> QED
  BY <1>5, <1>6

\* MergeSettles is inductive once a list still being compiled has run nothing.
NotRunYet == pc = "walk" => ip = 1
SettleInv == NotRunYet /\ MergeSettles

\* Every step keeps it: only Execute runs a statement, and it is then the last one.
LEMMA NextSettles == TypeInv /\ SettleInv /\ [Next]_vars => SettleInv'
<1> SUFFICES ASSUME TypeInv, SettleInv, [Next]_vars PROVE SettleInv'
  OBVIOUS
<1> USE DEF SettleInv, NotRunYet
<1>1. ASSUME ip' = 1 \/ pc' = "idle" PROVE SettleInv'
  BY <1>1 DEF MergeSettles
<1>2. ASSUME pc \in {"run", "failed"}, pc' # "walk", UNCHANGED <<out, ip, store>> PROVE SettleInv'
  BY <1>2 DEF MergeSettles, Fires
<1>3. CASE Submit
  BY <1>1, <1>3 DEF Submit, Compile
<1>4. CASE VisitCreate \/ VisitWrite \/ VisitRead \/ Emit
  BY <1>1, <1>4 DEF VisitCreate, VisitWrite, VisitRead, Emit
<1>5. CASE Compiled
  BY <1>1, <1>5 DEF Compiled
<1>6. CASE Unsupported
  BY <1>1, <1>6 DEF Unsupported
<1>7. CASE Execute
  <2> DEFINE s == out[ip]
  <2>1. PICK alloc \in Allocations(s, store) : store' = Apply(s, store, alloc)
    BY <1>7 DEF Execute
  <2>2. s \in Shaped /\ ip \in Nat
    BY <1>7 DEF TypeInv, TypeOK, Execute
  <2>3. alloc \in [Wanted(s, store) -> Node]
    BY <2>1 DEF Allocations, Spare
  <2>4. ip' - 1 = ip /\ out' = out
    BY <1>7, <2>2 DEF Execute, compile
  <2>5. (s.s = "insert" /\ s.fresh # {} /\ s.absent # EmptyGraph) => Fires(s, store') = {}
    BY <2>1, <2>2, <2>3, SettlesOnce DEF Shaped
  <2>6. pc' = "run"
    BY <1>7 DEF Execute
  <2> QED
    BY <2>4, <2>5, <2>6 DEF MergeSettles
<1>8. CASE Finish \/ GiveUp
  BY <1>1, <1>8 DEF Finish, GiveUp
<1>9. CASE Fail
  BY <1>2, <1>9 DEF Fail, compile
<1>10. CASE Retry
  BY <1>1, <1>10 DEF Retry, Compile
<1>11. CASE UNCHANGED vars
  BY <1>11 DEF vars, compile, MergeSettles, Fires
<1> QED
  BY <1>3, <1>4, <1>5, <1>6, <1>7, <1>8, <1>9, <1>10, <1>11 DEF Next

\* Whatever the queries, the stores and the failures: the INSERT of a node
\* MERGE that has just run would do nothing if it ran again, also when ON
\* CREATE added to the node (compile_merge_node_scan).
THEOREM Settles == Spec => []MergeSettles
<1>1. Init => SettleInv
  BY DEF Init, MergeSettles, SettleInv, NotRunYet
<1>2. SettleInv => MergeSettles
  BY DEF SettleInv
<1> QED
  BY <1>1, <1>2, InitType, NextType, NextSettles, PTL DEF Spec
=============================================================================
