---------------------------- MODULE OutcomeProofs ----------------------------
(***************************************************************************)
(* What a query leaves is what it means: for every set of queries of one   *)
(* write clause (OneWriteEach), every store and every number of failures   *)
(* and repetitions, a list of statements that runs to its end is one step  *)
(* of CypherWrite.                                                         *)
(***************************************************************************)
EXTENDS WriteRefinement, WriteProofs, WellFoundedInduction

-----------------------------------------------------------------------------
(* The visible graph *)

\* What is visible of a store is a graph, with the same nodes, labels,
\* properties and relationships.
LEMMA VisibleFields ==
  ASSUME NEW st \in Graph(Node)
  PROVE  /\ Visible(st) \in Graph(Node)
         /\ Visible(st).node = st.node /\ Visible(st).label = st.label
         /\ Visible(st).prop = st.prop /\ Visible(st).edge = st.edge
         /\ Visible(st).eprop = {t \in st.eprop : <<t[1], t[2], t[3]>> \in st.edge}
         /\ Ids(Visible(st)) \subseteq Ids(st)
<1>1. /\ Visible(st).node = st.node /\ Visible(st).label = st.label
      /\ Visible(st).prop = st.prop /\ Visible(st).edge = st.edge
      /\ Visible(st).eprop = {t \in st.eprop : <<t[1], t[2], t[3]>> \in st.edge}
  BY DEF Visible, Graph
<1>2. Visible(st) \in Graph(Node)
  BY DEF Visible, Graph
<1> QED
  BY <1>1, <1>2 DEF Ids

\* Two graphs are the same if their five sets are.
LEMMA GraphEqual ==
  ASSUME NEW Id, NEW g \in Graph(Id), NEW h \in Graph(Id),
         g.node = h.node, g.label = h.label, g.prop = h.prop, g.edge = h.edge, g.eprop = h.eprop
  PROVE  g = h
  BY DEF Graph

\* A pattern that has the relationships it gives properties matches what is visible.
LEMMA VisibleEmbeds ==
  ASSUME NEW p \in Graph(Var), EdgesNamed(p), NEW st \in Graph(Node), NEW r
  PROVE  Embeds(p, r, st) <=> Embeds(p, r, Visible(st))
<1>1. ASSUME Embeds(p, r, st), NEW t \in p.eprop
      PROVE  <<r[t[1]], t[2], r[t[3]], t[4], t[5]>> \in Visible(st).eprop
  <2>1. <<r[t[1]], t[2], r[t[3]], t[4], t[5]>> \in st.eprop
    BY <1>1 DEF Embeds
  <2>2. <<r[t[1]], t[2], r[t[3]]>> \in st.edge
    <3>1. <<t[1], t[2], t[3]>> \in p.edge
      BY DEF EdgesNamed
    <3> QED
      BY <1>1, <3>1 DEF Embeds
  <2> QED
    BY <2>1, <2>2, VisibleFields
<1>2. ASSUME Embeds(p, r, st) PROVE Embeds(p, r, Visible(st))
  <2>1. \A t \in p.eprop : <<r[t[1]], t[2], r[t[3]], t[4], t[5]>> \in Visible(st).eprop
    BY <1>1, <1>2
  <2> QED
    BY <1>2, <2>1, VisibleFields DEF Embeds
<1>3. ASSUME Embeds(p, r, Visible(st)) PROVE Embeds(p, r, st)
  <2>1. Visible(st).eprop \subseteq st.eprop
    BY VisibleFields
  <2> QED
    BY <1>3, <2>1, VisibleFields DEF Embeds
<1> QED
  BY <1>2, <1>3

\* A WHERE of matched patterns only.
Plain(c) == c \in Where /\ c.opt = EmptyGraph /\ c.iri = {} /\ EdgesNamed(c.must)

\* Its rows bind the same variables, each of them.
LEMMA PlainRows ==
  ASSUME NEW c, Plain(c), NEW st
  PROVE  Rows(c, st) = Matches(c.must, MustVars(c), c, st) /\ WhereVars(c) = MustVars(c)
<1>1. Ids(EmptyGraph) = {}
  BY DEF Ids, EmptyGraph
<1> QED
  BY <1>1 DEF Plain, Rows, WhereVars

LEMMA VisibleRows ==
  ASSUME NEW c, Plain(c), NEW st \in Graph(Node)
  PROVE  Rows(c, Visible(st)) = Rows(c, st)
<1>1. c.must \in Graph(Var)
  BY DEF Plain, Where
<1>2. \A r : Embeds(c.must, r, st) <=> Embeds(c.must, r, Visible(st))
  BY <1>1, VisibleEmbeds DEF Plain
<1> QED
  BY <1>2, PlainRows DEF Matches

-----------------------------------------------------------------------------
(* Queries of one write clause *)

\* Joining graphs of one relationship discipline keeps it.
LEMMA UnionNamed ==
  ASSUME NEW S, \A g \in S : EdgesNamed(g)
  PROVE  EdgesNamed(UnionOf(S))
  BY DEF EdgesNamed, UnionOf

LEMMA UnionEmpty ==
  ASSUME NEW S, \A g \in S : g = EmptyGraph
  PROVE  UnionOf(S) = EmptyGraph
<1>1. \A g \in S : g.node = {} /\ g.label = {} /\ g.prop = {} /\ g.edge = {} /\ g.eprop = {}
  BY DEF EmptyGraph
<1>2. UNION {g.node : g \in S} = {} /\ UNION {g.label : g \in S} = {}
  BY <1>1
<1>3. UNION {g.prop : g \in S} = {} /\ UNION {g.edge : g \in S} = {} /\ UNION {g.eprop : g \in S} = {}
  BY <1>1
<1> QED
  BY <1>2, <1>3 DEF UnionOf, EmptyGraph

\* The clauses of such a query: those that read, and then the one that writes.
LEMMA Clauses ==
  ASSUME NEW q \in Query, OneClause(q)
  PROVE  LET n == Len(q.cl)
         IN /\ q.cl \in Seq(Clause) /\ \A i \in DOMAIN q.cl : Lowered(q.cl, i)
            /\ n \in Nat /\ n > 0 /\ n \in DOMAIN q.cl /\ q.cl[n] \in Clause
            /\ q.cl[n].c \in {"create", "set", "delete", "mergeNode", "mergeRel", "call"}
            /\ \A i \in 1 .. n - 1 : q.cl[i].c \in {"match", "with"} /\ q.cl[i] \in Clause
            /\ {i \in DOMAIN q.cl : ~ IsWrite(q.cl[i])} = 1 .. n - 1
<1> DEFINE n == Len(q.cl)
<1>1. q.cl \in Seq(Clause) /\ \A i \in DOMAIN q.cl : Lowered(q.cl, i)
  BY QueryAssumption
<1>2. n \in DOMAIN q.cl /\ IsWrite(q.cl[n]) /\ \A i \in DOMAIN q.cl : IsWrite(q.cl[i]) => i = n
  BY DEF OneClause, Writes
<1>3. n \in Nat /\ n > 0 /\ DOMAIN q.cl = 1 .. n /\ \A i \in DOMAIN q.cl : q.cl[i] \in Clause
  BY <1>1, <1>2
<1>4. q.cl[n].c \in {"create", "set", "delete", "mergeNode", "mergeRel", "call"}
  BY <1>2, <1>3 DEF IsWrite, Clause
<1>5. ASSUME NEW i \in 1 .. n - 1 PROVE q.cl[i].c \in {"match", "with"}
  <2>1. i \in DOMAIN q.cl /\ ~ IsWrite(q.cl[i])
    BY <1>2, <1>3, <1>5
  <2>2. q.cl[i].c # "optional"
    BY <2>1 DEF OneClause, Exact, ClauseExact
  <2> QED
    BY <2>1, <2>2 DEF IsWrite
<1>6. {i \in DOMAIN q.cl : ~ IsWrite(q.cl[i])} = 1 .. n - 1
  BY <1>2, <1>3, <1>5 DEF IsWrite
<1> QED
  BY <1>1, <1>2, <1>3, <1>4, <1>5, <1>6

\* The WHERE of the clause that writes has the rows of the query.
LEMMA Reading ==
  ASSUME NEW q \in Query, OneClause(q)
  PROVE  LET n == Len(q.cl) ctx == ContextOf(q.cl, n)
         IN /\ ctx = WhereParts(q.cl, 1 .. n - 1)
            /\ Plain(ctx) /\ SourcesBound(ctx)
            /\ MatchVars(q.cl) \cup Aliases(q.cl) \subseteq MustVars(ctx)
            /\ \A g : Table(q, g) = Rows(ctx, g)
<1> DEFINE n == Len(q.cl)
           ctx == ContextOf(q.cl, n)
<1>1. /\ q.cl \in Seq(Clause) /\ \A i \in DOMAIN q.cl : Lowered(q.cl, i)
      /\ n \in Nat /\ n > 0 /\ n \in DOMAIN q.cl /\ DOMAIN q.cl = 1 .. n
      /\ \A i \in 1 .. n - 1 : q.cl[i].c \in {"match", "with"} /\ q.cl[i] \in Clause
      /\ {i \in DOMAIN q.cl : ~ IsWrite(q.cl[i])} = 1 .. n - 1
      /\ q.cl[n].c \in {"create", "set", "delete", "mergeNode", "mergeRel", "call"}
  BY Clauses
<1>2. ReadContext(q.cl, n - 1) = 1 .. n - 1
  BY <1>1 DEF ReadContext, IsWrite
<1>3. ctx = WhereParts(q.cl, 1 .. n - 1)
  BY <1>2 DEF ContextOf
<1>4. ctx \in Where /\ SourcesBound(ctx) /\ ctx.iri = {}
  BY <1>1, ContextOfFacts
<1>5. \A i \in 1 .. n - 1 : OptPart(q.cl[i]) = EmptyGraph
  BY <1>1 DEF OptPart
<1>6. ctx.opt = EmptyGraph
  BY <1>3, <1>5, UnionEmpty DEF WhereParts
<1>7. \A i \in 1 .. n - 1 : EdgesNamed(MustPart(q.cl[i]))
  BY <1>1 DEF MustPart, Lowered, EdgesNamed, EmptyGraph
<1>8. EdgesNamed(ctx.must)
  BY <1>3, <1>7, UnionNamed DEF WhereParts
<1>9. MatchVars(q.cl) \subseteq MustVars(ctx)
  <2> SUFFICES ASSUME NEW i \in DOMAIN q.cl, q.cl[i].c = "match" PROVE Ids(q.cl[i].p) \subseteq MustVars(ctx)
    BY DEF MatchVars
  <2>1. i \in 1 .. n - 1
    BY <1>1
  <2>2. q.cl[i].p \in {MustPart(q.cl[j]) : j \in 1 .. n - 1}
    BY <2>1 DEF MustPart
  <2>3. ctx.must = UnionOf({MustPart(q.cl[j]) : j \in 1 .. n - 1})
    BY <1>3 DEF WhereParts
  <2>4. Ids(q.cl[i].p) \subseteq Ids(ctx.must)
    BY <2>2, <2>3, UnionOfIds
  <2> QED
    BY <2>4 DEF MustVars
<1>10. Aliases(q.cl) \subseteq MustVars(ctx)
  <2> SUFFICES ASSUME NEW i \in DOMAIN q.cl, NEW t \in Renames(q.cl[i]) PROVE t[2] \in MustVars(ctx)
    BY DEF Aliases
  <2>1. i \in 1 .. n - 1
    BY <1>1 DEF Renames
  <2>2. t \in ctx.same
    BY <1>3, <2>1 DEF WhereParts
  <2> QED
    BY <2>2 DEF MustVars
<1>11. \A g : Table(q, g) = Rows(ctx, g)
  BY <1>1, <1>3 DEF Table
<1> QED
  BY <1>3, <1>4, <1>6, <1>8, <1>9, <1>10, <1>11 DEF Plain

-----------------------------------------------------------------------------
(* What the query means *)

\* A set of numbers has a least one.
LEMMA Least ==
  ASSUME NEW S \in SUBSET Nat, S # {}
  PROVE  \E m \in S : \A k \in S : m <= k
<1> DEFINE R == OpToRel(<, Nat)
<1>1. IsWellFoundedOn(R, Nat)
  BY NatLessThanWellFounded
<1>2. \A x, y \in Nat : x < y => <<x, y>> \in R
  BY DEF OpToRel
<1> HIDE DEF R
<1>3. PICK x \in S : \A y \in S : ~ (<<y, x>> \in R)
  BY <1>1, WFMin, Zenon
<1>4. \A k \in S : k \in Nat /\ x \in Nat /\ ~ (k < x)
  <2>1. \A k \in S : k \in Nat /\ x \in Nat
    OBVIOUS
  <2> QED
    BY <1>2, <1>3, <2>1, Zenon
<1> QED
  <2>1. \A a, b \in Nat : ~ (a < b) => b <= a
    OBVIOUS
  <2> QED
    BY <1>4, <2>1, Zenon

\* Clauses that read change nothing, so the meaning of the query is that of its
\* last clause, on the graph it was asked on.
LEMMA LastClause ==
  ASSUME NEW q \in Query, OneClause(q), NEW g, NEW new
  PROVE  Course(q, g, new)[Len(q.cl)] = Do(q, g, new, g, Len(q.cl))
<1> DEFINE n == Len(q.cl)
           F == Course(q, g, new)
           Step(f, j) == Do(q, g, new, f[j - 1], j)
           w == [j \in 0 .. n |-> IF j < n THEN g ELSE Do(q, g, new, g, n)]
<1>1. n \in Nat /\ n > 0 /\ \A j \in 1 .. n - 1 : q.cl[j].c \in {"match", "with"}
  BY Clauses
<1>2. \A h : \A j \in 1 .. n - 1 : Do(q, g, new, h, j) = h
  BY <1>1 DEF Do
<1>3. F = CHOOSE f : f = [j \in 0 .. n |-> IF j = 0 THEN g ELSE Step(f, j)]
  BY DEF Course
<1> HIDE DEF F
<1>4. w = [j \in 0 .. n |-> IF j = 0 THEN g ELSE Step(w, j)]
  <2>1. ASSUME NEW j \in 0 .. n PROVE w[j] = IF j = 0 THEN g ELSE Step(w, j)
    <3>1. CASE j = 0
      BY <1>1, <3>1
    <3>2. CASE j \in 1 .. n - 1
      BY <1>1, <1>2, <3>2
    <3>3. CASE j = n
      BY <1>1, <3>3
    <3> QED
      BY <1>1, <3>1, <3>2, <3>3
  <2> QED
    BY <2>1
<1>5. F = [j \in 0 .. n |-> IF j = 0 THEN g ELSE Step(F, j)]
  BY <1>3, <1>4
<1>6. F[0] = g /\ \A j \in 1 .. n : F[j] = Do(q, g, new, F[j - 1], j)
  BY <1>1, <1>5
<1>7. \A j \in 0 .. n - 1 : F[j] = g
  <2> DEFINE S == {j \in 0 .. n - 1 : F[j] # g}
  <2>1. SUFFICES ASSUME S # {} PROVE FALSE
    OBVIOUS
  <2>0. S \in SUBSET Nat
    BY <1>1
  <2> HIDE DEF S
  <2>2. PICK m \in S : \A k \in S : m <= k
    BY <2>0, <2>1, Least
  <2> USE DEF S
  <2>3. m \in 1 .. n - 1 /\ m - 1 \in 0 .. n - 1
    BY <1>1, <1>6
  <2>4. F[m - 1] = g
    BY <2>2, <2>3
  <2> QED
    BY <1>1, <1>2, <1>6, <2>3, <2>4
<1>8. F[n] = Do(q, g, new, g, n)
  BY <1>1, <1>6, <1>7
<1> QED
  BY <1>8 DEF F

\* Every choice of new nodes leads to an outcome.
LEMMA OutcomeOf ==
  ASSUME NEW q \in Query, OneClause(q), NEW g, NEW new \in NewNodes(q, g)
  PROVE  Do(q, g, new, g, Len(q.cl)) \in Outcomes(q, g)
  BY LastClause DEF Outcomes

-----------------------------------------------------------------------------
(* Insertions *)

\* Hidden property triples are of the types T.
Shown(st, T) == \A t \in st.eprop : <<t[1], t[2], t[3]>> \in st.edge \/ t[2] \in T

\* What is inserted is added to what is visible, if it makes no relationship of
\* those types and gives properties only with their relationships.
LEMMA VisibleInsert ==
  ASSUME NEW st \in Graph(Node), NEW ins \in Graph(Node), EdgesNamed(ins),
         NEW T, Shown(st, T), \A t \in ins.edge : t[2] \notin T
  PROVE  /\ Visible(Patch(st, EmptyGraph, ins)) = Both(Visible(st), ins)
         /\ Shown(Patch(st, EmptyGraph, ins), T)
<1> DEFINE new == Patch(st, EmptyGraph, ins)
<1>1. /\ new.node = st.node \cup ins.node /\ new.label = st.label \cup ins.label
      /\ new.prop = st.prop \cup ins.prop /\ new.edge = st.edge \cup ins.edge
      /\ new.eprop = st.eprop \cup ins.eprop
  BY DEF Patch, EmptyGraph
<1>2. new \in Graph(Node) /\ Both(Visible(st), ins) \in Graph(Node)
  BY PatchType, BothType, VisibleFields
<1> HIDE DEF new
<1>3. \A t \in st.eprop : <<t[1], t[2], t[3]>> \in st.edge \cup ins.edge => <<t[1], t[2], t[3]>> \in st.edge
  BY DEF Shown
<1>4. \A t \in ins.eprop : <<t[1], t[2], t[3]>> \in ins.edge
  BY DEF EdgesNamed
<1>5. Visible(new).eprop = Visible(st).eprop \cup ins.eprop
  BY <1>1, <1>2, <1>3, <1>4, VisibleFields
<1>6. Visible(new) = Both(Visible(st), ins)
  <2>1. /\ Both(Visible(st), ins).node = st.node \cup ins.node
        /\ Both(Visible(st), ins).label = st.label \cup ins.label
        /\ Both(Visible(st), ins).prop = st.prop \cup ins.prop
        /\ Both(Visible(st), ins).edge = st.edge \cup ins.edge
        /\ Both(Visible(st), ins).eprop = Visible(st).eprop \cup ins.eprop
    BY VisibleFields DEF Both
  <2>2. /\ Visible(new).node = new.node /\ Visible(new).label = new.label
        /\ Visible(new).prop = new.prop /\ Visible(new).edge = new.edge
        /\ Visible(new) \in Graph(Node)
    BY <1>2, VisibleFields
  <2> QED
    BY <1>1, <1>2, <1>5, <2>1, <2>2, GraphEqual
<1>7. Shown(new, T)
  BY <1>1, <1>4 DEF Shown
<1> QED
  BY <1>6, <1>7 DEF new

\* The image of a template has the relationships it gives properties, and only
\* types the template has.
LEMMA ImageNamed ==
  ASSUME NEW g, EdgesNamed(g), NEW f
  PROVE  /\ EdgesNamed(Image(g, f))
         /\ \A t \in Image(g, f).edge : \E u \in g.edge : u[2] = t[2]
<1> DEFINE B == DOMAIN f
<1>1. ASSUME NEW t \in Image(g, f).eprop PROVE <<t[1], t[2], t[3]>> \in Image(g, f).edge
  <2>1. PICK u \in g.eprop : u[1] \in B /\ u[3] \in B /\ t = <<f[u[1]], u[2], f[u[3]], u[4], u[5]>>
    BY DEF Image
  <2>2. <<u[1], u[2], u[3]>> \in g.edge
    BY DEF EdgesNamed
  <2>3. <<f[u[1]], u[2], f[u[3]]>> \in Image(g, f).edge
    BY <2>1, <2>2 DEF Image
  <2> QED
    BY <2>1, <2>3
<1> QED
  BY <1>1 DEF EdgesNamed, Image

\* Adding several graphs to one is adding their union.
LEMMA UnionAdds ==
  ASSUME NEW g, NEW S
  PROVE  UnionOf({g} \cup S) = Both(g, UnionOf(S))
<1>1. /\ UNION {h.node : h \in {g} \cup S} = g.node \cup UNION {h.node : h \in S}
      /\ UNION {h.label : h \in {g} \cup S} = g.label \cup UNION {h.label : h \in S}
      /\ UNION {h.prop : h \in {g} \cup S} = g.prop \cup UNION {h.prop : h \in S}
  OBVIOUS
<1>2. /\ UNION {h.edge : h \in {g} \cup S} = g.edge \cup UNION {h.edge : h \in S}
      /\ UNION {h.eprop : h \in {g} \cup S} = g.eprop \cup UNION {h.eprop : h \in S}
  OBVIOUS
<1> QED
  BY <1>1, <1>2 DEF UnionOf, Both

\* An INSERT adds the images of its template, one for each row it fires for.
LEMMA InsertVisible ==
  ASSUME NEW s \in Shaped, s.s = "insert", EdgesNamed(s.tmpl), NEW st \in Graph(Node),
         NEW T, Shown(st, T), \A t \in s.tmpl.edge : t[2] \notin T,
         NEW alloc \in [Wanted(s, st) -> Node]
  PROVE  /\ Visible(Apply(s, st, alloc)) =
              UnionOf({Visible(st)} \cup {Image(s.tmpl, Assign(s, r, alloc)) : r \in Fires(s, st)})
         /\ Shown(Apply(s, st, alloc), T)
<1> DEFINE S == {Image(s.tmpl, Assign(s, r, alloc)) : r \in Fires(s, st)}
           ins == UnionOf(S)
<1>1. Apply(s, st, alloc) = Patch(st, EmptyGraph, ins)
  BY DEF Apply, Effect, Insert
<1>2. ins \in Graph(Node)
  <2>1. s \in Statement
    BY DEF Shaped
  <2>2. Insert(s, st, alloc).ins = ins
    BY DEF Insert
  <2> QED
    BY <2>1, <2>2, InsertType
<1>3. \A g \in S : EdgesNamed(g) /\ \A t \in g.edge : t[2] \notin T
  BY ImageNamed
<1> HIDE DEF S
<1>4. EdgesNamed(ins)
  BY <1>3, UnionNamed
<1>5. \A t \in ins.edge : t[2] \notin T
  BY <1>3 DEF UnionOf
<1> HIDE DEF ins
<1>6. UnionOf({Visible(st)} \cup S) = Both(Visible(st), ins)
  BY UnionAdds DEF ins
<1> QED
  BY <1>1, <1>2, <1>4, <1>5, <1>6, VisibleInsert DEF S

-----------------------------------------------------------------------------
(* CREATE *)

\* The rows of a plain WHERE bind what it names, to nodes of the store.
LEMMA PlainRow ==
  ASSUME NEW c, Plain(c), NEW st, NEW r \in Rows(c, st)
  PROVE  DOMAIN r = WhereVars(c) /\ r \in [WhereVars(c) -> Node]
  BY PlainRows DEF Matches

\* Nothing forbids an INSERT that asks for nothing to be absent.
LEMMA FiresAlways ==
  ASSUME NEW s, s.absent = EmptyGraph, NEW st
  PROVE  Fires(s, st) = Rows(s.ctx, st)
  BY DEF Fires, Blocked

\* What compile_create makes of bnode_map for the one CREATE of a query, whatever
\* the counter: a blank node for each new variable.
Mapped(cl, ctx) ==
  [iri |-> {}, blank |-> cl.g.node \ WhereVars(ctx), row |-> cl.g.node \cap WhereVars(ctx)]

\* Its template is the one the query means, once there is a row.
LEMMA SameTemplate ==
  ASSUME NEW g \in Graph(Var), Closed(g), NEW W
  PROVE  CreateTemplate(g, g.node \cap W) = CreateTemplate(g, Var \ (g.node \ W))
<1>1. g.node \subseteq Var /\ (\A t \in g.label : t[1] \in g.node) /\ \A t \in g.prop : t[1] \in g.node
  BY DEF Closed, Ids, Graph
<1>2. g.node \ (g.node \cap W) = g.node \ (Var \ (g.node \ W))
  BY <1>1
<1>3. {t \in g.label : t[1] \notin g.node \cap W} = {t \in g.label : t[1] \notin Var \ (g.node \ W)}
  BY <1>1
<1>4. {t \in g.prop : t[1] \notin g.node \cap W} = {t \in g.prop : t[1] \notin Var \ (g.node \ W)}
  BY <1>1
<1> QED
  BY <1>2, <1>3, <1>4 DEF CreateTemplate

\* A row with the nodes made for it is the row the clause acts on.
LEMMA SameBinding ==
  ASSUME NEW s, s.iri = {}, NEW R, NEW r \in R, s.fresh \cap DOMAIN r = {},
         NEW alloc, DOMAIN alloc = R \X s.fresh
  PROVE  Assign(s, r, alloc) = Bind(r, alloc)
<1>1. {t[2] : t \in {u \in DOMAIN alloc : u[1] = r}} = s.fresh
  <2>1. \A v \in s.fresh : <<r, v>> \in DOMAIN alloc /\ <<r, v>>[1] = r /\ <<r, v>>[2] = v
    OBVIOUS
  <2>2. \A u \in DOMAIN alloc : u[2] \in s.fresh
    OBVIOUS
  <2>3. \A v \in s.fresh : v \in {t[2] : t \in {u \in DOMAIN alloc : u[1] = r}}
    BY <2>1, Zenon
  <2> QED
    BY <2>2, <2>3
<1>2. {t[1] : t \in s.iri} = {}
  OBVIOUS
<1>3. Assign(s, r, alloc) = [v \in s.fresh \cup DOMAIN r |-> IF v \in s.fresh THEN alloc[<<r, v>>] ELSE r[v]]
  BY <1>2 DEF Assign
<1>4. Bind(r, alloc) = [v \in DOMAIN r \cup s.fresh |-> IF v \in DOMAIN r THEN r[v] ELSE alloc[<<r, v>>]]
  BY <1>1 DEF Bind
<1> QED
  BY <1>3, <1>4

\* The nodes a CREATE makes are a choice the query allows.
LEMMA CreateWants ==
  ASSUME NEW q \in Query, OneClause(q), q.cl[Len(q.cl)].c = "create", NEW g
  PROVE  LET cl == q.cl[Len(q.cl)]
             ctx == ContextOf(q.cl, Len(q.cl))
             wanted == Rows(ctx, g) \X (cl.g.node \ WhereVars(ctx))
         IN NewNodes(q, g) = {f \in [wanted -> Node \ Ids(g)] : \A x, y \in wanted : f[x] = f[y] => x = y}
<1> DEFINE n == Len(q.cl)
           cl == q.cl[n]
           ctx == ContextOf(q.cl, n)
           wanted == {t \in Table(q, g) \X (Created(q) \cup Merged(q, g)) : t[2] \notin DOMAIN t[1]}
<1>1. n \in DOMAIN q.cl /\ \A i \in DOMAIN q.cl : i # n => q.cl[i].c \in {"match", "with"}
  BY Clauses
<1>2. Created(q) = cl.g.node
  BY <1>1 DEF Created
<1>3. Merged(q, g) = {}
  BY <1>1 DEF Merged
<1>4. Table(q, g) = Rows(ctx, g) /\ Plain(ctx)
  BY Reading
<1>5. \A r \in Rows(ctx, g) : DOMAIN r = WhereVars(ctx)
  BY <1>4, PlainRow
<1> HIDE DEF ctx
<1>6. wanted = Rows(ctx, g) \X (cl.g.node \ WhereVars(ctx))
  BY <1>2, <1>3, <1>4, <1>5
<1> QED
  BY <1>6 DEF NewNodes, ctx

\* A list of at most one statement, run on a store st that hides only triples of
\* the types T, leaves what the query q means and hides no others.
Means(q, list, T) ==
  \/ list = <<>> /\ \A st \in Graph(Node) : Visible(st) \in Outcomes(q, Visible(st))
  \/ /\ Len(list) = 1
     /\ \A st \in Graph(Node) : Shown(st, T) =>
          \A alloc \in Allocations(list[1], st) :
            /\ Visible(Apply(list[1], st, alloc)) \in Outcomes(q, Visible(st))
            /\ Shown(Apply(list[1], st, alloc), T)

\* Adding nothing changes nothing.
LEMMA BothNothing ==
  ASSUME NEW Id, NEW g \in Graph(Id)
  PROVE  Both(g, EmptyGraph) = g
<1>1. Both(g, EmptyGraph) \in Graph(Id)
  BY BothType, EmptyGraphType
<1> QED
  BY <1>1, GraphEqual DEF Both, EmptyGraph

LEMMA UnionNothing ==
  ASSUME NEW Id, NEW g \in Graph(Id), NEW S, \A h \in S : h = EmptyGraph
  PROVE  UnionOf({g} \cup S) = g
<1>1. UnionOf(S) = EmptyGraph
  BY UnionEmpty
<1>2. UnionOf({g} \cup S) = Both(g, EmptyGraph)
  BY <1>1, UnionAdds
<1> QED
  BY <1>2, BothNothing

LEMMA UnionOne ==
  ASSUME NEW Id, NEW g \in Graph(Id)
  PROVE  UnionOf({g}) = g
<1>1. /\ UnionOf({g}).node = g.node /\ UnionOf({g}).label = g.label /\ UnionOf({g}).prop = g.prop
      /\ UnionOf({g}).edge = g.edge /\ UnionOf({g}).eprop = g.eprop
  BY DEF UnionOf
<1>2. UnionOf({g}) \in Graph(Id)
  <2>1. \A h \in {g} : h \in Graph(Id)
    OBVIOUS
  <2> QED
    BY <1>1 DEF Graph, UnionOf
<1> QED
  BY <1>1, <1>2, GraphEqual

LEMMA ImageEmpty ==
  ASSUME NEW f
  PROVE  Image(EmptyGraph, f) = EmptyGraph
  BY DEF Image, EmptyGraph

\* What the clause adds, in terms of the template of the statement.
LEMMA CreateDoes ==
  ASSUME NEW q \in Query, OneClause(q), q.cl[Len(q.cl)].c = "create", NEW g, NEW new
  PROVE  LET cl == q.cl[Len(q.cl)]
             ctx == ContextOf(q.cl, Len(q.cl))
             tmpl == CreateTemplate(cl.g, cl.g.node \cap WhereVars(ctx))
         IN Do(q, g, new, g, Len(q.cl)) =
              UnionOf({g} \cup {Image(tmpl, Bind(r, new)) : r \in Rows(ctx, g)})
<1> DEFINE n == Len(q.cl)
           cl == q.cl[n]
           ctx == ContextOf(q.cl, n)
           R == Rows(ctx, g)
           tmpl == CreateTemplate(cl.g, cl.g.node \cap WhereVars(ctx))
           fresh == {v \in cl.g.node : \E r \in Table(q, g) : v \notin DOMAIN r}
           B == {Bind(r, new) : r \in Table(q, g)}
<1>1. cl.g \in Graph(Var) /\ Closed(cl.g)
  <2>1. cl \in Clause /\ Lowered(q.cl, n)
    BY Clauses
  <2> QED
    BY <2>1 DEF Clause, Lowered
<1>2. Plain(ctx) /\ Table(q, g) = R
  BY Reading
<1>3. \A r \in R : DOMAIN r = WhereVars(ctx)
  BY <1>2, PlainRow
<1>4. R # {} => fresh = cl.g.node \ WhereVars(ctx)
  BY <1>2, <1>3
<1> HIDE DEF ctx, R
<1>5. R # {} => CreateTemplate(cl.g, Var \ fresh) = tmpl
  BY <1>1, <1>4, SameTemplate
<1> HIDE DEF tmpl, fresh
<1>6. {Image(CreateTemplate(cl.g, Var \ fresh), b) : b \in B} = {Image(tmpl, Bind(r, new)) : r \in R}
  BY <1>2, <1>5
<1>7. Do(q, g, new, g, n) = UnionOf({g} \cup {Image(CreateTemplate(cl.g, Var \ fresh), b) : b \in B})
  BY DEF Do, fresh
<1> QED
  BY <1>6, <1>7 DEF R, ctx, tmpl

\* The INSERT of a CREATE is what the clause means.
LEMMA CreateMeans ==
  ASSUME NEW q \in Query, OneClause(q), q.cl[Len(q.cl)].c = "create",
         NEW T, \A x \in Linked(q.cl[Len(q.cl)]) : x \notin T
  PROVE  LET cl == q.cl[Len(q.cl)]
             ctx == ContextOf(q.cl, Len(q.cl))
         IN Means(q, CompileCreate(cl, ctx, Mapped(cl, ctx)), T)
<1> DEFINE n == Len(q.cl)
           cl == q.cl[n]
           ctx == ContextOf(q.cl, n)
           W == WhereVars(ctx)
           new == cl.g.node \ W
           a == Mapped(cl, ctx)
           tmpl == CreateTemplate(cl.g, cl.g.node \cap W)
           s == [s |-> "insert", ctx |-> ctx, absent |-> EmptyGraph, tmpl |-> tmpl,
                 fresh |-> a.blank \cap Ids(tmpl), iri |-> {t \in a.iri : t[1] \in Ids(tmpl)}]
           list == CompileCreate(cl, ctx, a)
<1>1. cl \in Clause /\ cl.g \in Graph(Var) /\ Closed(cl.g) /\ EdgesNamed(cl.g)
  <2>1. cl \in Clause /\ Lowered(q.cl, n)
    BY Clauses
  <2> QED
    BY <2>1 DEF Clause, Lowered
<1>2. Plain(ctx) /\ SourcesBound(ctx) /\ ctx \in Where
  BY Reading DEF Plain
<1>3. a = [iri |-> {}, blank |-> new, row |-> cl.g.node \cap W] /\ a \in NodeMap /\ OneName(a)
  <2>1. cl.g.node \subseteq Var
    BY <1>1 DEF Graph
  <2> HIDE DEF ctx
  <2> QED
    BY <2>1 DEF Mapped, NodeMap, OneName
<1>4. tmpl.node = new /\ tmpl.edge = cl.g.edge /\ tmpl.eprop = cl.g.eprop
  BY <1>1 DEF CreateTemplate, Graph
<1>5. s.fresh = new /\ s.iri = {}
  <2> HIDE DEF tmpl, ctx
  <2>1. new \subseteq Ids(tmpl)
    BY <1>4 DEF Ids
  <2>2. a.blank = new /\ a.iri = {}
    BY <1>3
  <2> HIDE DEF a, new
  <2> QED
    BY <2>1, <2>2
<1>6. list = IF tmpl = EmptyGraph THEN <<>> ELSE <<s>>
  BY <1>3 DEF CompileCreate
<1>9. \A g, f : Do(q, g, f, g, n) = UnionOf({g} \cup {Image(tmpl, Bind(r, f)) : r \in Rows(ctx, g)})
  BY CreateDoes
<1>10. \A g : NewNodes(q, g) = {f \in [Rows(ctx, g) \X new -> Node \ Ids(g)] :
                                  \A x, y \in Rows(ctx, g) \X new : f[x] = f[y] => x = y}
  BY CreateWants
<1>7. CASE tmpl = EmptyGraph
  <2> SUFFICES ASSUME NEW st \in Graph(Node) PROVE Visible(st) \in Outcomes(q, Visible(st))
    BY <1>6, <1>7 DEF Means
  <2> DEFINE g == Visible(st)
             R == Rows(ctx, g)
             none == [x \in {} |-> x]
  <2>1. new = {}
    BY <1>4, <1>7 DEF EmptyGraph
  <2>2. R \X new = {}
    BY <2>1
  <2>3. none \in [R \X new -> Node \ Ids(g)] /\ \A x, y \in R \X new : none[x] = none[y] => x = y
    BY <2>2
  <2>4. none \in NewNodes(q, g)
    BY <1>10, <2>3
  <2>5. \A h \in {Image(tmpl, Bind(r, none)) : r \in R} : h = EmptyGraph
    BY <1>7, ImageEmpty
  <2>6. Do(q, g, none, g, n) = g
    <3>1. Do(q, g, none, g, n) = UnionOf({g} \cup {Image(tmpl, Bind(r, none)) : r \in R})
      BY <1>9
    <3>2. g \in Graph(Node)
      BY VisibleFields
    <3> HIDE DEF g, R, none, tmpl
    <3> QED
      BY <2>5, <3>1, <3>2, UnionNothing
  <2> QED
    BY <2>4, <2>6, OutcomeOf
<1>8. CASE tmpl # EmptyGraph
  <2>1. list = <<s>> /\ Len(list) = 1 /\ list[1] = s
    <3> HIDE DEF s, list, tmpl
    <3>1. list = <<s>>
      BY <1>6, <1>8
    <3> QED
      BY <3>1
  <2>2. s \in Shaped
    <3>1. Emits(list, ctx.iri)
      BY <1>1, <1>2, <1>3, CompileCreateFacts
    <3> HIDE DEF s
    <3> QED
      BY <2>1, <3>1 DEF Emits
  <2> SUFFICES ASSUME NEW st \in Graph(Node), Shown(st, T), NEW alloc \in Allocations(s, st)
               PROVE  Visible(Apply(s, st, alloc)) \in Outcomes(q, Visible(st)) /\ Shown(Apply(s, st, alloc), T)
    BY <2>1 DEF Means
  <2> DEFINE g == Visible(st)
             R == Rows(ctx, g)
  <2>3. s.s = "insert" /\ s.ctx = ctx /\ s.tmpl = tmpl /\ s.absent = EmptyGraph
    OBVIOUS
  <2> HIDE DEF s, tmpl, ctx
  <2>4. Fires(s, st) = R
    BY <1>2, <2>3, FiresAlways, VisibleRows
  <2>5. Wanted(s, st) = R \X new
    BY <1>5, <2>3, <2>4 DEF Wanted
  <2>6. alloc \in [R \X new -> Spare(st)] /\ \A x, y \in R \X new : alloc[x] = alloc[y] => x = y
    BY <2>5 DEF Allocations
  <2>7. Spare(st) \subseteq Node \ Ids(g)
    BY VisibleFields DEF Spare
  <2>8. alloc \in NewNodes(q, g)
    <3>1. alloc \in [R \X new -> Node \ Ids(g)]
      BY <2>6, <2>7
    <3> QED
      <4>1. NewNodes(q, g) = {f \in [R \X new -> Node \ Ids(g)] : \A x, y \in R \X new : f[x] = f[y] => x = y}
        BY <1>10
      <4> HIDE DEF R, new, g
      <4> QED
        BY <2>6, <3>1, <4>1
  <2>9. \A r \in R : DOMAIN r = W
    BY <1>2, PlainRow
  <2>10. \A r \in R : Assign(s, r, alloc) = Bind(r, alloc)
    <3> SUFFICES ASSUME NEW r \in R PROVE Assign(s, r, alloc) = Bind(r, alloc)
      OBVIOUS
    <3>1. s.iri = {} /\ s.fresh \cap DOMAIN r = {} /\ DOMAIN alloc = R \X s.fresh
      BY <1>5, <2>6, <2>9
    <3> HIDE DEF R, g, new, W
    <3> QED
      BY <3>1, SameBinding, ZenonT(60)
  <2>11. {Image(tmpl, Bind(r, alloc)) : r \in R} = {Image(s.tmpl, Assign(s, r, alloc)) : r \in Fires(s, st)}
    BY <2>3, <2>4, <2>10
  <2>12. Do(q, g, alloc, g, n) = UnionOf({g} \cup {Image(tmpl, Bind(r, alloc)) : r \in R})
    BY <1>9
  <2>13. EdgesNamed(s.tmpl) /\ \A t \in s.tmpl.edge : t[2] \notin T
    BY <1>1, <1>4, <2>3 DEF EdgesNamed, Linked
  <2>14. alloc \in [Wanted(s, st) -> Node]
    BY <2>5, <2>6 DEF Spare
  <2>15. Visible(Apply(s, st, alloc)) = Do(q, g, alloc, g, n) /\ Shown(Apply(s, st, alloc), T)
    BY <2>2, <2>3, <2>11, <2>12, <2>13, <2>14, InsertVisible
  <2> QED
    BY <2>8, <2>15, OutcomeOf
<1> QED
  BY <1>7, <1>8

-----------------------------------------------------------------------------
(* Clauses that make no node *)

NoneNew == [x \in {} |-> x]

\* A query that makes no node leaves one graph, by its rows as they are.
LEMMA NothingNew ==
  ASSUME NEW q \in Query, OneClause(q), q.cl[Len(q.cl)].c # "create", NEW g, Merged(q, g) = {}
  PROVE  /\ NoneNew \in NewNodes(q, g)
         /\ {Bind(r, NoneNew) : r \in Table(q, g)} = Rows(ContextOf(q.cl, Len(q.cl)), g)
<1> DEFINE n == Len(q.cl)
           ctx == ContextOf(q.cl, n)
           wanted == {t \in Table(q, g) \X (Created(q) \cup Merged(q, g)) : t[2] \notin DOMAIN t[1]}
<1>1. \A i \in DOMAIN q.cl : q.cl[i].c # "create"
  BY Clauses
<1>2. Created(q) = {}
  BY <1>1 DEF Created
<1>3. wanted = {}
  BY <1>2
<1>4. NoneNew \in [wanted -> Node \ Ids(g)] /\ \A x, y \in wanted : NoneNew[x] = NoneNew[y] => x = y
  BY <1>3 DEF NoneNew
<1>5. NoneNew \in NewNodes(q, g)
  BY <1>4 DEF NewNodes
<1>6. Plain(ctx) /\ Table(q, g) = Rows(ctx, g)
  BY Reading
<1>7. ASSUME NEW r \in Rows(ctx, g) PROVE Bind(r, NoneNew) = r
  <2>1. r \in [WhereVars(ctx) -> Node]
    BY <1>6, PlainRow
  <2>2. {t[2] : t \in {u \in DOMAIN NoneNew : u[1] = r}} = {}
    BY DEF NoneNew
  <2>3. Bind(r, NoneNew) = [v \in DOMAIN r |-> r[v]]
    BY <2>2 DEF Bind
  <2> QED
    BY <2>1, <2>3
<1> QED
  BY <1>5, <1>6, <1>7

-----------------------------------------------------------------------------
(* MERGE of a relationship *)

\* Over clauses that read, the WHERE of a MERGE is that of any clause.
LEMMA MergeReads ==
  ASSUME NEW q \in Query, OneClause(q), q.cl[Len(q.cl)].c = "mergeRel"
  PROVE  Facing(MergeWhere(q.cl, Len(q.cl), NoNodes), q.cl[Len(q.cl)].scan) = ContextOf(q.cl, Len(q.cl))
<1> DEFINE n == Len(q.cl)
           ctx == ContextOf(q.cl, n)
           above == {j \in 1 .. n - 1 : \A m \in j .. n - 1 : q.cl[m].c = "create"}
<1>1. n \in Nat /\ n > 0 /\ \A i \in 1 .. n - 1 : q.cl[i].c \in {"match", "with"}
  BY Clauses
<1>2. above = {}
  BY <1>1
<1>3. ctx = WhereParts(q.cl, 1 .. n - 1) /\ ctx \in Where
  BY Reading DEF Plain
<1>4. {t \in NoNodes.iri : t[1] \notin AnonVar /\ \E j \in above : t[1] \in q.cl[j].g.node} = {}
  BY DEF NoNodes
<1>5. MergeWhere(q.cl, n, NoNodes) = [ctx EXCEPT !.must = UnionOf({ctx.must}), !.iri = {}]
  <2>1. (1 .. n - 1) \ above = 1 .. n - 1
    BY <1>2
  <2>2. \A F : {F} \cup {Scanned(q.cl[j].g, Var \ ({t[1] : t \in {}} \cup NoNodes.row)) : j \in above} = {F}
    BY <1>2
  <2> QED
    BY <1>3, <1>4, <2>1, <2>2 DEF MergeWhere
<1>6. ctx.must \in Graph(Var) /\ ctx.iri = {}
  BY <1>3 DEF WhereParts, Where
<1>7. UnionOf({ctx.must}) = ctx.must
  BY <1>6, UnionOne
<1>8. MergeWhere(q.cl, n, NoNodes) = ctx
  <2>1. \A c \in Where : [c EXCEPT !.must = c.must, !.iri = c.iri] = c
    BY DEF Where
  <2> HIDE DEF ctx
  <2> QED
    BY <1>3, <1>5, <1>6, <1>7, <2>1
<1>9. Both(ctx.must, EmptyGraph) = ctx.must
  BY <1>6, BothNothing
<1>10. Facing(ctx, EmptyGraph) = ctx
  BY <1>3, <1>9 DEF Facing, Where
<1>11. q.cl[n].scan = EmptyGraph
  BY DEF OneClause
<1> QED
  BY <1>8, <1>10, <1>11

\* FILTER NOT EXISTS on a pattern whose variables the row binds looks for that
\* very relationship.
LEMMA BoundBlocks ==
  ASSUME NEW p \in Graph(Var), p # EmptyGraph, NEW r, NEW V, r \in [V -> Node], Ids(p) \subseteq V, NEW st
  PROVE  Blocked(p, r, st) <=> Embeds(p, r, st)
<1>1. ASSUME NEW e, \A v \in Ids(p) : e[v] = r[v]
      PROVE  Embeds(p, e, st) <=> Embeds(p, r, st)
  <2>1. \A v \in p.node : e[v] = r[v]
    BY <1>1 DEF Ids
  <2>2. (\A t \in p.label : e[t[1]] = r[t[1]]) /\ \A t \in p.prop : e[t[1]] = r[t[1]]
    BY <1>1 DEF Ids
  <2>3. \A t \in p.edge : e[t[1]] = r[t[1]] /\ e[t[3]] = r[t[3]]
    BY <1>1 DEF Ids
  <2>4. \A t \in p.eprop : e[t[1]] = r[t[1]] /\ e[t[3]] = r[t[3]]
    BY <1>1 DEF Ids
  <2> QED
    BY <2>1, <2>2, <2>3, <2>4 DEF Embeds
<1>2. ASSUME Embeds(p, r, st) PROVE Blocked(p, r, st)
  <2> DEFINE e == [v \in Ids(p) |-> r[v]]
  <2>1. e \in [Ids(p) -> Node] /\ \A v \in Ids(p) : e[v] = r[v]
    OBVIOUS
  <2> HIDE DEF e
  <2>2. Embeds(p, e, st)
    BY <1>1, <1>2, <2>1
  <2> QED
    BY <2>1, <2>2 DEF Blocked
<1>3. ASSUME Blocked(p, r, st) PROVE Embeds(p, r, st)
  <2>1. PICK e \in [Ids(p) -> Node] : (\A v \in Ids(p) \cap DOMAIN r : e[v] = r[v]) /\ Embeds(p, e, st)
    BY <1>3 DEF Blocked
  <2>2. \A v \in Ids(p) : e[v] = r[v]
    BY <2>1
  <2> QED
    BY <1>1, <2>1, <2>2
<1> QED
  BY <1>2, <1>3

\* The INSERT of a relationship MERGE is what the clause means.
LEMMA MergeRelMeans ==
  ASSUME NEW q \in Query, OneClause(q), q.cl[Len(q.cl)].c = "mergeRel",
         NEW T, \A x \in Linked(q.cl[Len(q.cl)]) : x \notin T
  PROVE  Means(q, OwnStatements(q.cl, Len(q.cl), NoNodes), T)
<1> DEFINE n == Len(q.cl)
           cl == q.cl[n]
           ctx == ContextOf(q.cl, n)
           p == EdgeGraph(cl, cl.props)
           more == EdgeGraph(cl, cl.props \cup LiteralProps(cl.onCreate))
           s == MergeEdgeInsert(cl, ctx)
           list == OwnStatements(q.cl, n, NoNodes)
<1>1. cl \in Clause /\ cl.props \in SUBSET (Key \X Val) /\ cl.onCreate \in Seq(SetItem)
  <2>1. cl \in Clause
    BY Clauses
  <2> QED
    BY <2>1 DEF Clause
<1>2. Plain(ctx) /\ SourcesBound(ctx) /\ ctx \in Where /\ \A g : Table(q, g) = Rows(ctx, g)
  BY Reading DEF Plain
<1>3. cl.onMatch = <<>> /\ {cl.from, cl.to} \subseteq WhereVars(ctx)
  <2>1. n \in DOMAIN q.cl
    BY Clauses
  <2> QED
    BY <2>1 DEF OneClause, Exact, ClauseExact
<1>4. list = <<s>>
  <2>1. list = CompileMergeRel(cl, ctx)
    BY <1>3, MergeReads DEF OwnStatements, Constrained
  <2>2. CompileSetItems(<<>>, Facing(ctx, EdgeGraph(cl, {}))) = <<>>
    BY DEF CompileSetItems, Each
  <2>3. list = <<s>> \o <<>>
    BY <1>3, <2>1, <2>2 DEF CompileMergeRel
  <2> HIDE DEF s, list
  <2> QED
    BY <2>3
<1>5. /\ s.s = "insert" /\ s.ctx = ctx /\ s.absent = p /\ s.tmpl = more /\ s.fresh = {} /\ s.iri = {}
      /\ s \in Shaped
  BY <1>1, <1>2, MergeEdgeInsertFacts DEF MergeEdgeInsert
<1>6. p \in Graph(Var) /\ Ids(p) = {cl.from, cl.to}
  BY <1>1, EdgeGraphFacts
<1>7. EdgesNamed(p) /\ EdgesNamed(more) /\ (\A t \in more.edge : t[2] \notin T) /\ p # EmptyGraph
  <2>1. p.edge = {<<cl.from, cl.rel, cl.to>>} /\ more.edge = {<<cl.from, cl.rel, cl.to>>}
    BY DEF EdgeGraph, EmptyGraph
  <2>2. /\ p.eprop = {<<cl.from, cl.rel, cl.to, t[1], t[2]>> : t \in cl.props}
        /\ more.eprop = {<<cl.from, cl.rel, cl.to, t[1], t[2]>> : t \in cl.props \cup LiteralProps(cl.onCreate)}
    BY DEF EdgeGraph, EmptyGraph
  <2>3. cl.rel \notin T
    BY DEF Linked
  <2>4. EmptyGraph.edge = {}
    BY DEF EmptyGraph
  <2> HIDE DEF p, more
  <2>5. EdgesNamed(p)
    BY <2>1, <2>2 DEF EdgesNamed
  <2>6. EdgesNamed(more)
    BY <2>1, <2>2 DEF EdgesNamed
  <2>7. \A t \in more.edge : t[2] \notin T
    BY <2>1, <2>3
  <2>8. p.edge # EmptyGraph.edge
    BY <2>1, <2>4
  <2> QED
    BY <2>5, <2>6, <2>7, <2>8
<1> HIDE DEF s, p, more
<1> SUFFICES ASSUME NEW st \in Graph(Node), Shown(st, T), NEW alloc \in Allocations(s, st)
             PROVE  Visible(Apply(s, st, alloc)) \in Outcomes(q, Visible(st)) /\ Shown(Apply(s, st, alloc), T)
  BY <1>4 DEF Means
<1> DEFINE g == Visible(st)
           R == Rows(ctx, g)
           absent == {b \in R : ~ Embeds(p, b, g)}
<1>8. \A r \in R : r \in [WhereVars(ctx) -> Node]
  BY <1>2, PlainRow
<1>9. Fires(s, st) = absent
  <2>1. Rows(ctx, st) = R
    BY <1>2, VisibleRows
  <2>2. \A r \in R : Blocked(p, r, st) <=> Embeds(p, r, g)
    BY <1>3, <1>6, <1>7, <1>8, BoundBlocks, VisibleEmbeds
  <2> HIDE DEF g, R, ctx
  <2> QED
    BY <1>5, <2>1, <2>2 DEF Fires
<1>10. \A r \in R : Assign(s, r, alloc) = r
  <2> SUFFICES ASSUME NEW r \in R PROVE Assign(s, r, alloc) = r
    OBVIOUS
  <2>1. Assign(s, r, alloc) = [v \in DOMAIN r |-> r[v]]
    BY <1>5 DEF Assign
  <2> QED
    BY <1>8, <2>1
<1>11. \A i \in DOMAIN q.cl : q.cl[i].c # "mergeNode"
  BY Clauses
<1>12. Merged(q, g) = {}
  BY <1>11 DEF Merged
<1>13. NoneNew \in NewNodes(q, g) /\ {Bind(r, NoneNew) : r \in Table(q, g)} = R
  BY <1>12, NothingNew
<1>14. Do(q, g, NoneNew, g, n) = UnionOf({g} \cup {Image(more, b) : b \in absent})
  BY <1>13 DEF Do, MergeRel, p, more
<1> HIDE DEF g, R, ctx
<1>15. {Image(more, b) : b \in absent} = {Image(s.tmpl, Assign(s, r, alloc)) : r \in Fires(s, st)}
  BY <1>5, <1>9, <1>10
<1>16. alloc \in [Wanted(s, st) -> Node]
  BY DEF Allocations, Spare
<1>17. Visible(Apply(s, st, alloc)) = Do(q, g, NoneNew, g, n) /\ Shown(Apply(s, st, alloc), T)
  BY <1>5, <1>7, <1>14, <1>15, <1>16, InsertVisible DEF g
<1> QED
  BY <1>13, <1>17, OutcomeOf DEF g

-----------------------------------------------------------------------------
(* DELETE of a relationship *)

\* The relationship variables of the query are those its WHERE matches: each is
\* an edge of the WHERE and none of its variables.
LEMMA RelVarsRead ==
  ASSUME NEW q \in Query, OneClause(q)
  PROVE  LET n == Len(q.cl)
             ctx == ContextOf(q.cl, n)
             rels == RelVars(q.cl, 1 .. n)
         IN /\ RelVars(q.cl, ReadContext(q.cl, n - 1)) = rels /\ RelVars(q.cl, DOMAIN q.cl) = rels
            /\ rels \subseteq Var \X Var \X Rel \X Var
            /\ \A t \in rels : /\ <<t[2], t[3], t[4]>> \in ctx.must.edge
                               /\ {t[2], t[4]} \subseteq WhereVars(ctx)
                               /\ t[1] \notin WhereVars(ctx)
<1> DEFINE n == Len(q.cl)
           ctx == ContextOf(q.cl, n)
           rels == RelVars(q.cl, 1 .. n)
           M(S) == {MustPart(q.cl[j]) : j \in S}
<1>1. /\ q.cl \in Seq(Clause) /\ \A i \in DOMAIN q.cl : Lowered(q.cl, i)
      /\ n \in Nat /\ n > 0 /\ DOMAIN q.cl = 1 .. n
      /\ \A i \in 1 .. n - 1 : q.cl[i].c \in {"match", "with"}
      /\ q.cl[n].c \in {"create", "set", "delete", "mergeNode", "mergeRel", "call"}
  BY Clauses
<1>2. ReadContext(q.cl, n - 1) = 1 .. n - 1
  BY <1>1 DEF ReadContext, IsWrite
<1>3. {m \in 1 .. n : q.cl[m].c \in {"match", "optional"}} = {m \in 1 .. n - 1 : q.cl[m].c \in {"match", "optional"}}
  BY <1>1
<1>4. RelVars(q.cl, ReadContext(q.cl, n - 1)) = rels /\ RelVars(q.cl, DOMAIN q.cl) = rels
  BY <1>1, <1>2, <1>3 DEF RelVars
<1>5. rels \subseteq Var \X Var \X Rel \X Var
  BY <1>1, RelVarsType
<1>6. ctx = WhereParts(q.cl, 1 .. n - 1) /\ Plain(ctx)
  BY Reading
<1>7. ctx.must = UnionOf(M(1 .. n - 1)) /\ WhereParts(q.cl, DOMAIN q.cl).must = UnionOf(M(DOMAIN q.cl))
  BY <1>6 DEF WhereParts
<1>8. WhereVars(ctx) \subseteq WhereVars(WhereParts(q.cl, DOMAIN q.cl))
  <2>1. WhereVars(ctx) = MustVars(ctx)
    BY <1>6, PlainRows
  <2>2. M(1 .. n - 1) \subseteq M(DOMAIN q.cl)
    BY <1>1
  <2>3. Ids(UnionOf(M(1 .. n - 1))) \subseteq Ids(UnionOf(M(DOMAIN q.cl)))
    BY <2>2, UnionOfMonotone
  <2>4. ctx.same \subseteq WhereParts(q.cl, DOMAIN q.cl).same /\ ctx.iri = {}
    BY <1>1, <1>6 DEF WhereParts
  <2> HIDE DEF ctx, M
  <2>5. MustVars(ctx) \subseteq MustVars(WhereParts(q.cl, DOMAIN q.cl))
    BY <1>7, <2>3, <2>4 DEF MustVars
  <2> QED
    BY <2>1, <2>5 DEF WhereVars
<1>9. ASSUME NEW t \in rels
      PROVE  /\ <<t[2], t[3], t[4]>> \in ctx.must.edge
             /\ {t[2], t[4]} \subseteq WhereVars(ctx)
             /\ t[1] \notin WhereVars(ctx)
  <2>1. PICK j \in 1 .. n - 1 : q.cl[j].c = "match" /\ t \in q.cl[j].rels
    BY <1>1, <1>3 DEF RelVars
  <2>2. <<t[2], t[3], t[4]>> \in q.cl[j].p.edge /\ t[1] \notin WhereVars(WhereParts(q.cl, DOMAIN q.cl))
    <3>1. Lowered(q.cl, j)
      BY <1>1, <2>1
    <3> QED
      BY <2>1, <3>1, Zenon DEF Lowered
  <2>3. q.cl[j].p \in M(1 .. n - 1)
    BY <2>1 DEF MustPart
  <2> HIDE DEF M, ctx
  <2>4. <<t[2], t[3], t[4]>> \in ctx.must.edge
    BY <1>7, <2>2, <2>3 DEF UnionOf
  <2>5. {t[2], t[4]} \subseteq Ids(ctx.must)
    BY <2>4 DEF Ids
  <2> QED
    BY <1>8, <2>2, <2>4, <2>5 DEF WhereVars, MustVars
<1> QED
  BY <1>4, <1>5, <1>9

\* A DELETE of several relationships would read, in its second statement, what
\* its first changes.
LEMMA DeletesOne ==
  ASSUME NEW q \in Query, OneClause(q), q.cl[Len(q.cl)].c = "delete"
  PROVE  LET cl == q.cl[Len(q.cl)]
         IN /\ cl \in Clause /\ cl.what \in Seq(Var) /\ ~ cl.detach /\ Len(cl.what) \in {0, 1}
            /\ \A j \in DOMAIN cl.what : \E t \in RelVars(q.cl, 1 .. Len(q.cl)) : t[1] = cl.what[j]
<1> DEFINE n == Len(q.cl)
           cl == q.cl[n]
           ctx == ContextOf(q.cl, n)
           rels == RelVars(q.cl, 1 .. n)
<1>1. cl \in Clause /\ n \in DOMAIN q.cl
  BY Clauses
<1>2. cl.what \in Seq(Var)
  BY <1>1 DEF Clause
<1>3. ~ cl.detach /\ \A j \in DOMAIN cl.what : \E t \in rels : t[1] = cl.what[j]
  BY <1>1 DEF OneClause, Exact, ClauseExact
<1>4. ~ (Len(cl.what) > 1)
  <2> SUFFICES ASSUME Len(cl.what) > 1 PROVE FALSE
    OBVIOUS
  <2>1. Touched(q.cl, n) \cap ReadBy(Context(q.cl, n)) = {}
    <3>1. n \in Writes(q.cl) /\ Many(cl)
      BY DEF OneClause, Many
    <3> QED
      BY <3>1 DEF OneClause, Exact, Independent
  <2>2. Context(q.cl, n) = ctx
    BY DEF Context
  <2>3. Touched(q.cl, n) = {t[3] : t \in rels}
    BY DEF Touched
  <2>4. 1 \in DOMAIN cl.what
    BY <1>2
  <2>5. PICK t \in rels : t[1] = cl.what[1]
    BY <1>3, <2>4
  <2>6. <<t[2], t[3], t[4]>> \in ctx.must.edge
    BY RelVarsRead
  <2>7. t[3] \in Speaks(ctx.must)
    BY <2>6 DEF Speaks
  <2> HIDE DEF ctx, rels
  <2> QED
    BY <2>1, <2>2, <2>3, <2>7 DEF ReadBy
<1>5. Len(cl.what) \in Nat
  BY <1>2
<1>6. Len(cl.what) \in {0, 1}
  <2>1. \A k \in Nat : ~ (k > 1) => k \in {0, 1}
    OBVIOUS
  <2> QED
    BY <1>4, <1>5, <2>1, Zenon
<1> QED
  BY <1>1, <1>2, <1>3, <1>6

\* Without nodes to delete, a DELETE takes relationships with their properties.
LEMMA DropNothing ==
  ASSUME NEW Id, NEW g \in Graph(Id)
  PROVE  DropNodes(g, {}) = g
<1>1. /\ DropNodes(g, {}).node = g.node /\ DropNodes(g, {}).label = g.label /\ DropNodes(g, {}).prop = g.prop
      /\ DropNodes(g, {}).edge = g.edge /\ DropNodes(g, {}).eprop = g.eprop
  BY DEF DropNodes
<1>2. DropNodes(g, {}) \in Graph(Id)
  BY <1>1 DEF Graph, DropNodes
<1> QED
  BY <1>1, <1>2, GraphEqual

LEMMA DropEdgesFacts ==
  ASSUME NEW Id, NEW g \in Graph(Id), NEW E
  PROVE  /\ DropEdges(g, E) \in Graph(Id)
         /\ DropEdges(g, E).node = g.node /\ DropEdges(g, E).label = g.label /\ DropEdges(g, E).prop = g.prop
         /\ DropEdges(g, E).edge = g.edge \ E
         /\ DropEdges(g, E).eprop = {t \in g.eprop : <<t[1], t[2], t[3]>> \notin E}
  BY DEF DropEdges, Graph

\* A statement that cuts relationships of the types T takes them from what is
\* visible, and their properties with them.
LEMMA CutVisible ==
  ASSUME NEW st \in Graph(Node), NEW E, NEW T, Shown(st, T), \A t \in E : t[2] \in T,
         NEW to \in Graph(Node), to = [st EXCEPT !.edge = @ \ E]
  PROVE  Visible(to) = DropEdges(Visible(st), E) /\ Shown(to, T)
<1>1. /\ to.node = st.node /\ to.label = st.label /\ to.prop = st.prop
      /\ to.edge = st.edge \ E /\ to.eprop = st.eprop
  BY DEF Graph
<1>2. Visible(to).eprop = {t \in Visible(st).eprop : <<t[1], t[2], t[3]>> \notin E}
  BY <1>1, VisibleFields
<1>3. Visible(to) = DropEdges(Visible(st), E)
  <2>1. Visible(st) \in Graph(Node) /\ Visible(to) \in Graph(Node)
    BY VisibleFields
  <2>2. /\ Visible(to).node = st.node /\ Visible(to).label = st.label /\ Visible(to).prop = st.prop
        /\ Visible(to).edge = st.edge \ E
    BY <1>1, VisibleFields
  <2>3. /\ Visible(st).node = st.node /\ Visible(st).label = st.label /\ Visible(st).prop = st.prop
        /\ Visible(st).edge = st.edge
    BY VisibleFields
  <2> DEFINE h == DropEdges(Visible(st), E)
  <2>4. /\ h \in Graph(Node) /\ h.node = st.node /\ h.label = st.label /\ h.prop = st.prop
        /\ h.edge = st.edge \ E /\ h.eprop = Visible(to).eprop
    <3>1. /\ h \in Graph(Node) /\ h.node = Visible(st).node
          /\ h.label = Visible(st).label /\ h.prop = Visible(st).prop
          /\ h.edge = Visible(st).edge \ E
          /\ h.eprop = {t \in Visible(st).eprop : <<t[1], t[2], t[3]>> \notin E}
      BY <2>1, DropEdgesFacts
    <3> HIDE DEF h
    <3> QED
      BY <1>2, <2>3, <3>1
  <2> HIDE DEF h
  <2>5. Visible(to) = h
    BY <2>1, <2>2, <2>4, GraphEqual
  <2> QED
    BY <2>5 DEF h
<1>4. Shown(to, T)
  BY <1>1 DEF Shown
<1> QED
  BY <1>3, <1>4

\* The DELETE of a relationship is what the clause means.
LEMMA DeleteMeans ==
  ASSUME NEW q \in Query, OneClause(q), q.cl[Len(q.cl)].c = "delete",
         NEW T, \A t \in RelVars(q.cl, DOMAIN q.cl) : t[3] \in T
  PROVE  Means(q, OwnStatements(q.cl, Len(q.cl), NoNodes), T)
<1> DEFINE n == Len(q.cl)
           cl == q.cl[n]
           ctx == ContextOf(q.cl, n)
           rels == RelVars(q.cl, 1 .. n)
           list == OwnStatements(q.cl, n, NoNodes)
           named == {cl.what[j] : j \in DOMAIN cl.what}
           cut == {t \in rels : t[1] \in named}
           B(g) == {Bind(r, NoneNew) : r \in Table(q, g)}
           Edges(g) == UNION {{<<b[t[2]], t[3], b[t[4]]>> : t \in {u \in cut : {u[2], u[4]} \subseteq DOMAIN b}} : b \in Rows(ctx, g)}
<1>1. cl.what \in Seq(Var) /\ ~ cl.detach /\ Len(cl.what) \in {0, 1} /\ \A j \in DOMAIN cl.what : \E t \in rels : t[1] = cl.what[j]
  BY DeletesOne
<1>2. Plain(ctx) /\ SourcesBound(ctx) /\ ctx \in Where /\ \A g : Table(q, g) = Rows(ctx, g)
  BY Reading DEF Plain
<1>3. /\ RelVars(q.cl, ReadContext(q.cl, n - 1)) = rels /\ RelVars(q.cl, DOMAIN q.cl) = rels
      /\ rels \subseteq Var \X Var \X Rel \X Var
      /\ \A t \in rels : /\ {t[2], t[4]} \subseteq WhereVars(ctx)
                         /\ t[1] \notin WhereVars(ctx)
  BY RelVarsRead
<1>4. list = [j \in 1 .. Len(cl.what) |-> DeleteStatement(cl.what[j], ctx, rels)]
  BY <1>1, <1>3 DEF OwnStatements, CompileDelete, Each
<1>5. \A g : NoneNew \in NewNodes(q, g) /\ B(g) = Rows(ctx, g)
  <2>1. \A i \in DOMAIN q.cl : q.cl[i].c # "mergeNode"
    BY Clauses
  <2>2. \A g : Merged(q, g) = {}
    BY <2>1 DEF Merged
  <2> QED
    BY <2>2, NothingNew
<1>6. ASSUME NEW g \in Graph(Node)
      PROVE  Do(q, g, NoneNew, g, n) = DropEdges(g, Edges(g))
  <2> DEFINE nodes == UNION {{b[v] : v \in named \cap DOMAIN b} : b \in Rows(ctx, g)}
  <2>1. \A b \in Rows(ctx, g) : DOMAIN b = WhereVars(ctx)
    BY <1>2, PlainRow
  <2>2. named \cap WhereVars(ctx) = {}
    BY <1>1, <1>3
  <2> HIDE DEF ctx, named
  <2>3. nodes = {}
    BY <2>1, <2>2
  <2> USE DEF ctx, named
  <2>4. Do(q, g, NoneNew, g, n) = DeleteAll(g, cl, rels, Rows(ctx, g))
    BY <1>3, <1>5 DEF Do
  <2>5. DeleteAll(g, cl, rels, Rows(ctx, g)) = DropNodes(DropEdges(g, Edges(g)), nodes)
    BY DEF DeleteAll
  <2> HIDE DEF Edges, nodes
  <2> QED
    BY <2>3, <2>4, <2>5, DropEdgesFacts, DropNothing
<1>7. CASE Len(cl.what) = 0
  <2>1. list = <<>> /\ named = {}
    BY <1>1, <1>4, <1>7
  <2>2. \A g : Edges(g) = {}
    BY <2>1
  <2> SUFFICES ASSUME NEW st \in Graph(Node) PROVE Visible(st) \in Outcomes(q, Visible(st))
    BY <2>1 DEF Means
  <2> DEFINE g == Visible(st)
  <2>3. g \in Graph(Node)
    BY VisibleFields
  <2>4. DropEdges(g, {}) = g
    <3> DEFINE none == {}
               h == DropEdges(g, none)
    <3> HIDE DEF h, g, none
    <3>1. /\ h \in Graph(Node) /\ h.node = g.node /\ h.label = g.label /\ h.prop = g.prop
          /\ h.edge = g.edge \ none /\ h.eprop = {t \in g.eprop : <<t[1], t[2], t[3]>> \notin none}
      BY <2>3, DropEdgesFacts DEF h
    <3>2. h.edge = g.edge /\ h.eprop = g.eprop
      BY <3>1 DEF none
    <3>3. h = g
      BY <2>3, <3>1, <3>2, GraphEqual
    <3> QED
      BY <3>3 DEF h, none
  <2> HIDE DEF Edges, g
  <2>5. Do(q, g, NoneNew, g, n) = g
    BY <1>6, <2>2, <2>3, <2>4
  <2>6. g \in Outcomes(q, g)
    BY <1>5, <2>5, OutcomeOf
  <2> QED
    BY <2>6 DEF g
<1>8. CASE Len(cl.what) = 1
  <2> DEFINE v == cl.what[1]
             s == DeleteStatement(v, ctx, rels)
  <2>1. list = <<s>> /\ named = {v} /\ v \in Var
    BY <1>1, <1>4, <1>8
  <2>2. PICK t \in rels : t[1] = v
    BY <1>1, <1>8
  <2>3. cut = {t}
    <3>1. \A u \in rels : u[1] = t[1] => u = t
      BY DEF OneClause
    <3> HIDE DEF named, rels
    <3> QED
      BY <2>1, <2>2, <3>1
  <2>4. s = [s |-> "cut", ctx |-> ctx, from |-> t[2], rel |-> t[3], to |-> t[4]]
    <3>1. (CHOOSE u \in rels : u[1] = v) = t
      <4>1. \A u \in rels : u[1] = t[1] => u = t
        BY DEF OneClause
      <4> HIDE DEF rels, v
      <4> QED
        BY <2>2, <4>1
    <3> QED
      BY <2>2, <3>1 DEF DeleteStatement
  <2> SUFFICES ASSUME NEW st \in Graph(Node), Shown(st, T), NEW alloc \in Allocations(s, st)
               PROVE  Visible(Apply(s, st, alloc)) \in Outcomes(q, Visible(st)) /\ Shown(Apply(s, st, alloc), T)
    BY <2>1 DEF Means
  <2>5. s \in Shaped
    BY <1>2, <1>3, <2>1, DeleteStatementFacts
  <2> DEFINE g == Visible(st)
             R == Rows(ctx, g)
             E == {<<r[t[2]], t[3], r[t[4]]>> : r \in R}
             to == Apply(s, st, alloc)
  <2>6. Rows(ctx, st) = R /\ \A r \in R : DOMAIN r = WhereVars(ctx)
    BY <1>2, VisibleRows, PlainRow
  <2>7. to \in Graph(Node)
    <3>1. s \in Statement /\ EndsBound(s)
      BY <2>5 DEF Shaped
    <3>2. alloc \in [Wanted(s, st) -> Node]
      BY DEF Allocations, Spare
    <3> HIDE DEF s
    <3> QED
      BY <3>1, <3>2, ApplyType
  <2> HIDE DEF s
  <2>8. {t[2], t[4]} \subseteq WhereVars(ctx)
    BY <1>3, <2>2
  <2> HIDE DEF R, ctx, rels, g, cut, v
  <2>9. {r \in R : {t[2], t[4]} \subseteq DOMAIN r} = R
    BY <2>6, <2>8
  <2>10. Cut(s, st) = [del |-> [EmptyGraph EXCEPT !.edge = E], ins |-> EmptyGraph]
    BY <2>4, <2>6, <2>9 DEF Cut
  <2>11. to = Patch(st, [EmptyGraph EXCEPT !.edge = E], EmptyGraph)
    <3>1. s.s = "cut"
      BY <2>4
    <3>2. Effect(s, st, alloc) = Cut(s, st)
      BY <3>1 DEF Effect
    <3> HIDE DEF E
    <3> QED
      BY <2>10, <3>2 DEF Apply
  <2>12. to = [st EXCEPT !.edge = @ \ E]
    <3> HIDE DEF E, to
    <3>1. /\ to.node = st.node /\ to.label = st.label /\ to.prop = st.prop
          /\ to.edge = st.edge \ E /\ to.eprop = st.eprop
      BY <2>11 DEF Patch, EmptyGraph
    <3>2. LET h == [st EXCEPT !.edge = @ \ E]
          IN /\ h \in Graph(Node) /\ h.node = st.node /\ h.label = st.label /\ h.prop = st.prop
             /\ h.edge = st.edge \ E /\ h.eprop = st.eprop
      BY DEF Graph
    <3> QED
      BY <2>7, <3>1, <3>2, GraphEqual
  <2>13. \A e \in E : e[2] \in T
    <3>1. t[3] \in T
      BY <1>3, <2>2 DEF rels
    <3> QED
      BY <3>1
  <2>14. Visible(to) = DropEdges(g, E) /\ Shown(to, T)
    <3> HIDE DEF E, to
    <3> QED
      BY <2>7, <2>12, <2>13, CutVisible DEF g
  <2>15. Edges(g) = E
    <3>1. \A b \in R : {u \in cut : {u[2], u[4]} \subseteq DOMAIN b} = {t}
      BY <2>3, <2>6, <2>8
    <3>2. Edges(g) = UNION {{<<b[u[2]], u[3], b[u[4]]>> : u \in {t}} : b \in R}
      BY <3>1 DEF R
    <3> HIDE DEF Edges
    <3> QED
      BY <3>2
  <2>16. g \in Graph(Node)
    BY VisibleFields DEF g
  <2>17. Visible(to) = Do(q, g, NoneNew, g, n)
    BY <1>6, <2>14, <2>15, <2>16
  <2> HIDE DEF to
  <2> QED
    BY <1>5, <2>14, <2>17, OutcomeOf DEF g, to
<1> QED
  BY <1>1, <1>7, <1>8

-----------------------------------------------------------------------------
(* Items, one after the other *)

\* The stages of a list of items are what their recursion says.
LEMMA StagesFacts ==
  ASSUME NEW g, NEW items, Len(items) \in Nat, NEW on
  PROVE  LET F == Stages(g, items, on)
         IN F[0] = g /\ \A i \in 1 .. Len(items) : F[i] = SetOn(F[i - 1], items[i], on[i])
<1> DEFINE n == Len(items)
           F == Stages(g, items, on)
           Step(f, i) == SetOn(f[i - 1], items[i], on[i])
           Ok(f, k) == DOMAIN f = 0 .. k /\ f[0] = g /\ \A j \in 1 .. k : f[j] = Step(f, j)
           S == {k \in 0 .. n : ~ \E f : Ok(f, k)}
<1>1. S = {}
  <2> SUFFICES ASSUME S # {} PROVE FALSE
    OBVIOUS
  <2>1. S \in SUBSET Nat
    OBVIOUS
  <2> HIDE DEF S
  <2>2. PICK m \in S : \A k \in S : m <= k
    BY <2>1, Least
  <2> USE DEF S
  <2>3. m \in 0 .. n /\ ~ \E f : Ok(f, m)
    OBVIOUS
  <2>4. m # 0
    <3> DEFINE f == [j \in 0 .. 0 |-> g]
    <3>1. Ok(f, 0)
      OBVIOUS
    <3> QED
      BY <2>3, <3>1
  <2>5. m - 1 \in 0 .. n /\ m - 1 \notin S
    BY <2>2, <2>3, <2>4
  <2>6. PICK f : Ok(f, m - 1)
    BY <2>5
  <2> DEFINE h == [j \in 0 .. m |-> IF j = m THEN Step(f, m) ELSE f[j]]
  <2>7. \A j \in 0 .. m - 1 : h[j] = f[j]
    BY <2>3, <2>4
  <2>8. h[m] = Step(f, m)
    BY <2>3
  <2>9. Ok(h, m)
    <3>1. DOMAIN h = 0 .. m /\ h[0] = g
      BY <2>3, <2>4, <2>6
    <3>2. ASSUME NEW j \in 1 .. m PROVE h[j] = Step(h, j)
      <4>1. h[j - 1] = f[j - 1]
        BY <2>3, <2>7
      <4>2. CASE j = m
        BY <2>8, <4>1, <4>2
      <4>3. CASE j \in 1 .. m - 1
        BY <2>6, <2>7, <4>1, <4>3
      <4> QED
        BY <2>3, <4>2, <4>3
    <3> QED
      BY <3>1, <3>2
  <2> QED
    BY <2>3, <2>9
<1>2. PICK w : Ok(w, n)
  BY <1>1
<1> DEFINE v == [i \in 0 .. n |-> w[i]]
<1>3. v = [i \in 0 .. n |-> IF i = 0 THEN g ELSE Step(v, i)]
  <2>1. \A i \in 0 .. n : v[i] = w[i]
    OBVIOUS
  <2> HIDE DEF v
  <2>2. ASSUME NEW i \in 0 .. n PROVE w[i] = IF i = 0 THEN g ELSE Step(v, i)
    <3>1. CASE i = 0
      BY <1>2, <3>1
    <3>2. CASE i \in 1 .. n
      <4>1. v[i - 1] = w[i - 1]
        BY <2>1, <3>2
      <4> QED
        BY <1>2, <3>2, <4>1
    <3> QED
      BY <3>1, <3>2
  <2>3. [i \in 0 .. n |-> w[i]] = [i \in 0 .. n |-> IF i = 0 THEN g ELSE Step(v, i)]
    BY <2>2
  <2> QED
    BY <2>3 DEF v
<1>4. F = CHOOSE f : f = [i \in 0 .. n |-> IF i = 0 THEN g ELSE Step(f, i)]
  BY DEF Stages
<1> HIDE DEF F
<1>5. F = [i \in 0 .. n |-> IF i = 0 THEN g ELSE Step(F, i)]
  BY <1>3, <1>4
<1>6. F[0] = g /\ \A i \in 1 .. n : F[i] = Step(F, i)
  BY <1>5
<1> QED
  BY <1>6 DEF F

-----------------------------------------------------------------------------
(* MERGE of a node *)

\* The graph after the first k items of ON CREATE, on the new node a.
Grown(g, p, items, a, k) ==
  [node |-> g.node \cup {a},
   label |-> g.label \cup {<<a, t[2]>> : t \in p.label}
               \cup {<<a, items[j].l>> : j \in {m \in 1 .. k : items[m].i = "label"}},
   prop |-> g.prop \cup {<<a, t[2], t[3]>> : t \in p.prop}
              \cup {<<a, items[j].k, items[j].x.x>> : j \in {m \in 1 .. k : items[m].i = "prop"}},
   edge |-> g.edge, eprop |-> g.eprop]

\* One more item: it overwrites nothing, for no earlier item and no part of the
\* pattern gives a value to its key.
LEMMA GrowsOn ==
  ASSUME NEW g \in Graph(Node), NEW a \in Node, a \notin Ids(g), NEW p \in Graph(Var),
         NEW items \in Seq(SetItem), NEW v, Literally(items, v),
         \A t \in p.prop : t[2] \notin TouchedByItems(items)
  PROVE  \A k \in 1 .. Len(items) :
           Grown(g, p, items, a, k) = SetOn(Grown(g, p, items, a, k - 1), items[k], {a})
<1> TAKE k \in 1 .. Len(items)
<1> DEFINE item == items[k]
           h == Grown(g, p, items, a, k - 1)
           P(i) == {<<a, items[j].k, items[j].x.x>> : j \in {m \in 1 .. i : items[m].i = "prop"}}
           L(i) == {<<a, items[j].l>> : j \in {m \in 1 .. i : items[m].i = "label"}}
           old == {<<a, t[2], t[3]>> : t \in p.prop}
<1>0. k \in Nat /\ k \in DOMAIN items /\ k - 1 \in Nat /\ 1 .. k = 1 .. (k - 1) \cup {k}
      /\ 1 .. (k - 1) \subseteq DOMAIN items /\ k \notin 1 .. (k - 1)
  OBVIOUS
<1>1. item.i = "label" \/ (item.i = "prop" /\ item.x.e = "lit")
  BY <1>0 DEF Literally
<1>2. CASE item.i = "label"
  <2>1. {m \in 1 .. k : items[m].i = "prop"} = {m \in 1 .. (k - 1) : items[m].i = "prop"}
    BY <1>0, <1>2
  <2>2. {m \in 1 .. k : items[m].i = "label"} = {m \in 1 .. (k - 1) : items[m].i = "label"} \cup {k}
    BY <1>0, <1>2
  <2>3. L(k) = L(k - 1) \cup {<<n, item.l>> : n \in {a}}
    BY <2>2
  <2>4. P(k) = P(k - 1)
    BY <2>1
  <2>5. SetOn(h, item, {a}) = [h EXCEPT !.label = @ \cup {<<n, item.l>> : n \in {a}}]
    BY <1>2 DEF SetOn
  <2> HIDE DEF P, L
  <2> QED
    BY <2>3, <2>4, <2>5 DEF Grown, P, L
<1>3. CASE item.i = "prop" /\ item.x.e = "lit"
  <2>1. {m \in 1 .. k : items[m].i = "prop"} = {m \in 1 .. (k - 1) : items[m].i = "prop"} \cup {k}
    BY <1>0, <1>3
  <2>2. {m \in 1 .. k : items[m].i = "label"} = {m \in 1 .. (k - 1) : items[m].i = "label"}
    BY <1>0, <1>3
  <2>3. L(k) = L(k - 1)
    BY <2>2
  <2>4. P(k) = P(k - 1) \cup {<<a, item.k, item.x.x>>}
    BY <2>1
  <2>5. \A t \in g.prop : ~ (t[1] \in {a} /\ t[2] = item.k)
    BY DEF Ids
  <2>6. item.k \in TouchedByItems(items)
    BY <1>0, <1>3 DEF TouchedByItems
  <2>7. \A t \in old : ~ (t[1] \in {a} /\ t[2] = item.k)
    BY <2>6
  <2>8. \A t \in P(k - 1) : ~ (t[1] \in {a} /\ t[2] = item.k)
    <3>1. \A j \in 1 .. (k - 1) : items[j].i = "prop" => items[j].k # item.k
      BY <1>0, <1>3 DEF Literally
    <3> QED
      BY <3>1
  <2>9. h.prop = g.prop \cup old \cup P(k - 1)
    BY DEF Grown
  <2> DEFINE put == {<<n, item.k, x>> : n \in {a}, x \in Assigned(item)}
             kept == {t \in h.prop : ~ (t[1] \in {a} /\ t[2] = item.k)}
  <2>10. put = {<<a, item.k, item.x.x>>}
    BY <1>3 DEF Assigned
  <2> HIDE DEF P, L, old, h
  <2>11. kept = h.prop
    BY <2>5, <2>7, <2>8, <2>9
  <2>12. SetOn(h, item, {a}) = [h EXCEPT !.prop = kept \cup put]
    BY <1>3 DEF SetOn
  <2>13. g.prop \cup old \cup P(k) = kept \cup put
    <3> HIDE DEF kept, put
    <3> QED
      BY <2>4, <2>9, <2>10, <2>11
  <2>14. h.node = g.node \cup {a} /\ h.edge = g.edge /\ h.eprop = g.eprop
    BY DEF h, Grown
  <2>15. h.label = g.label \cup {<<a, t[2]>> : t \in p.label} \cup L(k)
    BY <2>3 DEF h, Grown, L
  <2>16. Grown(g, p, items, a, k) = [node |-> h.node, label |-> h.label, prop |-> g.prop \cup old \cup P(k),
                                     edge |-> h.edge, eprop |-> h.eprop]
    BY <2>14, <2>15 DEF Grown, P, L, old
  <2>17. h = [node |-> h.node, label |-> h.label, prop |-> h.prop, edge |-> h.edge, eprop |-> h.eprop]
    BY DEF h, Grown
  <2> DEFINE new == kept \cup put
  <2>18. [h EXCEPT !.prop = new] = [node |-> h.node, label |-> h.label, prop |-> new, edge |-> h.edge, eprop |-> h.eprop]
    <3> HIDE DEF new
    <3> QED
      BY <2>17
  <2> HIDE DEF kept, put
  <2>19. SetOn(h, item, {a}) = Grown(g, p, items, a, k)
    <3> HIDE DEF h, item
    <3> QED
      BY <2>12, <2>13, <2>16, <2>18
  <2> QED
    BY <2>19 DEF h
<1> QED
  BY <1>1, <1>2, <1>3

\* ON CREATE in one INSERT with the pattern is ON CREATE item by item.
LEMMA CreatedInTurn ==
  ASSUME NEW g \in Graph(Node), NEW a \in Node, a \notin Ids(g),
         NEW cl \in Clause, cl.c = "mergeNode", Ids(cl.p) = {cl.v}, cl.p.edge = {}, cl.p.eprop = {},
         Literally(cl.onCreate, cl.v), {t[2] : t \in cl.p.prop} \cap TouchedByItems(cl.onCreate) = {}
  PROVE  LET f == [v \in {cl.v} |-> a]
         IN SetEach(Both(g, Image([cl.p EXCEPT !.node = {cl.v}], f)),
                    cl.onCreate, [i \in DOMAIN cl.onCreate |-> {a}])
              = Both(g, Image(CreatedBy(cl), f))
<1> DEFINE f == [v \in {cl.v} |-> a]
           p == cl.p
           items == cl.onCreate
           n == Len(items)
           start == Both(g, Image([p EXCEPT !.node = {cl.v}], f))
           on == [i \in DOMAIN items |-> {a}]
           F == Stages(start, items, on)
           G(k) == Grown(g, p, items, a, k)
<1>1. p \in Graph(Var) /\ items \in Seq(SetItem) /\ n \in Nat /\ DOMAIN items = 1 .. n
  BY DEF Clause
<1>2. (\A t \in p.label : t[1] = cl.v) /\ (\A t \in p.prop : t[1] = cl.v) /\ p.node \subseteq {cl.v}
  BY DEF Ids
<1>3. start = G(0)
  <2> DEFINE q == [p EXCEPT !.node = {cl.v}]
  <2>1. q.node = {cl.v} /\ q.label = p.label /\ q.prop = p.prop /\ q.edge = {} /\ q.eprop = {}
    BY <1>1 DEF Graph
  <2> HIDE DEF q
  <2>2. Image(q, f).node = {a}
    BY <2>1 DEF Image
  <2>3. Image(q, f).label = {<<a, t[2]>> : t \in p.label}
    BY <1>2, <2>1 DEF Image
  <2>4. Image(q, f).prop = {<<a, t[2], t[3]>> : t \in p.prop}
    BY <1>2, <2>1 DEF Image
  <2>5. Image(q, f).edge = {} /\ Image(q, f).eprop = {}
    BY <2>1 DEF Image
  <2>7. {m \in 1 .. 0 : items[m].i = "label"} = {} /\ {m \in 1 .. 0 : items[m].i = "prop"} = {}
    OBVIOUS
  <2> QED
    BY <2>2, <2>3, <2>4, <2>5, <2>7 DEF Both, Grown, q
<1>4. Both(g, Image(CreatedBy(cl), f)) = G(n)
  <2> DEFINE q == CreatedBy(cl)
             props == {<<cl.v, t[1], t[2]>> : t \in LiteralProps(items)}
             labels == {<<cl.v, items[j].l>> : j \in {m \in DOMAIN items : items[m].i = "label"}}
  <2>1. /\ q.node = {cl.v} /\ q.label = p.label \cup labels /\ q.prop = p.prop \cup props
        /\ q.edge = {} /\ q.eprop = {}
    BY <1>1, <1>2 DEF CreatedBy, Graph
  <2>2. {<<a, t[2]>> : t \in labels} = {<<a, items[j].l>> : j \in {m \in 1 .. n : items[m].i = "label"}}
    <3> DEFINE J == {m \in 1 .. n : items[m].i = "label"}
    <3>1. labels = {<<cl.v, items[j].l>> : j \in J}
      BY <1>1
    <3> HIDE DEF labels, J
    <3>2. \A t \in labels : \E j \in J : t[2] = items[j].l
      BY <3>1
    <3>3. \A j \in J : \E t \in labels : t[2] = items[j].l
      <4>1. \A j \in J : <<cl.v, items[j].l>> \in labels /\ <<cl.v, items[j].l>>[2] = items[j].l
        BY <3>1
      <4> QED
        BY <4>1, Zenon
    <3> QED
      BY <3>2, <3>3 DEF J
  <2>3. {<<a, t[2], t[3]>> : t \in props} = {<<a, items[j].k, items[j].x.x>> : j \in {m \in 1 .. n : items[m].i = "prop"}}
    <3>1. {m \in DOMAIN items : items[m].i = "prop" /\ items[m].x.e = "lit"} = {m \in 1 .. n : items[m].i = "prop"}
      BY <1>1 DEF Literally
    <3> DEFINE J == {m \in 1 .. n : items[m].i = "prop"}
    <3>2. LiteralProps(items) = {<<items[j].k, items[j].x.x>> : j \in J}
      BY <3>1 DEF LiteralProps
    <3> HIDE DEF J
    <3>3. \A t \in props : \E j \in J : t[2] = items[j].k /\ t[3] = items[j].x.x
      BY <3>2
    <3>4. \A j \in J : \E t \in props : t[2] = items[j].k /\ t[3] = items[j].x.x
      <4> SUFFICES ASSUME NEW j \in J PROVE \E t \in props : t[2] = items[j].k /\ t[3] = items[j].x.x
        OBVIOUS
      <4>1. <<items[j].k, items[j].x.x>> \in LiteralProps(items)
        BY <3>2
      <4>2. <<cl.v, items[j].k, items[j].x.x>> \in props
        BY <4>1
      <4> QED
        BY <4>2
    <3> HIDE DEF props
    <3> QED
      BY <3>3, <3>4, SMTT(30) DEF J
  <2>4. (\A t \in labels : t[1] = cl.v) /\ \A t \in props : t[1] = cl.v
    OBVIOUS
  <2> HIDE DEF q, labels, props
  <2>5. Image(q, f).node = {a} /\ Image(q, f).edge = {} /\ Image(q, f).eprop = {}
    BY <2>1 DEF Image
  <2>6. Image(q, f).label = {<<a, t[2]>> : t \in p.label} \cup {<<a, t[2]>> : t \in labels}
    BY <1>2, <2>1, <2>4 DEF Image
  <2>7. Image(q, f).prop = {<<a, t[2], t[3]>> : t \in p.prop} \cup {<<a, t[2], t[3]>> : t \in props}
    BY <1>2, <2>1, <2>4 DEF Image
  <2> QED
    BY <2>2, <2>3, <2>5, <2>6, <2>7 DEF Both, Grown, q
<1>5. F[0] = start /\ \A i \in 1 .. n : F[i] = SetOn(F[i - 1], items[i], {a})
  <2>1. F[0] = start /\ \A i \in 1 .. n : F[i] = SetOn(F[i - 1], items[i], on[i])
    <3> HIDE DEF on, start
    <3> QED
      BY <1>1, StagesFacts
  <2> HIDE DEF F, start
  <2> QED
    BY <1>1, <2>1
<1>6. \A k \in 1 .. n : G(k) = SetOn(G(k - 1), items[k], {a})
  <2>1. (\A t \in p.prop : t[2] \notin TouchedByItems(items)) /\ Literally(items, cl.v)
    OBVIOUS
  <2>2. p \in Graph(Var) /\ items \in Seq(SetItem) /\ a \notin Ids(g)
    BY <1>1
  <2> HIDE DEF p, items, f, start, F, on, G, n
  <2>3. \A k \in 1 .. Len(items) :
          Grown(g, p, items, a, k) = SetOn(Grown(g, p, items, a, k - 1), items[k], {a})
    BY <2>1, <2>2, GrowsOn, ZenonT(60)
  <2> QED
    BY <2>3 DEF G, n
<1> HIDE DEF F, G, start
<1>7. F[n] = G(n)
  <2> DEFINE S == {k \in 0 .. n : F[k] # G(k)}
  <2> SUFFICES ASSUME S # {} PROVE FALSE
    BY <1>1
  <2>1. S \in SUBSET Nat
    OBVIOUS
  <2> HIDE DEF S
  <2>2. PICK m \in S : \A k \in S : m <= k
    BY <2>1, Least
  <2> USE DEF S
  <2>3. m \in 1 .. n
    BY <1>3, <1>5
  <2>4. F[m - 1] = G(m - 1)
    BY <2>2, <2>3
  <2> QED
    BY <1>5, <1>6, <2>3, <2>4
<1> QED
  BY <1>4, <1>7 DEF SetEach, F, G, start

\* The one row of the empty WHERE.
LEMMA OneRow ==
  ASSUME NEW st
  PROVE  Rows(NoWhere, st) = {NoRow}
<1>1. Embeds(NoWhere.must, NoRow, st) /\ NoWhere.opt = EmptyGraph /\ NoWhere.same = {} /\ NoWhere.iri = {}
  BY DEF NoWhere, EmptyGraph, Embeds
<1>2. MustVars(NoWhere) = {}
  BY DEF NoWhere, EmptyGraph, MustVars, Ids
<1>3. [{} -> Node] = {NoRow}
  BY DEF NoRow
<1>4. Matches(NoWhere.must, {}, NoWhere, st) = {NoRow}
  BY <1>1, <1>3 DEF Matches
<1> QED
  BY <1>1, <1>2, <1>4 DEF Rows

\* The pattern a node MERGE waits for is there when it finds a node.
LEMMA FoundBlocks ==
  ASSUME NEW cl \in Clause, cl.c = "mergeNode", Ids(cl.p) = {cl.v}, cl.p.eprop = {}, NEW st \in Graph(Node)
  PROVE  Blocked(cl.p, NoRow, st) <=> Found(cl, Visible(st)) # {}
<1> DEFINE p == cl.p
<1>1. p \in Graph(Var) /\ EdgesNamed(p)
  BY DEF Clause, EdgesNamed
<1>2. p # EmptyGraph
  <2>1. Ids(EmptyGraph) = {}
    BY DEF Ids, EmptyGraph
  <2> QED
    BY <2>1
<1>3. Pattern(p).must = p /\ Pattern(p).same = {} /\ Pattern(p).iri = {} /\ Pattern(p).opt = EmptyGraph
  BY DEF Pattern, NoWhere
<1>4. MustVars(Pattern(p)) = {cl.v}
  BY <1>3 DEF MustVars
<1>5. \A g : Rows(Pattern(p), g) = {r \in [{cl.v} -> Node] : Embeds(p, r, g)}
  BY <1>3, <1>4 DEF Rows, Matches
<1>6. Found(cl, Visible(st)) # {} <=> \E r \in [{cl.v} -> Node] : Embeds(p, r, Visible(st))
  BY <1>5 DEF Found
<1>7. Blocked(p, NoRow, st) <=> \E r \in [{cl.v} -> Node] : Embeds(p, r, st)
  <2>1. DOMAIN NoRow = {}
    BY DEF NoRow
  <2> QED
    BY <1>2, <2>1 DEF Blocked
<1> QED
  BY <1>1, <1>6, <1>7, VisibleEmbeds

\* The INSERT of a node MERGE is what the clause means.
LEMMA MergeNodeMeans ==
  ASSUME NEW q \in Query, OneClause(q), q.cl[Len(q.cl)].c = "mergeNode", NEW T
  PROVE  Means(q, OwnStatements(q.cl, Len(q.cl), NoNodes), T)
<1> DEFINE n == Len(q.cl)
           cl == q.cl[n]
           p == cl.p
           s == [s |-> "insert", ctx |-> NoWhere, absent |-> cl.p, tmpl |-> CreatedBy(cl), fresh |-> {cl.v}, iri |-> {}]
           list == OwnStatements(q.cl, n, NoNodes)
<1>1. /\ cl \in Clause /\ p \in Graph(Var) /\ cl.v \in Var
      /\ Ids(p) = {cl.v} /\ p.edge = {} /\ p.eprop = {} /\ n \in DOMAIN q.cl
  <2>1. cl \in Clause /\ Lowered(q.cl, n) /\ n \in DOMAIN q.cl
    BY Clauses
  <2> QED
    BY <2>1 DEF Clause, Lowered
<1>2. /\ n = 1 /\ cl.onMatch = <<>> /\ {t[2] : t \in p.prop} \cap TouchedByItems(cl.onCreate) = {}
      /\ Literally(cl.onCreate, cl.v)
  BY <1>1 DEF OneClause, Exact, ClauseExact
<1>3. ContextOf(q.cl, n) = NoWhere /\ \A g : Table(q, g) = {NoRow}
  <2>1. ContextOf(q.cl, n) = WhereParts(q.cl, 1 .. n - 1) /\ \A g : Table(q, g) = Rows(ContextOf(q.cl, n), g)
    BY Reading
  <2>2. 1 .. n - 1 = {}
    BY <1>2
  <2>3. WhereParts(q.cl, {}) = NoWhere
    BY DEF WhereParts, NoWhere, UnionOf, EmptyGraph
  <2> QED
    BY <2>1, <2>2, <2>3, OneRow
<1>4. list = <<s>>
  <2>1. list = CompileMergeNode(cl)
    BY DEF OwnStatements
  <2>2. CompileSetItems(<<>>, Pattern(cl.p)) = <<>>
    BY DEF CompileSetItems, Each
  <2>3. list = <<s>> \o <<>>
    BY <1>2, <2>1, <2>2 DEF CompileMergeNode
  <2> HIDE DEF s, list
  <2> QED
    BY <2>3
<1>5. s \in Shaped
  <2>1. Emits(list, {})
    BY <1>1, CompileMergeNodeFacts DEF OwnStatements
  <2> HIDE DEF s, list
  <2> QED
    BY <1>4, <2>1 DEF Emits
<1>6. s.s = "insert" /\ s.ctx = NoWhere /\ s.absent = p /\ s.tmpl = CreatedBy(cl) /\ s.fresh = {cl.v} /\ s.iri = {}
  OBVIOUS
<1>7. EdgesNamed(s.tmpl) /\ s.tmpl.edge = {}
  <2>1. s.tmpl.edge = {} /\ s.tmpl.eprop = {}
    BY <1>1 DEF CreatedBy, Graph
  <2> QED
    BY <2>1 DEF EdgesNamed
<1> SUFFICES ASSUME NEW st \in Graph(Node), Shown(st, T), NEW alloc \in Allocations(s, st)
             PROVE  Visible(Apply(s, st, alloc)) \in Outcomes(q, Visible(st)) /\ Shown(Apply(s, st, alloc), T)
  <2> HIDE DEF s
  <2>1. Len(list) = 1 /\ list[1] = s
    <3> HIDE DEF list
    <3> QED
      BY <1>4
  <2> QED
    BY <2>1 DEF Means
<1> HIDE DEF s
<1> DEFINE g == Visible(st)
<1>8. g \in Graph(Node) /\ Ids(g) \subseteq Ids(st)
  BY VisibleFields
<1>9. Fires(s, st) = IF Found(cl, g) = {} THEN {NoRow} ELSE {}
  BY <1>1, <1>6, OneRow, FoundBlocks DEF Fires
<1>10. alloc \in [Wanted(s, st) -> Node]
  BY DEF Allocations, Spare
<1>11. /\ Visible(Apply(s, st, alloc)) = UnionOf({g} \cup {Image(s.tmpl, Assign(s, r, alloc)) : r \in Fires(s, st)})
       /\ Shown(Apply(s, st, alloc), T)
  BY <1>5, <1>6, <1>7, <1>10, InsertVisible
<1>12. Created(q) = {} /\ DOMAIN q.cl = {1}
  <2>1. DOMAIN q.cl = {1}
    <3>1. q.cl \in Seq(Clause)
      BY Clauses
    <3> QED
      BY <1>2, <3>1
  <2> QED
    BY <1>2, <2>1 DEF Created
<1>13. Merged(q, g) = IF Found(cl, g) = {} THEN {cl.v} ELSE {}
  <2>1. {m \in DOMAIN q.cl : q.cl[m].c = "mergeNode" /\ Found(q.cl[m], g) = {}} = IF Found(cl, g) = {} THEN {1} ELSE {}
    BY <1>2, <1>12
  <2> QED
    BY <1>2, <2>1 DEF Merged
<1>14. CASE Found(cl, g) # {}
  <2>1. NoneNew \in NewNodes(q, g)
    BY <1>13, <1>14, NothingNew
  <2>2. Visible(Apply(s, st, alloc)) = g
    <3>1. {Image(s.tmpl, Assign(s, r, alloc)) : r \in Fires(s, st)} = {}
      BY <1>9, <1>14
    <3> HIDE DEF g
    <3>2. UnionOf({g}) = g
      BY <1>8, UnionOne
    <3> QED
      BY <1>11, <3>1, <3>2
  <2>3. \A m, on : SetEach(g, <<>>, on) = g
    <3> SUFFICES ASSUME NEW on PROVE SetEach(g, <<>>, on) = g
      OBVIOUS
    <3>1. Len(<<>>) = 0
      OBVIOUS
    <3> QED
      BY <3>1, StagesFacts DEF SetEach
  <2>4. Do(q, g, NoneNew, g, n) = g
    <3>1. \A a : MergeNode(g, cl, a) = g
      BY <1>2, <1>14, <2>3 DEF MergeNode
    <3> QED
      BY <3>1 DEF Do
  <2> QED
    BY <1>11, <2>1, <2>2, <2>4, OutcomeOf
<1>15. CASE Found(cl, g) = {}
  <2> DEFINE a == alloc[<<NoRow, cl.v>>]
             f == [v \in {cl.v} |-> a]
             wanted == {t \in Table(q, g) \X (Created(q) \cup Merged(q, g)) : t[2] \notin DOMAIN t[1]}
  <2>1. Fires(s, st) = {NoRow} /\ Wanted(s, st) = {NoRow} \X {cl.v}
    BY <1>6, <1>9, <1>15 DEF Wanted
  <2>2. wanted = {NoRow} \X {cl.v}
    <3>1. DOMAIN NoRow = {}
      BY DEF NoRow
    <3> HIDE DEF NoRow
    <3> QED
      BY <1>3, <1>12, <1>13, <1>15, <3>1
  <2>3. alloc \in [{NoRow} \X {cl.v} -> Node \ Ids(g)]
    BY <1>8, <2>1 DEF Allocations, Spare
  <2>4. alloc \in NewNodes(q, g)
    <3>1. \A x, y \in wanted : alloc[x] = alloc[y] => x = y
      BY <2>2
    <3> HIDE DEF wanted
    <3> QED
      BY <2>2, <2>3, <3>1 DEF NewNodes, wanted
  <2>5. a \in Node /\ a \notin Ids(g)
    BY <2>3
  <2>6. Assign(s, NoRow, alloc) = f /\ Bind(NoRow, alloc) = f
    <3>1. DOMAIN NoRow = {}
      BY DEF NoRow
    <3>2. Assign(s, NoRow, alloc) = f
      BY <1>6, <3>1 DEF Assign
    <3>3. DOMAIN alloc = {NoRow} \X s.fresh /\ s.fresh \cap DOMAIN NoRow = {}
      BY <1>6, <2>3, <3>1
    <3>4. NoRow \in {NoRow}
      OBVIOUS
    <3> HIDE DEF NoRow, f, a
    <3>5. s.iri = {}
      BY <1>6
    <3>6. Assign(s, NoRow, alloc) = Bind(NoRow, alloc)
      BY <3>3, <3>4, <3>5, SameBinding, ZenonT(60)
    <3> QED
      BY <3>2, <3>6
  <2> HIDE DEF wanted
  <2>7. {Bind(r, alloc) : r \in Table(q, g)} = {f}
    <3> HIDE DEF f
    <3> QED
      BY <1>3, <2>6
  <2>8. (CHOOSE m \in {b[cl.v] : b \in {f}} : TRUE) = a
    <3>1. {b[cl.v] : b \in {f}} = {a}
      OBVIOUS
    <3> HIDE DEF a, f
    <3> QED
      BY <3>1
  <2>9. Do(q, g, alloc, g, n) = MergeNode(g, cl, a)
    <3> HIDE DEF a, f
    <3> QED
      BY <2>7, <2>8 DEF Do
  <2>10. MergeNode(g, cl, a) = Both(g, Image(CreatedBy(cl), f))
    <3>1. MergeNode(g, cl, a) = SetEach(Both(g, Image([cl.p EXCEPT !.node = {cl.v}], f)),
                                        cl.onCreate, [i \in DOMAIN cl.onCreate |-> {a}])
      BY <1>15 DEF MergeNode
    <3> HIDE DEF a
    <3> QED
      BY <1>1, <1>2, <1>8, <2>5, <3>1, CreatedInTurn
  <2> HIDE DEF f, g, a
  <2>11. Visible(Apply(s, st, alloc)) = Both(g, Image(CreatedBy(cl), f))
    <3> DEFINE h == Image(CreatedBy(cl), f)
    <3>1. {Image(s.tmpl, Assign(s, r, alloc)) : r \in Fires(s, st)} = {h}
      BY <1>6, <2>1, <2>6
    <3>2. h \in Graph(Node)
      <4>1. \A v \in DOMAIN f : f[v] \in Node
        BY <2>5 DEF f
      <4> QED
        BY <1>1, <4>1, CreatedByFacts, ImageInto
    <3> HIDE DEF h
    <3>3. UnionOf({h}) = h
      BY <3>2, UnionOne
    <3>4. UnionOf({g} \cup {h}) = Both(g, UnionOf({h}))
      BY UnionAdds
    <3> QED
      BY <1>11, <3>1, <3>3, <3>4 DEF h, g
  <2> QED
    BY <1>11, <2>4, <2>9, <2>10, <2>11, OutcomeOf DEF g
<1> QED
  BY <1>14, <1>15

-----------------------------------------------------------------------------
(* SET and REMOVE *)

\* What an item that replaces no map writes: the labels and the properties it
\* is about, for the nodes N, and what it leaves of them.
OnLabel(item, N, t) == item.i \in {"label", "unlabel"} /\ t[1] \in N /\ t[2] = item.l
OnProp(item, N, t) == item.i \in {"prop", "mergeMap", "unprop"} /\ t[1] \in N /\ t[2] = item.k
Given(item) == IF item.i = "unprop" THEN {} ELSE Assigned(item)

Simple(item) == /\ item \in SetItem /\ item.i # "replace"
                /\ item.i \in {"prop", "mergeMap"} => item.x.e # "prop"

\* Kinds of items, with the fields they have.
LEMMA SimpleKinds ==
  ASSUME NEW item, Simple(item)
  PROVE  \/ item.i \in {"prop", "mergeMap"} /\ item.k \in Key /\ item.x \in Expr /\ item.x.e \in {"lit", "null"}
         \/ item.i = "unprop" /\ item.k \in Key
         \/ item.i \in {"label", "unlabel"} /\ item.l \in Label
  BY DEF Simple, SetItem, Expr

\* An item settles the triples it is about and keeps the rest.
LEMMA SetOnCells ==
  ASSUME NEW item, Simple(item), NEW g \in Graph(Node), NEW N \in SUBSET Node
  PROVE  LET h == SetOn(g, item, N)
         IN /\ h \in Graph(Node) /\ h.node = g.node /\ h.edge = g.edge /\ h.eprop = g.eprop
            /\ \A t \in Node \X Label :
                 t \in h.label <=> IF OnLabel(item, N, t) THEN item.i = "label" ELSE t \in g.label
            /\ \A t \in Node \X Key \X Val :
                 t \in h.prop <=> IF OnProp(item, N, t) THEN t[3] \in Given(item) ELSE t \in g.prop
<1> DEFINE h == SetOn(g, item, N)
<1>1. \A t \in Node \X Label : t = <<t[1], t[2]>>
  OBVIOUS
<1>2. \A t \in Node \X Key \X Val : t = <<t[1], t[2], t[3]>>
  OBVIOUS
<1>3. CASE item.i \in {"prop", "mergeMap"} /\ item.k \in Key /\ item.x \in Expr /\ item.x.e \in {"lit", "null"}
  <2> DEFINE new == {t \in g.prop : ~ (t[1] \in N /\ t[2] = item.k)} \cup {<<n, item.k, x>> : n \in N, x \in Assigned(item)}
  <2>1. h = [g EXCEPT !.prop = new]
    BY <1>3 DEF SetOn
  <2>2. Assigned(item) \subseteq Val /\ Given(item) = Assigned(item)
    BY <1>3 DEF Assigned, Given, Expr
  <2>3. new \subseteq Node \X Key \X Val
    BY <1>3, <2>2 DEF Graph
  <2>4. \A t \in Node \X Key \X Val :
          t \in new <=> IF OnProp(item, N, t) THEN t[3] \in Given(item) ELSE t \in g.prop
    <3> SUFFICES ASSUME NEW t \in Node \X Key \X Val
                 PROVE  t \in new <=> IF OnProp(item, N, t) THEN t[3] \in Given(item) ELSE t \in g.prop
      OBVIOUS
    <3>1. t \in {<<n, item.k, x>> : n \in N, x \in Assigned(item)} <=> t[1] \in N /\ t[2] = item.k /\ t[3] \in Assigned(item)
      BY <1>2
    <3> QED
      BY <1>3, <2>2, <3>1 DEF OnProp
  <2>5. \A t : ~ OnLabel(item, N, t)
    BY <1>3 DEF OnLabel
  <2> HIDE DEF new, h
  <2>6. h \in Graph(Node) /\ h.node = g.node /\ h.edge = g.edge /\ h.eprop = g.eprop /\ h.label = g.label /\ h.prop = new
    BY <2>1, <2>3 DEF Graph
  <2> QED
    BY <2>4, <2>5, <2>6 DEF h
<1>4. CASE item.i = "unprop" /\ item.k \in Key
  <2> DEFINE new == {t \in g.prop : ~ (t[1] \in N /\ t[2] = item.k)}
  <2>1. h = [g EXCEPT !.prop = new]
    BY <1>4 DEF SetOn
  <2>2. Given(item) = {} /\ new \subseteq Node \X Key \X Val
    BY <1>4 DEF Given, Graph
  <2>3. \A t : OnProp(item, N, t) <=> (t[1] \in N /\ t[2] = item.k)
    BY <1>4 DEF OnProp
  <2>4. \A t : ~ OnLabel(item, N, t)
    BY <1>4 DEF OnLabel
  <2>5. h \in Graph(Node) /\ h.node = g.node /\ h.edge = g.edge /\ h.eprop = g.eprop /\ h.label = g.label /\ h.prop = new
    <3> HIDE DEF new, h
    <3> QED
      BY <2>1, <2>2 DEF Graph
  <2> HIDE DEF h
  <2> QED
    BY <2>2, <2>3, <2>4, <2>5 DEF h
<1>5. CASE item.i = "label" /\ item.l \in Label
  <2> DEFINE new == g.label \cup {<<n, item.l>> : n \in N}
  <2>1. h = [g EXCEPT !.label = new]
    BY <1>5 DEF SetOn
  <2>2. new \subseteq Node \X Label
    BY <1>5 DEF Graph
  <2>3. \A t \in Node \X Label : t \in {<<n, item.l>> : n \in N} <=> t[1] \in N /\ t[2] = item.l
    BY <1>1
  <2>4. \A t : OnLabel(item, N, t) <=> (t[1] \in N /\ t[2] = item.l)
    BY <1>5 DEF OnLabel
  <2>5. \A t : ~ OnProp(item, N, t)
    BY <1>5 DEF OnProp
  <2>6. \A t \in Node \X Label : t \in new <=> IF OnLabel(item, N, t) THEN item.i = "label" ELSE t \in g.label
    BY <1>5, <2>3, <2>4
  <2>7. h \in Graph(Node) /\ h.node = g.node /\ h.edge = g.edge /\ h.eprop = g.eprop /\ h.prop = g.prop /\ h.label = new
    <3> HIDE DEF new, h
    <3> QED
      BY <2>1, <2>2 DEF Graph
  <2> HIDE DEF h, new
  <2> QED
    BY <2>5, <2>6, <2>7 DEF h
<1>6. CASE item.i = "unlabel" /\ item.l \in Label
  <2> DEFINE new == g.label \ {<<n, item.l>> : n \in N}
  <2>1. h = [g EXCEPT !.label = new]
    BY <1>6 DEF SetOn
  <2>2. new \subseteq Node \X Label
    BY DEF Graph
  <2>3. \A t \in Node \X Label : t \in {<<n, item.l>> : n \in N} <=> t[1] \in N /\ t[2] = item.l
    BY <1>1
  <2>4. \A t : OnLabel(item, N, t) <=> (t[1] \in N /\ t[2] = item.l)
    BY <1>6 DEF OnLabel
  <2>5. \A t : ~ OnProp(item, N, t)
    BY <1>6 DEF OnProp
  <2>6. \A t \in Node \X Label : t \in new <=> IF OnLabel(item, N, t) THEN item.i = "label" ELSE t \in g.label
    BY <1>6, <2>3, <2>4
  <2>7. h \in Graph(Node) /\ h.node = g.node /\ h.edge = g.edge /\ h.eprop = g.eprop /\ h.prop = g.prop /\ h.label = new
    <3> HIDE DEF new, h
    <3> QED
      BY <2>1, <2>2 DEF Graph
  <2> HIDE DEF h, new
  <2> QED
    BY <2>5, <2>6, <2>7 DEF h
<1> QED
  BY <1>3, <1>4, <1>5, <1>6, SimpleKinds

\* Two graphs that agree but for what the items of K are about, item i on the
\* nodes on[i].
Same(g, h, items, on, K) ==
  /\ g \in Graph(Node) /\ h \in Graph(Node) /\ g.node = h.node /\ g.edge = h.edge /\ g.eprop = h.eprop
  /\ \A t \in Node \X Label : (\A i \in K : ~ OnLabel(items[i], on[i], t)) => (t \in g.label <=> t \in h.label)
  /\ \A t \in Node \X Key \X Val : (\A i \in K : ~ OnProp(items[i], on[i], t)) => (t \in g.prop <=> t \in h.prop)

\* An item done on both leaves them different in what the others are about only.
LEMMA SameStep ==
  ASSUME NEW items, NEW on, NEW K, NEW L, NEW i, K \subseteq L \cup {i}, Simple(items[i]), on[i] \in SUBSET Node,
         NEW g, NEW h, Same(g, h, items, on, K)
  PROVE  Same(SetOn(g, items[i], on[i]), SetOn(h, items[i], on[i]), items, on, L)
<1> DEFINE a == SetOn(g, items[i], on[i])
           b == SetOn(h, items[i], on[i])
<1>1. g \in Graph(Node) /\ h \in Graph(Node)
  BY DEF Same
<1>2. /\ a \in Graph(Node) /\ a.node = g.node /\ a.edge = g.edge /\ a.eprop = g.eprop
      /\ \A t \in Node \X Label :
           t \in a.label <=> IF OnLabel(items[i], on[i], t) THEN items[i].i = "label" ELSE t \in g.label
      /\ \A t \in Node \X Key \X Val :
           t \in a.prop <=> IF OnProp(items[i], on[i], t) THEN t[3] \in Given(items[i]) ELSE t \in g.prop
  BY <1>1, SetOnCells
<1>3. /\ b \in Graph(Node) /\ b.node = h.node /\ b.edge = h.edge /\ b.eprop = h.eprop
      /\ \A t \in Node \X Label :
           t \in b.label <=> IF OnLabel(items[i], on[i], t) THEN items[i].i = "label" ELSE t \in h.label
      /\ \A t \in Node \X Key \X Val :
           t \in b.prop <=> IF OnProp(items[i], on[i], t) THEN t[3] \in Given(items[i]) ELSE t \in h.prop
  BY <1>1, SetOnCells
<1> HIDE DEF a, b
<1>4. ASSUME NEW t \in Node \X Label, \A j \in L : ~ OnLabel(items[j], on[j], t)
      PROVE  t \in a.label <=> t \in b.label
  <2>1. CASE OnLabel(items[i], on[i], t)
    BY <1>2, <1>3, <2>1
  <2>2. CASE ~ OnLabel(items[i], on[i], t)
    <3>1. \A j \in K : ~ OnLabel(items[j], on[j], t)
      BY <1>4, <2>2
    <3>2. t \in g.label <=> t \in h.label
      BY <3>1 DEF Same
    <3> QED
      BY <1>2, <1>3, <2>2, <3>2
  <2> QED
    BY <2>1, <2>2
<1>5. ASSUME NEW t \in Node \X Key \X Val, \A j \in L : ~ OnProp(items[j], on[j], t)
      PROVE  t \in a.prop <=> t \in b.prop
  <2>1. CASE OnProp(items[i], on[i], t)
    BY <1>2, <1>3, <2>1
  <2>2. CASE ~ OnProp(items[i], on[i], t)
    <3>1. \A j \in K : ~ OnProp(items[j], on[j], t)
      BY <1>5, <2>2
    <3>2. t \in g.prop <=> t \in h.prop
      BY <3>1 DEF Same
    <3> QED
      BY <1>2, <1>3, <2>2, <3>2
  <2> QED
    BY <2>1, <2>2
<1>6. a.node = b.node /\ a.edge = b.edge /\ a.eprop = b.eprop
  BY <1>2, <1>3 DEF Same
<1>7. Same(a, b, items, on, L)
  BY <1>2, <1>3, <1>4, <1>5, <1>6 DEF Same
<1> QED
  BY <1>7 DEF a, b

\* One of the items done leaves a difference the items are about.
LEMMA SameBack ==
  ASSUME NEW items, NEW on, NEW K, NEW i \in K, Simple(items[i]), on[i] \in SUBSET Node,
         NEW g, NEW h, Same(g, h, items, on, K)
  PROVE  Same(SetOn(g, items[i], on[i]), h, items, on, K)
<1> DEFINE a == SetOn(g, items[i], on[i])
<1>1. g \in Graph(Node)
  BY DEF Same
<1>2. /\ a \in Graph(Node) /\ a.node = g.node /\ a.edge = g.edge /\ a.eprop = g.eprop
      /\ \A t \in Node \X Label :
           t \in a.label <=> IF OnLabel(items[i], on[i], t) THEN items[i].i = "label" ELSE t \in g.label
      /\ \A t \in Node \X Key \X Val :
           t \in a.prop <=> IF OnProp(items[i], on[i], t) THEN t[3] \in Given(items[i]) ELSE t \in g.prop
  BY <1>1, SetOnCells
<1> HIDE DEF a
<1>3. Same(a, h, items, on, K)
  BY <1>2 DEF Same
<1> QED
  BY <1>3 DEF a

\* Graphs that differ nowhere are one.
LEMMA SameNone ==
  ASSUME NEW items, NEW on, NEW K, \A i : i \notin K, NEW g, NEW h, Same(g, h, items, on, K)
  PROVE  g = h
<1>1. g \in Graph(Node) /\ h \in Graph(Node)
  BY DEF Same
<1>2. g.label \subseteq Node \X Label /\ h.label \subseteq Node \X Label
      /\ g.prop \subseteq Node \X Key \X Val /\ h.prop \subseteq Node \X Key \X Val
  BY <1>1 DEF Graph
<1>3. g.label = h.label /\ g.prop = h.prop
  BY <1>2 DEF Same
<1> QED
  BY <1>1, <1>3, GraphEqual DEF Same

\* A change of labels and properties changes them in what is visible.
LEMMA CellsVisible ==
  ASSUME NEW st \in Graph(Node), NEW new \in Graph(Node), NEW T, Shown(st, T),
         new.node = st.node, new.edge = st.edge, new.eprop = st.eprop
  PROVE  /\ Shown(new, T)
         /\ Visible(new).node = Visible(st).node /\ Visible(new).edge = Visible(st).edge
         /\ Visible(new).eprop = Visible(st).eprop
         /\ Visible(new).label = new.label /\ Visible(new).prop = new.prop
<1>1. Shown(new, T)
  BY DEF Shown
<1> QED
  BY <1>1, VisibleFields

\* The values a graph has for a key at the nodes N, new ones, and the facts they are.
KeyProps(g, N, k) == {t \in g.prop : t[1] \in N /\ t[2] = k}
NewProps(N, k, X) == {<<n, k, x>> : n \in N, x \in X}
KeyFacts(g, N, k) == {f \in Facts(g) : f[1] \in {<<n>> : n \in N} /\ f[2] = k}
NewFacts(N, k, X) == {<< <<n>>, k, x >> : n \in N, x \in X}

\* The facts of a graph about nodes are its properties.
LEMMA KeyFactsAre ==
  ASSUME NEW st \in Graph(Node), NEW N, NEW k
  PROVE  LET F == KeyFacts(st, N, k)
         IN /\ FactGraph(F).prop = KeyProps(st, N, k)
            /\ FactGraph(F).eprop = {} /\ FactGraph(F).node = {} /\ FactGraph(F).label = {} /\ FactGraph(F).edge = {}
<1> DEFINE F == KeyFacts(st, N, k)
           cells == {t \in st.prop : t[1] \in N /\ t[2] = k}
<1>1. \A t \in st.prop : t = <<t[1], t[2], t[3]>>
  BY DEF Graph
<1> USE DEF KeyFacts
<1>2. \A a, b, c, n : <<a, b, c>> # <<n>>
  <2>1. \A a, b, c, n : Len(<<a, b, c>>) = 3 /\ Len(<<n>>) = 1
    OBVIOUS
  <2> QED
    BY <2>1
<1>3. \A f \in F : \E t \in cells : f = << <<t[1]>>, t[2], t[3] >>
  <2> SUFFICES ASSUME NEW f \in F PROVE \E t \in cells : f = << <<t[1]>>, t[2], t[3] >>
    OBVIOUS
  <2>1. PICK n \in N : f[1] = <<n>>
    OBVIOUS
  <2>2. f \in {<< <<t[1]>>, t[2], t[3] >> : t \in st.prop}
    BY <1>2, <2>1 DEF Facts
  <2>3. PICK t \in st.prop : f = << <<t[1]>>, t[2], t[3] >>
    BY <2>2
  <2>4. t[1] = n /\ t[2] = k
    BY <2>1, <2>3
  <2> QED
    BY <2>3, <2>4
<1>4. \A t \in cells : << <<t[1]>>, t[2], t[3] >> \in F
  BY DEF Facts
<1> HIDE DEF F
<1>5. \A f \in F : Len(f[1]) = 1
  BY <1>3
<1>6. {f \in F : Len(f[1]) = 1} = F /\ {f \in F : Len(f[1]) = 3} = {}
  BY <1>5
<1>7. FactGraph(F).prop = {<<f[1][1], f[2], f[3]>> : f \in F}
  BY <1>6 DEF FactGraph, EmptyGraph
<1>8. {<<f[1][1], f[2], f[3]>> : f \in F} = cells
  <2>1. \A f \in F : <<f[1][1], f[2], f[3]>> \in cells
    <3> SUFFICES ASSUME NEW f \in F PROVE <<f[1][1], f[2], f[3]>> \in cells
      OBVIOUS
    <3>1. PICK t \in cells : f = << <<t[1]>>, t[2], t[3] >>
      BY <1>3
    <3>2. <<f[1][1], f[2], f[3]>> = t
      BY <1>1, <3>1
    <3> QED
      BY <3>2
  <2>2. \A t \in cells : \E f \in F : t = <<f[1][1], f[2], f[3]>>
    <3> SUFFICES ASSUME NEW t \in cells PROVE \E f \in F : t = <<f[1][1], f[2], f[3]>>
      OBVIOUS
    <3> DEFINE f == << <<t[1]>>, t[2], t[3] >>
    <3>1. f \in F /\ t = <<f[1][1], f[2], f[3]>>
      BY <1>1, <1>4
    <3> QED
      BY <3>1
  <2> HIDE DEF cells
  <2> QED
    BY <2>1, <2>2
<1>9. FactGraph(F).eprop = {}
  BY <1>6 DEF FactGraph, EmptyGraph
<1>10. FactGraph(F).node = {} /\ FactGraph(F).label = {} /\ FactGraph(F).edge = {}
  BY DEF FactGraph, EmptyGraph
<1> QED
  BY <1>7, <1>8, <1>9, <1>10 DEF F, KeyProps

\* The facts a statement makes about nodes are properties.
LEMMA NewFactsAre ==
  ASSUME NEW N, NEW k, NEW X
  PROVE  LET F == NewFacts(N, k, X)
         IN /\ FactGraph(F).prop = NewProps(N, k, X)
            /\ FactGraph(F).eprop = {} /\ FactGraph(F).node = {} /\ FactGraph(F).label = {} /\ FactGraph(F).edge = {}
<1> DEFINE F == NewFacts(N, k, X)
<1>1. \A f \in F : \E n \in N, x \in X : f = << <<n>>, k, x >>
  BY DEF NewFacts
<1>2. \A n \in N, x \in X : << <<n>>, k, x >> \in F
  BY DEF NewFacts
<1> HIDE DEF F
<1>3. \A f \in F : Len(f[1]) = 1
  BY <1>1
<1>4. {f \in F : Len(f[1]) = 1} = F /\ {f \in F : Len(f[1]) = 3} = {}
  BY <1>3
<1>5. FactGraph(F).prop = {<<f[1][1], f[2], f[3]>> : f \in F}
  BY <1>4 DEF FactGraph, EmptyGraph
<1>6. {<<f[1][1], f[2], f[3]>> : f \in F} = {<<n, k, x>> : n \in N, x \in X}
  <2>1. \A f \in F : <<f[1][1], f[2], f[3]>> \in {<<n, k, x>> : n \in N, x \in X}
    BY <1>1
  <2>2. \A n \in N, x \in X : \E f \in F : <<n, k, x>> = <<f[1][1], f[2], f[3]>>
    <3> SUFFICES ASSUME NEW n \in N, NEW x \in X PROVE \E f \in F : <<n, k, x>> = <<f[1][1], f[2], f[3]>>
      OBVIOUS
    <3> DEFINE f == << <<n>>, k, x >>
    <3>1. f \in F
      BY <1>2
    <3>2. f[1][1] = n /\ f[2] = k /\ f[3] = x
      OBVIOUS
    <3> HIDE DEF f
    <3> QED
      BY <3>1, <3>2, SMTT(20)
  <2> QED
    BY <2>1, <2>2, SMTT(30)
<1>7. FactGraph(F).eprop = {}
  BY <1>4 DEF FactGraph, EmptyGraph
<1>8. FactGraph(F).node = {} /\ FactGraph(F).label = {} /\ FactGraph(F).edge = {}
  BY DEF FactGraph, EmptyGraph
<1> QED
  BY <1>5, <1>6, <1>7, <1>8 DEF F, NewProps

Put(x) == IF x.e = "lit" THEN {x.x} ELSE {}

\* An assignment of a literal or of null, where every row binds the variable.
LEMMA UpsertCells ==
  ASSUME NEW s, s.x.e \in {"lit", "null"}, NEW st \in Graph(Node),
         \A r \in Rows(s.ctx, st) : s.v \in DOMAIN r
  PROVE  LET e == Upsert(s, st)
             N == Named(s, st)
             X == Put(s.x)
         IN /\ e.del.prop = KeyProps(st, N, s.k) /\ e.ins.prop = NewProps(N, s.k, X)
            /\ e.del.node = {} /\ e.del.label = {} /\ e.del.edge = {} /\ e.del.eprop = {}
            /\ e.ins.node = {} /\ e.ins.label = {} /\ e.ins.edge = {} /\ e.ins.eprop = {}
<1> DEFINE R == Rows(s.ctx, st)
           N == Named(s, st)
           X == Put(s.x)
           H == Hits(s, st)
           hit == {h[2] : h \in H}
           old == {f \in Facts(st) : f[1] \in hit /\ f[2] = s.k}
           F == NewFacts(N, s.k, X)
           V(h) == Values(s.x, h[1], s.v, h[2], st)
           G == UNION {{<<h[2], s.k, y>> : y \in V(h)} : h \in H}
<1>0. N = {r[s.v] : r \in R}
  <2>1. {u \in R : s.v \in DOMAIN u} = R
    OBVIOUS
  <2> QED
    BY <2>1 DEF Named
<1>1. \A r \in R : Subjects(r, s.v, s.k, st) = {<<r[s.v]>>}
  BY DEF Subjects
<1>2. H = {<<r, <<r[s.v]>> >> : r \in R}
  <2>1. H = UNION {{<<r, u>> : u \in Subjects(r, s.v, s.k, st)} : r \in R}
    BY DEF Hits
  <2>2. \A r \in R : {<<r, u>> : u \in Subjects(r, s.v, s.k, st)} = {<<r, <<r[s.v]>> >>}
    BY <1>1
  <2> HIDE DEF H
  <2> QED
    BY <2>1, <2>2
<1>3. \A h : V(h) = X
  BY DEF Values, Put
<1> HIDE DEF H, X, V, N
<1>4. hit = {<<n>> : n \in N}
  <2>1. \A h \in H : \E n \in N : h[2] = <<n>>
    BY <1>0, <1>2
  <2>2. \A n \in N : \E h \in H : h[2] = <<n>>
    <3> SUFFICES ASSUME NEW r \in R PROVE \E h \in H : h[2] = <<r[s.v]>>
      BY <1>0
    <3> DEFINE h == <<r, <<r[s.v]>> >>
    <3>1. h \in H /\ h[2] = <<r[s.v]>>
      BY <1>2
    <3> QED
      BY <3>1
  <2> QED
    BY <2>1, <2>2
<1>5. G = F
  <2>1. G = UNION {{<<u, s.k, y>> : y \in X} : u \in hit}
    BY <1>3
  <2> HIDE DEF hit
  <2> QED
    BY <1>4, <2>1 DEF NewFacts
<1>6. Upsert(s, st) = [del |-> FactGraph(old), ins |-> FactGraph(G)]
  BY DEF Upsert, H, V
<1>7. old = KeyFacts(st, N, s.k)
  BY <1>4 DEF KeyFacts
<1> HIDE DEF old, G, F, hit
<1>8. /\ FactGraph(old).prop = KeyProps(st, N, s.k)
      /\ FactGraph(old).eprop = {} /\ FactGraph(old).node = {} /\ FactGraph(old).label = {} /\ FactGraph(old).edge = {}
  BY <1>7, KeyFactsAre
<1>9. /\ FactGraph(F).prop = NewProps(N, s.k, X)
      /\ FactGraph(F).eprop = {} /\ FactGraph(F).node = {} /\ FactGraph(F).label = {} /\ FactGraph(F).edge = {}
  BY NewFactsAre DEF F
<1> QED
  BY <1>5, <1>6, <1>8, <1>9 DEF N, X

\* The nodes the rows of a WHERE give the variable of an item.
Spot(item, c, st) == {r[item.v] : r \in Rows(c, st)}

\* The statement of an item does the item, on the nodes its rows name.
LEMMA SetDoes ==
  ASSUME NEW item, Simple(item), NEW c, Plain(c), item.v \in MustVars(c),
         NEW st \in Graph(Node), NEW T, Shown(st, T), NEW alloc
  PROVE  LET new == Apply(SetStatement(item, c), st, alloc)
         IN /\ Visible(new) = SetOn(Visible(st), item, Spot(item, c, st)) /\ Shown(new, T) /\ new \in Graph(Node)
<1> DEFINE s == SetStatement(item, c)
           new == Apply(s, st, alloc)
           g == Visible(st)
           N == Spot(item, c, st)
           h == SetOn(g, item, N)
<1>1. OrScan(c, item.v) = c
  <2>1. MustVars(NoWhere) = {}
    BY DEF MustVars, NoWhere, Ids, EmptyGraph
  <2> QED
    BY <2>1 DEF OrScan
<1>2. \A r \in Rows(c, st) : item.v \in DOMAIN r /\ r[item.v] \in Node
  <2>1. \A r \in Rows(c, st) : r \in [MustVars(c) -> Node]
    BY PlainRow, PlainRows
  <2> QED
    BY <2>1
<1>3. N \in SUBSET Node /\ g \in Graph(Node)
  BY <1>2, VisibleFields DEF Spot
<1> HIDE DEF N
<1>4. h \in Graph(Node) /\ h.node = g.node /\ h.edge = g.edge /\ h.eprop = g.eprop
  BY <1>3, SetOnCells
<1> SUFFICES /\ new.node = st.node /\ new.edge = st.edge /\ new.eprop = st.eprop
             /\ new.label = h.label /\ new.prop = h.prop
  <2>1. new.label = h.label /\ new.prop = h.prop /\ new.node = st.node /\ new.edge = st.edge /\ new.eprop = st.eprop
    OBVIOUS
  <2>2. new = [node |-> new.node, label |-> new.label, prop |-> new.prop, edge |-> new.edge, eprop |-> new.eprop]
    BY DEF Apply, Patch
  <2> HIDE DEF new, h
  <2>3. new \in Graph(Node)
    BY <1>4, <2>1, <2>2 DEF Graph
  <2>4. Visible(new) = h /\ Shown(new, T)
    <3>1. /\ Shown(new, T)
          /\ Visible(new).node = g.node /\ Visible(new).edge = g.edge /\ Visible(new).eprop = g.eprop
          /\ Visible(new).label = new.label /\ Visible(new).prop = new.prop
      BY <2>1, <2>3, CellsVisible
    <3>2. Visible(new) \in Graph(Node)
      BY <2>3, VisibleFields
    <3> HIDE DEF g
    <3> QED
      BY <1>4, <2>1, <3>1, <3>2, GraphEqual
  <2> QED
    BY <2>3, <2>4 DEF new, h, N
<1>5. g.label = st.label /\ g.prop = st.prop
  BY VisibleFields
<1>6. CASE item.i \in {"prop", "mergeMap", "unprop"}
  <2>1. s.s = "upsert" /\ s.ctx = c /\ s.v = item.v /\ s.k = item.k
    BY <1>1, <1>6 DEF SetStatement
  <2>2. s.x.e \in {"lit", "null"} /\ Put(s.x) = Given(item)
    <3>1. CASE item.i = "unprop"
      BY <1>1, <3>1 DEF SetStatement, Null, Given, Put
    <3>2. CASE item.i \in {"prop", "mergeMap"}
      <4>1. s.x = item.x /\ item.x.e \in {"lit", "null"}
        BY <1>1, <3>2, SimpleKinds DEF SetStatement
      <4> QED
        BY <3>2, <4>1 DEF Given, Assigned, Put
    <3> QED
      BY <1>6, <3>1, <3>2
  <2> DEFINE e == Upsert(s, st)
  <2> HIDE DEF s
  <2>3. \A r \in Rows(s.ctx, st) : s.v \in DOMAIN r
    BY <1>2, <2>1
  <2>4. N = Named(s, st)
    <3>1. {u \in Rows(s.ctx, st) : s.v \in DOMAIN u} = Rows(c, st)
      BY <1>2, <2>1
    <3> QED
      BY <2>1, <3>1 DEF Named, N, Spot
  <2>5. /\ e.del.prop = KeyProps(st, N, s.k) /\ e.ins.prop = NewProps(N, s.k, Given(item))
        /\ e.del.node = {} /\ e.del.label = {} /\ e.del.edge = {} /\ e.del.eprop = {}
        /\ e.ins.node = {} /\ e.ins.label = {} /\ e.ins.edge = {} /\ e.ins.eprop = {}
    <3>1. /\ e.del.prop = KeyProps(st, Named(s, st), s.k) /\ e.ins.prop = NewProps(Named(s, st), s.k, Put(s.x))
          /\ e.del.node = {} /\ e.del.label = {} /\ e.del.edge = {} /\ e.del.eprop = {}
          /\ e.ins.node = {} /\ e.ins.label = {} /\ e.ins.edge = {} /\ e.ins.eprop = {}
      <4>1. s.x.e \in {"lit", "null"}
        BY <2>2
      <4> QED
        BY <2>3, <4>1, UpsertCells
    <3> HIDE DEF e
    <3> QED
      BY <2>2, <2>4, <3>1
  <2>6. new = Patch(st, e.del, e.ins)
    BY <2>1 DEF Apply, Effect
  <2> HIDE DEF e
  <2>7. /\ new.node = st.node /\ new.edge = st.edge /\ new.eprop = st.eprop /\ new.label = st.label
        /\ new.prop = (st.prop \ KeyProps(st, N, item.k)) \cup NewProps(N, item.k, Given(item))
    BY <2>1, <2>5, <2>6 DEF Patch
  <2>8. h.label = g.label /\ h.prop = (st.prop \ KeyProps(st, N, item.k)) \cup NewProps(N, item.k, Given(item))
    <3>1. st.prop \ KeyProps(st, N, item.k) = {t \in g.prop : ~ (t[1] \in N /\ t[2] = item.k)}
      BY <1>5 DEF KeyProps
    <3> DEFINE kept == {t \in g.prop : ~ (t[1] \in N /\ t[2] = item.k)}
    <3>2. CASE item.i = "unprop"
      <4>1. h = [g EXCEPT !.prop = kept]
        BY <3>2 DEF SetOn
      <4>2. NewProps(N, item.k, Given(item)) = {}
        BY <3>2 DEF NewProps, Given
      <4> HIDE DEF kept, h, g
      <4>3. h.label = g.label /\ h.prop = kept
        BY <1>3, <4>1 DEF Graph
      <4> QED
        BY <3>1, <4>2, <4>3 DEF kept
    <3>3. CASE item.i \in {"prop", "mergeMap"}
      <4> DEFINE put == NewProps(N, item.k, Assigned(item))
      <4>1. h = [g EXCEPT !.prop = kept \cup put]
        BY <3>3 DEF SetOn, NewProps
      <4>2. Given(item) = Assigned(item)
        BY <3>3 DEF Given
      <4> HIDE DEF kept, h, g, put
      <4>3. h.label = g.label /\ h.prop = kept \cup put
        BY <1>3, <4>1 DEF Graph
      <4> QED
        BY <3>1, <4>2, <4>3 DEF kept, put
    <3> QED
      BY <1>6, <3>2, <3>3
  <2> QED
    BY <1>5, <2>7, <2>8
<1>7. CASE item.i \in {"label", "unlabel"}
  <2>1. s.ctx = c /\ s.v = item.v /\ s.l = item.l /\ s.s = IF item.i = "label" THEN "addLabel" ELSE "dropLabel"
    BY <1>1, <1>7 DEF SetStatement
  <2> HIDE DEF s
  <2>2. {u \in Rows(s.ctx, st) : s.v \in DOMAIN u} = Rows(c, st)
    BY <1>2, <2>1
  <2>3. Named(s, st) = N
    BY <2>1, <2>2 DEF Named, N, Spot
  <2>4. ~ Loose(s, st)
    BY <1>2, <2>1 DEF Loose
  <2> DEFINE put == {<<n, item.l>> : n \in N}
             gone == {t \in st.label : t[2] = item.l /\ t[1] \in N}
  <2>5. CASE item.i = "label"
    <3>1. h = [g EXCEPT !.label = @ \cup put]
      BY <2>5 DEF SetOn
    <3>2. Effect(s, st, alloc) = [del |-> EmptyGraph, ins |-> [EmptyGraph EXCEPT !.label = put]]
      BY <2>1, <2>3, <2>5 DEF Effect, AddLabel
    <3> HIDE DEF put, h, g
    <3>3. h.label = st.label \cup put /\ h.prop = st.prop
      BY <1>3, <1>5, <3>1 DEF Graph
    <3>4. new = Patch(st, EmptyGraph, [EmptyGraph EXCEPT !.label = put])
      BY <3>2 DEF Apply
    <3>5. /\ new.node = st.node /\ new.edge = st.edge /\ new.eprop = st.eprop /\ new.prop = st.prop
          /\ new.label = st.label \cup put
      BY <3>4 DEF Patch, EmptyGraph
    <3> QED
      BY <3>3, <3>5
  <2>6. CASE item.i = "unlabel"
    <3>1. h = [g EXCEPT !.label = @ \ put]
      BY <2>6 DEF SetOn
    <3>2. Effect(s, st, alloc) = [del |-> [EmptyGraph EXCEPT !.label = gone], ins |-> EmptyGraph]
      BY <2>1, <2>3, <2>4, <2>6 DEF Effect, DropLabel
    <3>3. st.label \ put = st.label \ gone
      <4>1. \A t \in st.label : t = <<t[1], t[2]>>
        BY DEF Graph
      <4>2. \A t \in st.label : t \in put <=> t \in gone
        BY <4>1
      <4> HIDE DEF put, gone
      <4> QED
        BY <4>2
    <3> HIDE DEF put, h, g, gone
    <3>4. h.label = st.label \ gone /\ h.prop = st.prop
      BY <1>3, <1>5, <3>1, <3>3 DEF Graph
    <3>5. new = Patch(st, [EmptyGraph EXCEPT !.label = gone], EmptyGraph)
      BY <3>2 DEF Apply
    <3>6. /\ new.node = st.node /\ new.edge = st.edge /\ new.eprop = st.eprop /\ new.prop = st.prop
          /\ new.label = st.label \ gone
      BY <3>5 DEF Patch, EmptyGraph
    <3> QED
      BY <3>4, <3>6
  <2> QED
    BY <1>7, <2>5, <2>6
<1> QED
  BY <1>6, <1>7, SimpleKinds

\* The nodes of each item of a SET, of the graph the query was asked on.
Items(q) == q.cl[Len(q.cl)].items
Spots(q, g) == [i \in DOMAIN Items(q) |-> Spot(Items(q)[i], ContextOf(q.cl, Len(q.cl)), g)]

\* The items of such a query, and its statements.
LEMMA SetFacts ==
  ASSUME NEW q \in Query, OneClause(q), q.cl[Len(q.cl)].c = "set"
  PROVE  LET n == Len(q.cl) ctx == ContextOf(q.cl, n) items == Items(q) list == OwnStatements(q.cl, n, NoNodes)
         IN /\ items \in Seq(SetItem) /\ Len(items) \in Nat /\ DOMAIN items = 1 .. Len(items)
            /\ Plain(ctx) /\ \A g : Table(q, g) = Rows(ctx, g)
            /\ \A i \in 1 .. Len(items) : Simple(items[i]) /\ items[i].v \in MustVars(ctx)
            /\ Len(list) = Len(items) /\ \A i \in 1 .. Len(items) : list[i] = SetStatement(items[i], ctx)
<1> DEFINE n == Len(q.cl)
           cl == q.cl[n]
           ctx == ContextOf(q.cl, n)
           items == Items(q)
           list == OwnStatements(q.cl, n, NoNodes)
<1>1. cl \in Clause /\ n \in DOMAIN q.cl
  BY Clauses
<1>2. items \in Seq(SetItem)
  BY <1>1 DEF Clause, Items
<1>3. \A i \in DOMAIN items : ItemExact(items[i], q.cl)
  BY <1>1 DEF OneClause, Exact, ClauseExact, Items
<1>4. Plain(ctx) /\ MatchVars(q.cl) \cup Aliases(q.cl) \subseteq MustVars(ctx) /\ \A g : Table(q, g) = Rows(ctx, g)
  BY Reading
<1>5. list = [j \in 1 .. Len(items) |-> SetStatement(items[j], ctx)]
  BY DEF OwnStatements, CompileSetItems, Each, Items
<1> HIDE DEF items, ctx, list
<1>6. Len(items) \in Nat /\ DOMAIN items = 1 .. Len(items) /\ \A i \in 1 .. Len(items) : items[i] \in SetItem
  BY <1>2
<1>7. \A i \in 1 .. Len(items) : Simple(items[i]) /\ items[i].v \in MustVars(ctx)
  BY <1>3, <1>4, <1>6 DEF ItemExact, Simple
<1>8. Len(list) = Len(items) /\ \A i \in 1 .. Len(items) : list[i] = SetStatement(items[i], ctx)
  BY <1>5, <1>6
<1> QED
  BY <1>2, <1>4, <1>6, <1>7, <1>8 DEF items, ctx, list

\* What such a query means is its items, one after the other, on those nodes.
LEMMA SetOutcome ==
  ASSUME NEW q \in Query, OneClause(q), q.cl[Len(q.cl)].c = "set", NEW g
  PROVE  SetEach(g, Items(q), Spots(q, g)) \in Outcomes(q, g)
<1> DEFINE n == Len(q.cl)
           ctx == ContextOf(q.cl, n)
           items == Items(q)
           R == Rows(ctx, g)
           B == {Bind(r, NoneNew) : r \in Table(q, g)}
<1>1. Merged(q, g) = {}
  BY Clauses DEF Merged
<1>2. NoneNew \in NewNodes(q, g) /\ B = R
  BY <1>1, NothingNew
<1>3. /\ Len(items) \in Nat /\ DOMAIN items = 1 .. Len(items) /\ Plain(ctx)
      /\ \A i \in 1 .. Len(items) : items[i].v \in MustVars(ctx)
  BY SetFacts
<1> HIDE DEF B
<1>4. Targets(items, B) = Spots(q, g)
  <2>1. \A i \in DOMAIN items : {c \in R : items[i].v \in DOMAIN c} = R
    <3>1. \A r \in R : DOMAIN r = MustVars(ctx)
      BY <1>3, PlainRow, PlainRows
    <3> QED
      BY <1>3, <3>1
  <2>2. Targets(items, R) = [i \in DOMAIN items |-> {b[items[i].v] : b \in {c \in R : items[i].v \in DOMAIN c}}]
    BY DEF Targets
  <2>3. [i \in DOMAIN items |-> {b[items[i].v] : b \in {c \in R : items[i].v \in DOMAIN c}}]
          = [i \in DOMAIN items |-> {b[items[i].v] : b \in R}]
    <3> HIDE DEF R, items
    <3> QED
      BY <2>1
  <2> QED
    BY <1>2, <2>2, <2>3 DEF Spots, Spot
<1>5. Do(q, g, NoneNew, g, n) = SetEach(g, items, Targets(items, B))
  BY DEF Do, Items, B
<1> QED
  BY <1>2, <1>4, <1>5, OutcomeOf

\* The rows of a SET of several items are those of the graph it was asked on,
\* while only what the items are about has changed.
LEMMA SetRows ==
  ASSUME NEW q \in Query, OneClause(q), q.cl[Len(q.cl)].c = "set", Many(q.cl[Len(q.cl)]),
         NEW on, NEW g, NEW h, Same(h, g, Items(q), on, 1 .. Len(Items(q)))
  PROVE  Rows(ContextOf(q.cl, Len(q.cl)), h) = Rows(ContextOf(q.cl, Len(q.cl)), g)
<1> DEFINE n == Len(q.cl)
           cl == q.cl[n]
           ctx == ContextOf(q.cl, n)
           p == ctx.must
           items == Items(q)
<1>1. /\ items \in Seq(SetItem) /\ Len(items) \in Nat /\ DOMAIN items = 1 .. Len(items) /\ Plain(ctx)
      /\ \A i \in 1 .. Len(items) : Simple(items[i])
  BY SetFacts
<1>2. Touched(q.cl, n) \cap ReadBy(ctx) = {}
  <2>1. n \in Writes(q.cl)
    BY DEF OneClause
  <2>2. Context(q.cl, n) = ctx
    BY DEF Context
  <2> QED
    BY <2>1, <2>2 DEF OneClause, Exact, Independent
<1>3. Touched(q.cl, n) = TouchedByItems(items)
  BY DEF Touched, Items
<1>4. Speaks(p) \subseteq ReadBy(ctx)
  BY DEF ReadBy
<1>5. p \in Graph(Var)
  BY <1>1 DEF Plain, Where
<1>6. ASSUME NEW r \in [MustVars(ctx) -> Node] PROVE Embeds(p, r, h) <=> Embeds(p, r, g)
  <2>0. \A v \in Ids(p) : r[v] \in Node
    BY DEF MustVars
  <2>1. ASSUME NEW t \in p.label PROVE <<r[t[1]], t[2]>> \in h.label <=> <<r[t[1]], t[2]>> \in g.label
    <3>1. t[2] \notin TouchedByItems(items)
      BY <1>2, <1>3, <1>4 DEF Speaks
    <3>2. \A i \in 1 .. Len(items) : ~ OnLabel(items[i], on[i], <<r[t[1]], t[2]>>)
      BY <1>1, <3>1 DEF TouchedByItems, OnLabel
    <3>3. t[1] \in Ids(p) /\ t[2] \in Label
      BY <1>5 DEF Ids, Graph
    <3>4. <<r[t[1]], t[2]>> \in Node \X Label
      BY <2>0, <3>3
    <3> QED
      BY <3>2, <3>4 DEF Same
  <2>2. ASSUME NEW t \in p.prop PROVE <<r[t[1]], t[2], t[3]>> \in h.prop <=> <<r[t[1]], t[2], t[3]>> \in g.prop
    <3>1. t[2] \notin TouchedByItems(items)
      BY <1>2, <1>3, <1>4 DEF Speaks
    <3>2. \A i \in 1 .. Len(items) : ~ OnProp(items[i], on[i], <<r[t[1]], t[2], t[3]>>)
      BY <1>1, <3>1 DEF TouchedByItems, OnProp
    <3>3. t[1] \in Ids(p) /\ t[2] \in Key /\ t[3] \in Val
      BY <1>5 DEF Ids, Graph
    <3>4. <<r[t[1]], t[2], t[3]>> \in Node \X Key \X Val
      BY <2>0, <3>3
    <3> QED
      BY <3>2, <3>4 DEF Same
  <2>3. h.node = g.node /\ h.edge = g.edge /\ h.eprop = g.eprop
    BY DEF Same
  <2> QED
    BY <2>1, <2>2, <2>3 DEF Embeds
<1>7. \A st : Rows(ctx, st) = {r \in [MustVars(ctx) -> Node] :
                                 Embeds(p, r, st) /\ (\A t \in ctx.same : r[t[1]] = r[t[2]]) /\ \A t \in ctx.iri : r[t[1]] = t[2]}
  BY <1>1, PlainRows DEF Matches
<1> QED
  BY <1>6, <1>7

\* The graphs a SET of several items goes through: what has changed is what the
\* items are about, and what differs from the stages of its meaning is what the
\* items still to run are about.
SetStage(q, g, h, i) ==
  LET items == Items(q) on == Spots(q, g)
  IN /\ Same(h, g, items, on, 1 .. Len(items))
     /\ Same(h, Stages(g, items, on)[i - 1], items, on, i .. Len(items))

\* A statement takes it to the next, wherever an earlier run was cut short.
LEMMA SetRuns ==
  ASSUME NEW q \in Query, OneClause(q), q.cl[Len(q.cl)].c = "set", Many(q.cl[Len(q.cl)]),
         NEW g, NEW st \in Graph(Node), NEW T, Shown(st, T), NEW i \in 1 .. Len(Items(q)),
         SetStage(q, g, Visible(st), i), NEW alloc
  PROVE  LET new == Apply(OwnStatements(q.cl, Len(q.cl), NoNodes)[i], st, alloc)
         IN new \in Graph(Node) /\ SetStage(q, g, Visible(new), i + 1) /\ Shown(new, T)
<1> DEFINE n == Len(q.cl)
           ctx == ContextOf(q.cl, n)
           items == Items(q)
           list == OwnStatements(q.cl, n, NoNodes)
           on == Spots(q, g)
           h == Visible(st)
           m == Len(items)
           F == Stages(g, items, on)
           new == Apply(list[i], st, alloc)
<1>1. /\ m \in Nat /\ DOMAIN items = 1 .. m /\ Plain(ctx)
      /\ Simple(items[i]) /\ items[i].v \in MustVars(ctx)
      /\ list[i] = SetStatement(items[i], ctx)
  BY SetFacts
<1>2. Same(h, g, items, on, 1 .. m) /\ Same(h, F[i - 1], items, on, i .. m)
  BY DEF SetStage
<1>3. Rows(ctx, st) = Rows(ctx, g)
  <2>1. Rows(ctx, h) = Rows(ctx, g)
    BY <1>2, SetRows
  <2> QED
    BY <1>1, <2>1, VisibleRows
<1>4. on[i] = Spot(items[i], ctx, st)
  BY <1>1, <1>3 DEF Spots, Spot
<1>5. on[i] \in SUBSET Node
  <2>1. \A r \in Rows(ctx, st) : r \in [MustVars(ctx) -> Node]
    BY <1>1, PlainRow, PlainRows
  <2> QED
    BY <1>1, <1>4, <2>1 DEF Spot
<1> HIDE DEF on, items, ctx, list, F, h, m
<1>6. Visible(new) = SetOn(h, items[i], on[i]) /\ Shown(new, T) /\ new \in Graph(Node)
  BY <1>1, <1>4, SetDoes DEF h
<1>7. i \in 1 .. m /\ i \in Nat
  BY <1>1 DEF m, items
<1> HIDE DEF new
<1>8. Same(SetOn(h, items[i], on[i]), g, items, on, 1 .. m)
  BY <1>1, <1>2, <1>5, <1>7, SameBack
<1>9. F[i] = SetOn(F[i - 1], items[i], on[i])
  BY <1>1, <1>7, StagesFacts DEF F, m
<1>10. Same(SetOn(h, items[i], on[i]), F[i], items, on, (i + 1) .. m)
  <2>1. i .. m \subseteq ((i + 1) .. m) \cup {i}
    BY <1>1, <1>7
  <2>2. Same(SetOn(h, items[i], on[i]), SetOn(F[i - 1], items[i], on[i]), items, on, (i + 1) .. m)
    BY <1>1, <1>2, <1>5, <2>1, SameStep
  <2> QED
    BY <1>9, <2>2
<1>11. (i + 1) - 1 = i
  BY <1>7
<1>12. SetStage(q, g, Visible(new), i + 1)
  BY <1>6, <1>8, <1>10, <1>11 DEF SetStage, items, on, F, m
<1> QED
  BY <1>6, <1>12 DEF new, list

\* It starts there, also in a store an earlier run was cut short in.
LEMMA SetStarts ==
  ASSUME NEW q, Len(Items(q)) \in Nat, NEW g \in Graph(Node), NEW h, NEW i, SetStage(q, g, h, i)
  PROVE  SetStage(q, g, h, 1)
<1>1. Stages(g, Items(q), Spots(q, g))[1 - 1] = g
  <2>1. 1 - 1 = 0
    OBVIOUS
  <2> QED
    BY <2>1, StagesFacts
<1> QED
  BY <1>1 DEF SetStage

LEMMA SetFresh ==
  ASSUME NEW q, Len(Items(q)) \in Nat, NEW g \in Graph(Node)
  PROVE  SetStage(q, g, g, 1)
<1>1. Stages(g, Items(q), Spots(q, g))[1 - 1] = g
  <2>1. 1 - 1 = 0
    OBVIOUS
  <2> QED
    BY <2>1, StagesFacts
<1>2. \A items, on, K : Same(g, g, items, on, K)
  BY DEF Same
<1> QED
  BY <1>1, <1>2 DEF SetStage

\* And it ends in what the query means.
LEMMA SetEnds ==
  ASSUME NEW q \in Query, OneClause(q), q.cl[Len(q.cl)].c = "set", NEW g, NEW h,
         SetStage(q, g, h, Len(Items(q)) + 1)
  PROVE  h \in Outcomes(q, g)
<1> DEFINE items == Items(q)
           m == Len(items)
           on == Spots(q, g)
           F == Stages(g, items, on)
<1>1. m \in Nat
  BY SetFacts
<1>2. Same(h, F[m + 1 - 1], items, on, (m + 1) .. m)
  BY DEF SetStage
<1>3. m + 1 - 1 = m /\ \A i : i \notin (m + 1) .. m
  BY <1>1
<1> HIDE DEF F, on, m
<1>4. h = F[m]
  <2>1. Same(h, F[m], items, on, (m + 1) .. m)
    BY <1>2, <1>3
  <2> QED
    BY <1>3, <2>1, SameNone
<1>5. F[m] \in Outcomes(q, g)
  BY SetOutcome DEF SetEach, F, m, on
<1> QED
  BY <1>4, <1>5

\* A SET of one item, or of none, is one statement at most.
LEMMA SetMeans ==
  ASSUME NEW q \in Query, OneClause(q), q.cl[Len(q.cl)].c = "set", ~ Many(q.cl[Len(q.cl)]), NEW T
  PROVE  Means(q, OwnStatements(q.cl, Len(q.cl), NoNodes), T)
<1> DEFINE n == Len(q.cl)
           ctx == ContextOf(q.cl, n)
           items == Items(q)
           list == OwnStatements(q.cl, n, NoNodes)
           m == Len(items)
<1>1. /\ m \in Nat /\ DOMAIN items = 1 .. m /\ Plain(ctx) /\ Len(list) = m
      /\ \A i \in 1 .. m : Simple(items[i]) /\ items[i].v \in MustVars(ctx) /\ list[i] = SetStatement(items[i], ctx)
  BY SetFacts
<1>2. m = 0 \/ m = 1
  <2>1. ~ (m > 1)
    BY DEF Many, Items
  <2> HIDE DEF m
  <2> QED
    BY <1>1, <2>1
<1>3. \A g : /\ Stages(g, items, Spots(q, g))[0] = g
             /\ \A i \in 1 .. m : Stages(g, items, Spots(q, g))[i]
                                    = SetOn(Stages(g, items, Spots(q, g))[i - 1], items[i], Spots(q, g)[i])
  BY <1>1, StagesFacts
<1>4. \A g : Stages(g, items, Spots(q, g))[m] \in Outcomes(q, g)
  BY SetOutcome DEF SetEach
<1>5. CASE m = 0
  <2>1. \A g : g \in Outcomes(q, g)
    BY <1>3, <1>4, <1>5
  <2>2. list = <<>>
    <3>1. list = [j \in 1 .. Len(items) |-> SetStatement(items[j], ctx)]
      BY DEF OwnStatements, CompileSetItems, Each, Items
    <3> HIDE DEF list, items
    <3> QED
      BY <1>5, <3>1
  <2> QED
    BY <2>1, <2>2 DEF Means
<1>6. CASE m = 1
  <2>1. 1 \in 1 .. m
    BY <1>6
  <2>2. ASSUME NEW st \in Graph(Node), Shown(st, T), NEW alloc
        PROVE  Visible(Apply(list[1], st, alloc)) \in Outcomes(q, Visible(st)) /\ Shown(Apply(list[1], st, alloc), T)
    <3> DEFINE g == Visible(st)
               on == Spots(q, g)
    <3>1. Rows(ctx, g) = Rows(ctx, st)
      BY <1>1, VisibleRows
    <3>2. on[1] = Spot(items[1], ctx, st)
      BY <1>1, <2>1, <3>1 DEF Spots, Spot
    <3>3. Simple(items[1]) /\ items[1].v \in MustVars(ctx) /\ list[1] = SetStatement(items[1], ctx)
      BY <1>1, <2>1
    <3> HIDE DEF on, items, ctx, list, m
    <3>4. Visible(Apply(list[1], st, alloc)) = SetOn(g, items[1], on[1]) /\ Shown(Apply(list[1], st, alloc), T)
      BY <1>1, <2>2, <3>2, <3>3, SetDoes
    <3>5. SetOn(g, items[1], on[1]) \in Outcomes(q, g)
      <4>1. Stages(g, items, on)[1] \in Outcomes(q, g)
        BY <1>4, <1>6 DEF on
      <4>2. Stages(g, items, on)[0] = g /\ Stages(g, items, on)[1] = SetOn(Stages(g, items, on)[1 - 1], items[1], on[1])
        BY <1>3, <2>1 DEF on
      <4>3. 1 - 1 = 0
        OBVIOUS
      <4> HIDE DEF g
      <4> QED
        BY <4>1, <4>2, <4>3
    <3> QED
      BY <3>4, <3>5
  <2>3. Len(list) = 1
    BY <1>1, <1>6
  <2> HIDE DEF list
  <2>4. Means(q, list, T)
    BY <2>2, <2>3 DEF Means
  <2> QED
    BY <2>4 DEF list
<1> QED
  BY <1>2, <1>5, <1>6

-----------------------------------------------------------------------------
(* The statements of a query of one write clause *)

LastOf(q) == q.cl[Len(q.cl)]

\* Its list, and whether there is one.
List(q) ==
  IF LastOf(q).c = "create"
  THEN CompileCreate(LastOf(q), ContextOf(q.cl, Len(q.cl)), Mapped(LastOf(q), ContextOf(q.cl, Len(q.cl))))
  ELSE OwnStatements(q.cl, Len(q.cl), NoNodes)

Compilable(q) ==
  /\ LastOf(q).c # "call"
  /\ LastOf(q).c = "create" =>
       ContextSupported(q.cl, Len(q.cl)) /\ CreateSupported(LastOf(q), ContextOf(q.cl, Len(q.cl)))
  /\ LastOf(q).c # "create" => OwnSupported(q.cl, Len(q.cl), NoNodes)

\* The only lists of more than one statement are those of several items.
InSteps(q) == LastOf(q).c = "set" /\ Many(LastOf(q))

\* No relationship it makes is of a type a query deletes.
Fits(q) == q \in Query /\ OneClause(q) /\ \A x \in Linked(LastOf(q)) : x \notin Unlinked(Query)

LEMMA ListMeans ==
  ASSUME NEW q, Fits(q), ~ InSteps(q), LastOf(q).c # "call"
  PROVE  Means(q, List(q), Unlinked(Query))
<1> DEFINE cl == q.cl[Len(q.cl)]
<1>1. q \in Query /\ OneClause(q) /\ \A x \in Linked(cl) : x \notin Unlinked(Query)
  BY DEF Fits, LastOf
<1>2. cl.c \in {"create", "set", "delete", "mergeNode", "mergeRel", "call"} /\ Len(q.cl) \in DOMAIN q.cl
  BY <1>1, Clauses
<1>3. CASE cl.c = "create"
  BY <1>1, <1>3, CreateMeans DEF List, LastOf
<1>4. CASE cl.c # "create"
  <2>1. List(q) = OwnStatements(q.cl, Len(q.cl), NoNodes)
    BY <1>4 DEF List, LastOf
  <2>2. CASE cl.c = "set"
    BY <1>1, <2>1, <2>2, SetMeans DEF LastOf, InSteps
  <2>3. CASE cl.c = "delete"
    <3>1. Deletes(q)
      BY <1>2, <2>3 DEF Deletes
    <3>2. \A t \in RelVars(q.cl, DOMAIN q.cl) : t[3] \in Unlinked(Query)
      BY <1>1, <3>1 DEF Unlinked
    <3> QED
      BY <1>1, <2>1, <2>3, <3>2, DeleteMeans
  <2>4. CASE cl.c = "mergeNode"
    BY <1>1, <2>1, <2>4, MergeNodeMeans
  <2>5. CASE cl.c = "mergeRel"
    BY <1>1, <2>1, <2>5, MergeRelMeans
  <2> QED
    BY <1>2, <1>4, <2>2, <2>3, <2>4, <2>5 DEF LastOf
<1> QED
  BY <1>3, <1>4

\* The list is as long as what it means takes.
LEMMA ListLength ==
  ASSUME NEW q, Fits(q), LastOf(q).c # "call"
  PROVE  /\ InSteps(q) => Len(List(q)) = Len(Items(q)) /\ Len(Items(q)) \in Nat
         /\ ~ InSteps(q) => \/ Len(List(q)) = 1
                            \/ Len(List(q)) = 0 /\ \A g \in Graph(Node) : Visible(g) \in Outcomes(q, Visible(g))
<1>1. q \in Query /\ OneClause(q)
  BY DEF Fits
<1>2. CASE InSteps(q)
  BY <1>1, <1>2, SetFacts DEF InSteps, List, LastOf
<1>3. CASE ~ InSteps(q)
  <2>1. Means(q, List(q), Unlinked(Query))
    BY <1>1, <1>3, ListMeans
  <2>2. Len(<<>>) = 0
    OBVIOUS
  <2> QED
    BY <1>3, <2>1, <2>2 DEF Means
<1> QED
  BY <1>2, <1>3

\* What the statements so far have made of the store the query was submitted to.
Reached ==
  IF InSteps(query) THEN SetStage(query, Visible(base), Visible(store), ip)
  ELSE \/ ip = 1 /\ store = base
       \/ ip > Len(List(query)) /\ Visible(store) \in Outcomes(query, Visible(base))

\* At its start a list has reached the store it was submitted to.
LEMMA StartReached ==
  ASSUME NEW q, Fits(q), query' = q, base' \in Graph(Node), store' = base', ip' = 1
  PROVE  Reached'
<1>1. CASE InSteps(q)
  <2>1. Len(Items(q)) \in Nat
    BY <1>1, SetFacts DEF Fits, InSteps, LastOf
  <2>2. Visible(base') \in Graph(Node)
    BY VisibleFields
  <2>3. SetStage(q, Visible(base'), Visible(base'), 1)
    BY <2>1, <2>2, SetFresh
  <2> QED
    BY <1>1, <2>3 DEF Reached
<1>2. CASE ~ InSteps(q)
  BY <1>2 DEF Reached
<1> QED
  BY <1>1, <1>2

\* So it has in a store where an earlier run of it was cut short.
LEMMA AgainReached ==
  ASSUME Fits(query), base \in Graph(Node), Reached, ip <= Len(List(query)), ip \in Nat, Len(List(query)) \in Nat,
         UNCHANGED <<query, base, store>>, ip' = 1
  PROVE  Reached'
<1>1. CASE InSteps(query)
  <2>1. Len(Items(query)) \in Nat
    BY <1>1, SetFacts DEF Fits, InSteps, LastOf
  <2>2. Visible(base) \in Graph(Node)
    BY VisibleFields
  <2>3. SetStage(query, Visible(base), Visible(store), 1)
    BY <1>1, <2>1, <2>2, SetStarts DEF Reached
  <2> QED
    BY <1>1, <2>3 DEF Reached
<1>2. CASE ~ InSteps(query)
  BY <1>2 DEF Reached
<1> QED
  BY <1>1, <1>2

\* A statement of a list of one leaves what the query means; one of several takes
\* the store to the next stage.
LEMMA StatementReaches ==
  ASSUME Fits(query), LastOf(query).c # "call", store \in Graph(Node), base \in Graph(Node), Reached,
         Shown(store, Unlinked(Query)), ip \in 1 .. Len(List(query)), Len(List(query)) \in Nat,
         NEW alloc \in Allocations(List(query)[ip], store), store' = Apply(List(query)[ip], store, alloc),
         ip' = ip + 1, UNCHANGED <<query, base>>
  PROVE  Reached' /\ Shown(store', Unlinked(Query))
<1> DEFINE T == Unlinked(Query)
<1>0. query \in Query /\ OneClause(query)
  BY DEF Fits
<1>1. CASE InSteps(query)
  <2>1. ip \in 1 .. Len(Items(query))
    BY <1>1, ListLength
  <2>2. LastOf(query).c = "set" /\ Many(LastOf(query)) /\ List(query) = OwnStatements(query.cl, Len(query.cl), NoNodes)
    BY <1>1 DEF InSteps, List
  <2>3. SetStage(query, Visible(base), Visible(store), ip)
    BY <1>1 DEF Reached
  <2> HIDE DEF T
  <2>4. SetStage(query, Visible(base), Visible(store'), ip + 1) /\ Shown(store', T)
    BY <1>0, <2>1, <2>2, <2>3, SetRuns DEF LastOf, T
  <2> QED
    BY <1>1, <2>4 DEF Reached, T
<1>2. CASE ~ InSteps(query)
  <2>1. Len(List(query)) = 1 /\ ip = 1
    BY <1>2, ListLength
  <2>2. store = base
    BY <1>2, <2>1 DEF Reached
  <2>3. Means(query, List(query), T)
    BY <1>2, ListMeans
  <2>4. List(query) # <<>>
    <3>1. Len(<<>>) = 0
      OBVIOUS
    <3> QED
      BY <2>1, <3>1, SMTT(30)
  <2> HIDE DEF T
  <2>5. Visible(store') \in Outcomes(query, Visible(store)) /\ Shown(store', T)
    BY <2>1, <2>3, <2>4, SMTT(30) DEF Means, T
  <2> QED
    BY <1>2, <2>1, <2>2, <2>5 DEF Reached, T
<1> QED
  BY <1>1, <1>2

\* A list that has run leaves an outcome of its query.
LEMMA AllReached ==
  ASSUME Fits(query), LastOf(query).c # "call", base \in Graph(Node), Reached, ip = Len(List(query)) + 1
  PROVE  Visible(store) \in Outcomes(query, Visible(base))
<1>1. CASE InSteps(query)
  <2>1. SetStage(query, Visible(base), Visible(store), Len(Items(query)) + 1)
    BY <1>1, ListLength DEF Reached
  <2> QED
    BY <1>1, <2>1, SetEnds DEF Fits, InSteps, LastOf
<1>2. CASE ~ InSteps(query)
  <2>1. CASE Visible(store) \in Outcomes(query, Visible(base))
    BY <2>1
  <2>2. CASE ip = 1 /\ store = base
    <3>1. Len(List(query)) = 0
      BY <1>2, <2>2, ListLength
    <3>2. \A g \in Graph(Node) : Visible(g) \in Outcomes(query, Visible(g))
      BY <1>2, <3>1, ListLength
    <3> QED
      BY <2>2, <3>2
  <2> QED
    BY <1>2, <2>1, <2>2 DEF Reached
<1> QED
  BY <1>1, <1>2

-----------------------------------------------------------------------------
(* The walk over a query of one write clause *)

\* What compile_create makes of bnode_map and the counter does not matter.
LEMMA CreateListed ==
  ASSUME NEW q \in Query, OneWrite(q), LastOf(q).c = "create", NEW num
  PROVE  LET n == Len(q.cl) ctx == ContextOf(q.cl, n)
         IN CreateMap(LastOf(q), ctx, NoNodes, num) = Mapped(LastOf(q), ctx)
<1> DEFINE n == Len(q.cl)
           cl == LastOf(q)
           ctx == ContextOf(q.cl, n)
           new == NewVars(cl, ctx, NoNodes)
           named == IF ctx = NoWhere THEN new \ AnonVar ELSE {}
<1>1. NoNodes.iri = {} /\ NoNodes.blank = {} /\ NoNodes.row = {}
  BY DEF NoNodes
<1>2. new = cl.g.node \ WhereVars(ctx)
  BY <1>1 DEF NewVars
<1>3. named = {}
  BY <1>2 DEF OneWrite, LastOf
<1>4. CreateMap(cl, ctx, NoNodes, num) =
        [iri |-> {<<v, StableIri[num[v]]>> : v \in named},
         blank |-> new \ named, row |-> cl.g.node \cap WhereVars(ctx)]
  <2>1. NoNodes.blank \cup {t[1] : t \in NoNodes.iri} = {}
    BY <1>1
  <2> HIDE DEF ctx, cl
  <2> QED
    BY <1>1, <2>1 DEF CreateMap
<1> HIDE DEF named, new
<1>5. {<<v, StableIri[num[v]]>> : v \in named} = {}
  BY <1>3
<1> QED
  BY <1>2, <1>3, <1>4, <1>5 DEF Mapped

\* Nothing inside the clause writes.
LEMMA NoneBelow ==
  ASSUME NEW q \in Query, OneClause(q)
  PROVE  ~ HasWrite(q.cl, Len(q.cl) - 1)
  BY Clauses DEF HasWrite, IsWrite

\* The one clause that writes is where the walk starts, waits, and is done.
WalkShape ==
  LET n == Len(query.cl)
  IN \/ at = n /\ waiting = <<>> /\ out = <<>> /\ bmap = NoNodes
     \/ at = 0 /\ waiting = <<n>> /\ out = <<>> /\ bmap = NoNodes /\ LastOf(query).c # "create"
     \/ at = 0 /\ waiting = <<>> /\ out = List(query) /\ Compilable(query)

LEMMA VisitShape ==
  ASSUME query \in Query, OneClause(query), WalkShape, VisitWrite
  PROVE  WalkShape'
<1> DEFINE n == Len(query.cl)
<1>1. at > 0 /\ query.cl[at].c \in {"set", "delete", "mergeNode", "mergeRel"}
  BY DEF VisitWrite
<1>2. at = n /\ waiting = <<>> /\ out = <<>> /\ bmap = NoNodes
  BY <1>1 DEF WalkShape
<1>3. at' = 0 /\ UNCHANGED <<query, out, bmap>> /\ waiting' = <<n>> \o <<>>
  BY <1>2, NoneBelow DEF VisitWrite, Below
<1>4. waiting' = <<n>> /\ LastOf(query).c # "create"
  BY <1>1, <1>2, <1>3 DEF LastOf
<1> QED
  BY <1>2, <1>3, <1>4 DEF WalkShape

LEMMA ReadShape ==
  ASSUME query \in Query, OneClause(query), WalkShape
  PROVE  ~ VisitRead
<1> SUFFICES ASSUME VisitRead PROVE FALSE
  OBVIOUS
<1>1. at > 0 /\ ~ IsWrite(query.cl[at])
  BY DEF VisitRead
<1>2. at = Len(query.cl)
  BY <1>1 DEF WalkShape
<1>3. IsWrite(query.cl[Len(query.cl)])
  BY Clauses DEF IsWrite
<1> QED
  BY <1>1, <1>2, <1>3

LEMMA EmitShape ==
  ASSUME query \in Query, OneClause(query), WalkShape, Emit
  PROVE  WalkShape'
<1> DEFINE n == Len(query.cl)
           list == OwnStatements(query.cl, n, NoNodes)
<1>1. at = 0 /\ waiting # <<>>
  BY DEF Emit
<1>2. /\ LastOf(query) = query.cl[n] /\ n \in Nat /\ n > 0 /\ n \in DOMAIN query.cl
      /\ LastOf(query).c \in {"create", "set", "delete", "mergeNode", "mergeRel", "call"}
      /\ query.cl \in Seq(Clause) /\ \A j \in DOMAIN query.cl : Lowered(query.cl, j)
  BY Clauses DEF LastOf
<1>3. waiting = <<n>> /\ out = <<>> /\ bmap = NoNodes /\ LastOf(query).c # "create"
  BY <1>1, <1>2 DEF WalkShape
<1>4. Head(waiting) = n /\ Tail(waiting) = <<>>
  BY <1>3
<1>5. OwnSupported(query.cl, n, NoNodes) /\ out' = <<>> \o list
  BY <1>3, <1>4 DEF Emit
<1>6. list = List(query)
  BY <1>3 DEF List
<1>7. Compilable(query)
  <2>1. LastOf(query).c # "call"
    BY <1>2, <1>5 DEF OwnSupported
  <2> QED
    BY <1>3, <1>5, <2>1 DEF Compilable
<1>8. list \in Seq(Shaped)
  <2>1. Emits(list, NoNodes.iri)
    BY <1>2, <1>5, NoNodesFacts, OwnFacts
  <2> QED
    BY <2>1 DEF Emits
<1> HIDE DEF list
<1>9. out' = List(query)
  BY <1>5, <1>6, <1>8
<1>10. at' = 0 /\ waiting' = <<>> /\ query' = query
  BY <1>1, <1>4 DEF Emit
<1> QED
  BY <1>7, <1>9, <1>10 DEF WalkShape

\* The walk is done when there is a list.
LEMMA DoneShape ==
  ASSUME query \in Query, OneClause(query), WalkShape, Compiled
  PROVE  out = List(query) /\ Compilable(query)
<1>1. at = 0 /\ waiting = <<>>
  BY DEF Compiled
<1>2. Len(query.cl) > 0
  BY Clauses
<1>3. <<Len(query.cl)>> # <<>>
  OBVIOUS
<1> QED
  BY <1>1, <1>2, <1>3 DEF WalkShape

\* And refused when there is none.
LEMMA RefusedShape ==
  ASSUME query \in Query, OneClause(query), WalkShape, Refused
  PROVE  ~ Compilable(query)
<1> DEFINE n == Len(query.cl)
<1>1. LastOf(query) = query.cl[n] /\ n \in Nat /\ n > 0
  BY Clauses DEF LastOf
<1>2. CASE at = n /\ waiting = <<>> /\ out = <<>> /\ bmap = NoNodes
  BY <1>1, <1>2 DEF Refused, Compilable
<1>3. CASE at = 0 /\ waiting = <<n>> /\ out = <<>> /\ bmap = NoNodes /\ LastOf(query).c # "create"
  <2>1. Head(waiting) = n
    BY <1>3
  <2> QED
    BY <1>1, <1>3, <2>1 DEF Refused, Compilable
<1>4. CASE at = 0 /\ waiting = <<>> /\ out = List(query) /\ Compilable(query)
  BY <1>4 DEF Refused
<1> QED
  BY <1>2, <1>3, <1>4 DEF WalkShape

-----------------------------------------------------------------------------
(* The inductive invariant: what the store is while a query is served. *)

CommitInv ==
  /\ Shown(store, Unlinked(Query))
  /\ pc = "idle" => store = committed
  /\ pc # "idle" => query \in Query /\ committed = base /\ Reached
  /\ pc # "idle" /\ store # base => Compilable(query)
  /\ pc = "walk" => ip = 1 /\ WalkShape
  /\ pc \in {"run", "failed"} => out = List(query) /\ Compilable(query)
  /\ pc = "failed" => MaxFailures # 0 /\ ip <= Len(out)

\* Hypotheses of the theorem: queries of one write clause, and no hidden triple
\* in the stores they start with.
OneByOne == OneWriteEach(Query) /\ \A g \in Graphs : Visible(g) = g

\* While a query is served, there is a clause that writes, the last one.
LEMMA Serving ==
  ASSUME OneByOne, TypeInv, CommitInv, pc # "idle"
  PROVE  /\ query \in Query /\ OneWrite(query) /\ OneClause(query) /\ Fits(query)
         /\ committed = base /\ Reached /\ LastOf(query) = query.cl[Len(query.cl)]
         /\ ~ (query.ret /\ Deletes(query))
         /\ store \in Graph(Node) /\ base \in Graph(Node)
         /\ ip \in 1 .. Len(out) + 1 /\ Len(out) \in Nat
<1>1. query \in Query /\ OneWrite(query) /\ committed = base /\ Reached
  BY DEF CommitInv, OneByOne, OneWriteEach
<1>2. OneClause(query)
  BY <1>1 DEF OneWrite
<1>3. store \in Graph(Node) /\ base \in Graph(Node) /\ ip \in 1 .. Len(out) + 1 /\ Len(out) \in Nat
  BY DEF TypeInv, TypeOK
<1>4. ~ (query.ret /\ Deletes(query))
  BY <1>2 DEF OneClause, Exact
<1>5. Fits(query)
  BY <1>1, <1>2 DEF Fits, OneByOne, OneWriteEach, LastOf
<1> QED
  BY <1>1, <1>2, <1>3, <1>4, <1>5 DEF LastOf

\* A session starts with nothing hidden.
LEMMA InitCommits == OneByOne /\ Init => CommitInv
<1> SUFFICES ASSUME OneByOne, Init PROVE CommitInv
  OBVIOUS
<1>1. store \in Graph(Node) /\ Visible(store) = store
  BY QueryAssumption DEF Init, OneByOne
<1>2. Shown(store, Unlinked(Query))
  BY <1>1, VisibleFields DEF Shown
<1> QED
  BY <1>2 DEF Init, CommitInv

\* Compiling begins at the last clause, of a store that is the base or one an
\* earlier run of the same query has changed.
LEMMA CompileCommits ==
  ASSUME OneByOne, NEW q \in Query, query' = q, Compile(q),
         Shown(store, Unlinked(Query)), UNCHANGED <<store, committed>>, committed = base', Reached',
         store # base' => Compilable(q)
  PROVE  CommitInv'
<1>1. ~ (q.ret /\ Deletes(q))
  BY DEF OneByOne, OneWriteEach, OneWrite, OneClause, Exact
<1>2. pc' = "walk" /\ at' = Len(q.cl) /\ waiting' = <<>> /\ out' = <<>> /\ bmap' = NoNodes /\ ip' = 1
  BY <1>1 DEF Compile
<1>3. WalkShape'
  BY <1>2 DEF WalkShape
<1> QED
  BY <1>2, <1>3 DEF CommitInv

\* A query is submitted to the store the last one left.
LEMMA SubmitCommits ==
  ASSUME OneByOne, TypeInv, CommitInv, Submit
  PROVE  CommitInv'
<1>1. PICK q \in Query : query' = q /\ Compile(q)
  BY DEF Submit
<1>2. base' = store /\ UNCHANGED <<store, committed>> /\ committed = base' /\ Shown(store, Unlinked(Query))
  BY DEF Submit, CommitInv, client
<1>3. Fits(q)
  BY DEF OneByOne, OneWriteEach, OneWrite, Fits, LastOf
<1>4. base' \in Graph(Node) /\ store' = base' /\ ip' = 1
  BY <1>1, <1>2 DEF TypeInv, TypeOK, Compile
<1>5. Reached'
  BY <1>1, <1>3, <1>4, StartReached
<1> QED
  BY <1>1, <1>2, <1>5, CompileCommits

\* A query that failed is compiled again, on what its statements have left.
LEMMA RetryCommits ==
  ASSUME OneByOne, TypeInv, CommitInv, Retry
  PROVE  CommitInv'
<1>1. pc = "failed" /\ Compile(query) /\ UNCHANGED <<store, query, base, committed>> /\ ip' = 1
  BY DEF Retry, client, Compile
<1>2. /\ query \in Query /\ Fits(query) /\ committed = base /\ Reached /\ base \in Graph(Node)
      /\ ip \in 1 .. Len(out) + 1 /\ Len(out) \in Nat
  BY <1>1, Serving
<1>3. out = List(query) /\ Compilable(query) /\ ip <= Len(out) /\ Shown(store, Unlinked(Query))
  BY <1>1 DEF CommitInv
<1>4. Reached'
  BY <1>1, <1>2, <1>3, AgainReached
<1> QED
  BY <1>1, <1>2, <1>3, <1>4, CompileCommits

\* A step of the walk leaves what was reached alone.
LEMMA StillReached ==
  ASSUME CommitInv, pc = "walk", pc' \in {"walk", "run"}, UNCHANGED <<store, query, base, ip, committed>>,
         pc' = "walk" => WalkShape', pc' = "run" => out' = List(query) /\ Compilable(query)
  PROVE  CommitInv'
<1>1. Reached' <=> Reached
  BY DEF Reached
<1> QED
  BY <1>1 DEF CommitInv

\* The walk is at the one clause that writes, or done.
LEMMA CreateCommits ==
  ASSUME OneByOne, TypeInv, CommitInv, VisitCreate
  PROVE  CommitInv'
<1> DEFINE n == Len(query.cl)
           cl == query.cl[n]
           ctx == ContextOf(query.cl, n)
<1>1. pc = "walk" /\ at > 0 /\ query.cl[at].c = "create"
  BY DEF VisitCreate
<1>2. query \in Query /\ OneWrite(query) /\ OneClause(query) /\ LastOf(query) = cl
  BY <1>1, Serving
<1>3. at = n /\ waiting = <<>> /\ out = <<>> /\ bmap = NoNodes
  BY <1>1 DEF CommitInv, WalkShape
<1>4. cl.c = "create" /\ ContextSupported(query.cl, n) /\ CreateSupported(cl, ctx)
  BY <1>3 DEF VisitCreate
<1>5. bmap' = Mapped(cl, ctx)
  <2>1. \E num : bmap' = CreateMap(cl, ctx, NoNodes, num)
    BY <1>3 DEF VisitCreate
  <2>2. \A num : CreateMap(cl, ctx, NoNodes, num) = Mapped(cl, ctx)
    BY <1>2, <1>4, CreateListed
  <2> QED
    BY <2>1, <2>2
<1>6. out' = <<>> \o CompileCreate(cl, ctx, Mapped(cl, ctx))
  BY <1>3, <1>5 DEF VisitCreate
<1>7. out' = List(query)
  <2>1. CompileCreate(cl, ctx, Mapped(cl, ctx)) = List(query)
    BY <1>2, <1>4 DEF List
  <2>2. List(query) = <<>> \/ \E s : List(query) = <<s>>
    BY <2>1 DEF CompileCreate
  <2> QED
    BY <1>6, <2>1, <2>2
<1>8. at' = 0 /\ UNCHANGED <<store, query, base, pc, waiting, ip, committed>>
  BY <1>2, <1>3, NoneBelow DEF VisitCreate, Below, client
<1>9. Compilable(query)
  BY <1>2, <1>4 DEF Compilable
<1>10. WalkShape'
  BY <1>3, <1>7, <1>8, <1>9 DEF WalkShape
<1> QED
  BY <1>1, <1>8, <1>10, StillReached

LEMMA WalkCommits ==
  ASSUME OneByOne, TypeInv, CommitInv, VisitWrite \/ VisitRead \/ Emit \/ Compiled
  PROVE  CommitInv'
<1>1. pc = "walk" /\ UNCHANGED <<store, query, base, ip, committed>>
  BY DEF VisitWrite, VisitRead, Emit, Compiled, client
<1>2. query \in Query /\ OneClause(query) /\ WalkShape
  BY <1>1, Serving DEF CommitInv
<1>3. ~ VisitRead
  BY <1>2, ReadShape
<1>4. CASE VisitWrite \/ Emit
  <2>1. WalkShape'
    BY <1>2, <1>4, VisitShape, EmitShape
  <2>2. pc' = "walk"
    BY <1>1, <1>4 DEF VisitWrite, Emit
  <2> QED
    BY <1>1, <2>1, <2>2, StillReached
<1>5. CASE Compiled
  <2>1. out = List(query) /\ Compilable(query)
    BY <1>2, <1>5, DoneShape
  <2>2. pc' = "run" /\ out' = out
    BY <1>5 DEF Compiled, compile
  <2> QED
    BY <1>1, <2>1, <2>2, StillReached
<1> QED
  BY <1>3, <1>4, <1>5

\* A refused query has changed nothing: it was refused the first time.
LEMMA UnsupportedCommits ==
  ASSUME OneByOne, TypeInv, CommitInv, Unsupported
  PROVE  CommitInv'
<1>1. pc = "walk" /\ pc' = "idle" /\ UNCHANGED <<store, committed>> /\ Refused
  BY DEF Unsupported, Refused
<1>2. query \in Query /\ OneClause(query) /\ committed = base
  BY <1>1, Serving
<1>3. ~ Compilable(query)
  BY <1>1, <1>2, RefusedShape DEF CommitInv
<1>4. store = committed
  BY <1>1, <1>2, <1>3 DEF CommitInv
<1> QED
  BY <1>1, <1>4 DEF CommitInv, Unlinked

LEMMA ExecuteCommits ==
  ASSUME OneByOne, TypeInv, CommitInv, Execute
  PROVE  CommitInv'
<1> DEFINE s == List(query)[ip]
<1>1. pc = "run" /\ ip <= Len(out) /\ ip' = ip + 1 /\ UNCHANGED <<query, base, pc, out, committed>>
  BY DEF Execute, compile, client
<1>2. /\ query \in Query /\ Fits(query) /\ committed = base /\ Reached
      /\ store \in Graph(Node) /\ base \in Graph(Node)
      /\ ip \in 1 .. Len(out) + 1 /\ Len(out) \in Nat
  BY <1>1, Serving
<1>3. out = List(query) /\ Compilable(query) /\ Shown(store, Unlinked(Query))
  BY <1>1 DEF CommitInv
<1>4. PICK alloc \in Allocations(s, store) : store' = Apply(s, store, alloc)
  BY <1>3 DEF Execute
<1>5. Reached' /\ Shown(store', Unlinked(Query))
  <2>1. ip \in 1 .. Len(List(query)) /\ Len(List(query)) \in Nat
    BY <1>1, <1>2, <1>3
  <2> QED
    BY <1>1, <1>2, <1>3, <1>4, <2>1, StatementReaches DEF Compilable
<1> QED
  BY <1>1, <1>2, <1>3, <1>5 DEF CommitInv

\* A list that has run leaves an outcome of its query.
LEMMA FinishMeans ==
  ASSUME OneByOne, TypeInv, CommitInv, Finish
  PROVE  query \in Query /\ Visible(store) \in Outcomes(query, Visible(committed))
<1>1. pc = "run" /\ ip > Len(out)
  BY DEF Finish
<1>2. /\ query \in Query /\ Fits(query) /\ committed = base /\ Reached
      /\ base \in Graph(Node) /\ ip \in 1 .. Len(out) + 1 /\ Len(out) \in Nat
  BY <1>1, Serving
<1>3. out = List(query) /\ Compilable(query)
  BY <1>1 DEF CommitInv
<1>4. ip = Len(List(query)) + 1
  BY <1>1, <1>2, <1>3
<1> QED
  BY <1>2, <1>3, <1>4, AllReached DEF Compilable

\* A query given up has changed nothing.
LEMMA GiveUpCommits ==
  ASSUME OneByOne, TypeInv, CommitInv, GiveUp
  PROVE  CommitInv'
<1>1. pc = "failed" /\ query \notin Retried /\ pc' = "idle" /\ UNCHANGED <<store, committed>>
  BY DEF GiveUp
<1>2. /\ query \in Query /\ OneWrite(query) /\ committed = base /\ Reached
      /\ ip \in 1 .. Len(out) + 1 /\ Len(out) \in Nat
  BY <1>1, Serving
<1>3. out = List(query) /\ ip <= Len(out) /\ MaxFailures # 0
  BY <1>1 DEF CommitInv
<1>4. ~ InSteps(query)
  BY <1>1, <1>2, <1>3 DEF OneWrite, InSteps, LastOf
<1>5. store = base
  BY <1>2, <1>3, <1>4 DEF Reached
<1> QED
  BY <1>1, <1>2, <1>5 DEF CommitInv

LEMMA FailCommits ==
  ASSUME TypeInv, CommitInv, Fail
  PROVE  CommitInv'
<1>1. /\ pc = "run" /\ pc' = "failed" /\ ip <= Len(out)
      /\ UNCHANGED <<store, query, base, out, ip, committed>> /\ MaxFailures # 0
  BY BoundAssumption DEF Fail, compile, TypeInv, TypeOK
<1>2. Reached' <=> Reached
  BY <1>1 DEF Reached
<1> QED
  BY <1>1, <1>2 DEF CommitInv

LEMMA FinishCommits ==
  ASSUME CommitInv, Finish
  PROVE  CommitInv'
<1>1. pc = "run" /\ pc' = "idle" /\ store' = store /\ committed' = store
  BY DEF Finish
<1> QED
  BY <1>1 DEF CommitInv

\* The invariant is inductive.
LEMMA NextCommits == OneByOne /\ TypeInv /\ CommitInv /\ [Next]_vars => CommitInv'
<1> SUFFICES ASSUME OneByOne, TypeInv, CommitInv, [Next]_vars PROVE CommitInv'
  OBVIOUS
<1>1. CASE UNCHANGED vars
  <2>1. UNCHANGED <<store, query, base, pc, at, waiting, out, bmap, ip, committed>>
    BY <1>1 DEF vars, compile, client
  <2>2. (Reached' <=> Reached) /\ (WalkShape' <=> WalkShape)
    BY <2>1 DEF Reached, WalkShape
  <2> QED
    BY <2>1, <2>2 DEF CommitInv
<1> QED
  BY <1>1, SubmitCommits, CreateCommits, WalkCommits, UnsupportedCommits, ExecuteCommits, FinishCommits, FailCommits, RetryCommits, GiveUpCommits DEF Next

-----------------------------------------------------------------------------
(* The refinement *)

\* The session starts as the abstract one does.
LEMMA StartsAtomic == OneByOne /\ Init => Abstract!Init
<1> SUFFICES ASSUME OneByOne, Init PROVE Abstract!Init
  OBVIOUS
<1>1. store \in Graphs /\ committed = store /\ last = NoQuery
  BY DEF Init
<1>2. Visible(committed) = committed
  BY <1>1 DEF OneByOne
<1> QED
  BY <1>1, <1>2 DEF Abstract!Init

\* A query that has run to its end is the abstract step; nothing else is seen.
LEMMA StepsAtomic ==
  OneByOne /\ TypeInv /\ CommitInv /\ [Next]_vars => [Abstract!Next]_<<Visible(committed), last>>
<1> SUFFICES ASSUME OneByOne, TypeInv, CommitInv, [Next]_vars
             PROVE  Abstract!Next \/ UNCHANGED <<Visible(committed), last>>
  OBVIOUS
<1>1. CASE Finish
  <2>1. committed' = store /\ last' = query
    BY <1>1 DEF Finish
  <2>2. Visible(committed)' = Visible(store)
    BY <2>1
  <2>3. query \in Query /\ Visible(committed)' \in Outcomes(query, Visible(committed)) /\ last' = query
    BY <1>1, <2>1, <2>2, FinishMeans
  <2> QED
    BY <2>3 DEF Abstract!Next, Abstract!Commit
<1>2. CASE ~ Finish
  <2>1. UNCHANGED <<committed, last>>
    BY <1>2 DEF Next, vars, Submit, VisitCreate, VisitWrite, VisitRead, Emit, Compiled, Unsupported,
                Execute, Fail, Retry, GiveUp, client
  <2> QED
    BY <2>1
<1> QED
  BY <1>1, <1>2

\* For any queries of one write clause, on stores that hide nothing: every query
\* that runs to its end is one atomic Cypher step, however often it failed half
\* way and was submitted again, and whatever was served in between; a query that
\* is refused or given up is none (compile_write and its caller).
THEOREM OneWriteAtomic ==
  OneWriteEach(Query) /\ (\A g \in Graphs : Visible(g) = g) => (Spec => ImplementsCypher)
<1> SUFFICES ASSUME OneByOne PROVE Spec => Abstract!Spec
  BY DEF OneByOne, ImplementsCypher
<1>1. Init => TypeInv /\ CommitInv /\ Abstract!Init
  BY InitType, InitCommits, StartsAtomic
<1>2. TypeInv /\ CommitInv /\ [Next]_vars => TypeInv' /\ CommitInv'
  BY NextType, NextCommits
<1>3. TypeInv /\ CommitInv /\ [Next]_vars => [Abstract!Next]_<<Visible(committed), last>>
  BY StepsAtomic
<1> QED
  BY <1>1, <1>2, <1>3, PTL DEF Spec, Abstract!Spec
=============================================================================
