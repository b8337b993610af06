----------------------------- MODULE ApiProofs ------------------------------
(***************************************************************************)
(* A caller of cypher_to_sparql_update, answered by either generator, for  *)
(* every set of queries, every store and every number of failures: its     *)
(* state is well typed, its graph stays closed where no query deletes a    *)
(* node, and a node MERGE finds what it has made.                          *)
(***************************************************************************)
EXTENDS UpdateApi, OutcomeProofs

-----------------------------------------------------------------------------
(* The maps of the legacy generator *)

\* A variable's sentinel is a pattern of that variable alone.
LEMMA SentinelFacts ==
  ASSUME NEW v \in Var
  PROVE  /\ Sentinel(v) \in Graph(Var) /\ Ids(Sentinel(v)) = {v}
         /\ Sentinel(v) = [node |-> {v}, label |-> {}, prop |-> {}, edge |-> {}, eprop |-> {}]
<1>1. Sentinel(v) = [node |-> {v}, label |-> {}, prop |-> {}, edge |-> {}, eprop |-> {}]
  BY DEF Sentinel, EmptyGraph
<1> QED
  BY <1>1 DEF Graph, Ids

\* So is what a pattern says of it, with its labels or without.
LEMMA MentionFacts ==
  ASSUME NEW p \in Graph(Var), NEW v \in Var
  PROVE  /\ Mention(p, v) \in Graph(Var) /\ Ids(Mention(p, v)) = {v}
         /\ [Mention(p, v) EXCEPT !.label = {}] \in Graph(Var)
         /\ Ids([Mention(p, v) EXCEPT !.label = {}]) = {v}
<1> DEFINE L == {t \in p.label : t[1] = v}
           P == {t \in p.prop : t[1] = v}
           m == Mention(p, v)
           n == [Mention(p, v) EXCEPT !.label = {}]
<1>1. Sentinel(v) \in Graph(Var) /\ Ids(Sentinel(v)) = {v} /\ Sentinel(v).node = {v}
  BY SentinelFacts
<1>2. m = [Sentinel(v) EXCEPT !.label = L, !.prop = P]
  BY DEF Mention
<1>3. L \in SUBSET (Var \X Label) /\ P \in SUBSET (Var \X Key \X Val)
  BY DEF Graph
<1>4. \A t \in L : t[1] = v
  OBVIOUS
<1>5. \A t \in P : t[1] = v
  OBVIOUS
<1> HIDE DEF L, P, m
<1>6. m \in Graph(Var) /\ n \in Graph(Var)
  BY <1>1, <1>2, <1>3 DEF Graph, m
<1>7. m.node = {v} /\ m.label = L /\ m.prop = P /\ m.edge = Sentinel(v).edge /\ m.eprop = Sentinel(v).eprop
  BY <1>1, <1>2 DEF Graph
<1>8. n.node = {v} /\ n.label = {} /\ n.prop = P /\ n.edge = Sentinel(v).edge /\ n.eprop = Sentinel(v).eprop
  BY <1>6, <1>7 DEF Graph, m
<1> HIDE DEF n
<1>9. Ids(m) = {v}
  BY <1>1, <1>4, <1>5, <1>7 DEF Ids
<1>10. Ids(n) = {v}
  BY <1>1, <1>5, <1>8 DEF Ids
<1> QED
  BY <1>6, <1>9, <1>10 DEF m, n

\* One map over another.
LEMMA OverKnown ==
  ASSUME NEW f, NEW g, IsKnown(f), IsKnown(g)
  PROVE  IsKnown(Over(f, g))
  BY DEF IsKnown, Over

LEMMA OverAlias ==
  ASSUME NEW f, NEW g, IsAlias(f), IsAlias(g)
  PROVE  IsAlias(Over(f, g))
  BY DEF IsAlias, Over

\* What is kept of a variable is a pattern of that variable.
LEMMA PatternOfFacts ==
  ASSUME NEW v \in Var, NEW known, IsKnown(known)
  PROVE  PatternOf(v, known) \in Graph(Var) /\ Ids(PatternOf(v, known)) = {v}
  BY SentinelFacts DEF PatternOf, IsKnown

\* Renaming the one variable of a pattern.
LEMMA RenamedFacts ==
  ASSUME NEW p \in Graph(Var), NEW v, Ids(p) = {v}, NEW w \in Var
  PROVE  /\ Image(p, [u \in Ids(p) |-> w]) \in Graph(Var)
         /\ Ids(Image(p, [u \in Ids(p) |-> w])) = {w}
<1> DEFINE f == [u \in Ids(p) |-> w]
           g == Image(p, f)
<1>1. DOMAIN f = {v} /\ f[v] = w
  OBVIOUS
<1> HIDE DEF f
<1>2. g \in Graph({w})
  BY <1>1, ImageInto
<1>3. g \in Graph(Var) /\ Ids(g) \subseteq {w}
  BY <1>2, GraphGrows, IdsType
<1>4. w \in Ids(g)
  <2>1. ASSUME v \in p.node PROVE w \in g.node
    BY <1>1, <2>1 DEF Image
  <2>2. ASSUME NEW t \in p.label PROVE \E u \in g.label : u[1] = w
    <3>1. t[1] = v
      BY DEF Ids
    <3>2. <<f[t[1]], t[2]>> \in g.label
      BY <1>1, <3>1 DEF Image
    <3> QED
      BY <1>1, <3>1, <3>2
  <2>3. ASSUME NEW t \in p.prop PROVE \E u \in g.prop : u[1] = w
    <3>1. t[1] = v
      BY DEF Ids
    <3>2. <<f[t[1]], t[2], t[3]>> \in g.prop
      BY <1>1, <3>1 DEF Image
    <3> QED
      BY <1>1, <3>1, <3>2
  <2>4. ASSUME NEW t \in p.edge PROVE \E u \in g.edge : u[1] = w
    <3>1. t[1] = v /\ t[3] = v
      BY DEF Ids
    <3>2. <<f[t[1]], t[2], f[t[3]]>> \in g.edge
      BY <1>1, <3>1 DEF Image
    <3> QED
      BY <1>1, <3>1, <3>2
  <2>5. ASSUME NEW t \in p.eprop PROVE \E u \in g.eprop : u[1] = w
    <3>1. t[1] = v /\ t[3] = v
      BY DEF Ids
    <3>2. <<f[t[1]], t[2], f[t[3]], t[4], t[5]>> \in g.eprop
      BY <1>1, <3>1 DEF Image
    <3> QED
      BY <1>1, <3>1, <3>2
  <2>6. v \in p.node \/ p.label # {} \/ p.prop # {} \/ p.edge # {} \/ p.eprop # {}
    BY DEF Ids
  <2> HIDE DEF g
  <2> QED
    BY <2>1, <2>2, <2>3, <2>4, <2>5, <2>6 DEF Ids
<1> QED
  BY <1>3, <1>4 DEF f

\* A MATCH keeps the mentions of the variables of its pattern.
LEMMA AfterMatchFacts ==
  ASSUME NEW known, IsKnown(known), NEW p \in Graph(Var)
  PROVE  IsKnown(AfterMatch(known, p))
<1> DEFINE f == [v \in Ids(p) \ AnonVar |-> Mention(p, v)]
<1>1. Ids(p) \subseteq Var
  BY IdsType
<1>2. \A v \in Ids(p) : Mention(p, v) \in Graph(Var) /\ Ids(Mention(p, v)) = {v}
  BY <1>1, MentionFacts
<1>3. IsKnown(f)
  BY <1>1, <1>2 DEF IsKnown
<1> HIDE DEF f
<1> QED
  BY <1>3, OverKnown DEF AfterMatch, f

\* A WITH gives each new name the pattern of what it stands for.
LEMMA AfterWithFacts ==
  ASSUME NEW known, IsKnown(known), NEW alias, IsAlias(alias), NEW rename \in SUBSET (Var \X Var)
  PROVE  IsKnown(AfterWith(rename, known, alias)) /\ IsAlias(AliasesAfter(rename, alias))
<1> DEFINE W == {t[2] : t \in rename}
<1>1. W \subseteq Var
  OBVIOUS
<1>2. ASSUME NEW w \in W
      PROVE  Source(rename, w) \in Var /\ Origin(Source(rename, w), alias) \in Var
  <2>1. \E t \in rename : t[2] = w
    OBVIOUS
  <2>2. Source(rename, w) \in Var
    BY <2>1 DEF Source
  <2> QED
    BY <2>2 DEF Origin, IsAlias
<1>3. ASSUME NEW w \in W
      PROVE  /\ Aliased(rename, known, alias)[w] \in Graph(Var)
             /\ Ids(Aliased(rename, known, alias)[w]) = {w}
  <2> DEFINE o == Origin(Source(rename, w), alias)
             u == IF o \in DOMAIN known THEN o ELSE Source(rename, w)
             p == PatternOf(u, known)
  <2>1. u \in Var
    BY <1>2, <1>3
  <2>2. Aliased(rename, known, alias)[w] = Image(p, [x \in Ids(p) |-> w])
    BY DEF Aliased
  <2> HIDE DEF u
  <2>3. p \in Graph(Var) /\ Ids(p) = {u}
    BY <2>1, PatternOfFacts
  <2> HIDE DEF p
  <2>4. w \in Var
    BY <1>1
  <2> QED
    BY <2>2, <2>3, <2>4, RenamedFacts
<1>4. /\ DOMAIN Aliased(rename, known, alias) = W
      /\ Aliased(rename, known, alias) = [w \in W |-> Aliased(rename, known, alias)[w]]
  BY DEF Aliased
<1>5. IsKnown(Aliased(rename, known, alias))
  BY <1>1, <1>3, <1>4 DEF IsKnown
<1>6. IsAlias([w \in W |-> Origin(Source(rename, w), alias)])
  BY <1>1, <1>2 DEF IsAlias
<1> QED
  BY <1>5, <1>6, OverKnown, OverAlias DEF AfterWith, AliasesAfter

\* A CREATE and a node MERGE keep what they say of their nodes.
LEMMA AfterCreateFacts ==
  ASSUME NEW known, IsKnown(known), NEW g \in Graph(Var)
  PROVE  IsKnown(AfterCreate(g, known))
<1> DEFINE f == [v \in g.node \ AnonVar |-> [Mention(g, v) EXCEPT !.label = {}]]
<1>1. g.node \subseteq Var
  BY DEF Graph
<1>2. \A v \in g.node : /\ [Mention(g, v) EXCEPT !.label = {}] \in Graph(Var)
                         /\ Ids([Mention(g, v) EXCEPT !.label = {}]) = {v}
  BY <1>1, MentionFacts
<1>3. IsKnown(f)
  BY <1>1, <1>2 DEF IsKnown
<1> HIDE DEF f
<1> QED
  BY <1>3, OverKnown DEF AfterCreate, f

LEMMA AfterMergeNodeFacts ==
  ASSUME NEW known, IsKnown(known), NEW cl \in Clause, cl.c = "mergeNode"
  PROVE  IsKnown(AfterMergeNode(cl, known))
<1> DEFINE f == [v \in {cl.v} \ AnonVar |-> Mention(cl.p, v)]
<1>1. cl.v \in Var /\ cl.p \in Graph(Var)
  BY DEF Clause
<1>2. Mention(cl.p, cl.v) \in Graph(Var) /\ Ids(Mention(cl.p, cl.v)) = {cl.v}
  BY <1>1, MentionFacts
<1>3. IsKnown(f)
  BY <1>1, <1>2 DEF IsKnown
<1> HIDE DEF f
<1> QED
  BY <1>3, OverKnown DEF AfterMergeNode, f

\* What consecutive CREATEs make together is a template, and closed if each is.
LEMMA CreateGraphFacts ==
  ASSUME NEW q \in Seq(Clause), \A i \in DOMAIN q : Lowered(q, i), NEW i \in DOMAIN q, q[i].c = "create"
  PROVE  CreateGraph(q, i) \in Graph(Var) /\ Closed(CreateGraph(q, i))
<1> DEFINE S == {q[j].g : j \in Adjacent(q, i)}
<1>1. ASSUME NEW j \in Adjacent(q, i) PROVE q[j].g \in Graph(Var) /\ Closed(q[j].g)
  <2>1. j \in DOMAIN q /\ q[j].c = "create" /\ q[j] \in Clause
    BY DEF Adjacent
  <2> QED
    BY <2>1 DEF Clause, Lowered
<1>2. \A g \in S : g \in Graph(Var) /\ Closed(g)
  BY <1>1
<1> HIDE DEF S
<1>3. UnionOf(S) \in Graph(Var)
  BY <1>2, UnionOfType
<1>4. Closed(UnionOf(S))
  <2> USE DEF UnionOf
  <2>1. \A g \in S : g.node \subseteq UnionOf(S).node
    OBVIOUS
  <2>2. \A g \in S : Ids(g) \subseteq UnionOf(S).node
    BY <1>2, <2>1 DEF Closed
  <2>3. {t[1] : t \in UnionOf(S).label} \subseteq UnionOf(S).node
    BY <2>2 DEF Ids
  <2>4. {t[1] : t \in UnionOf(S).prop} \subseteq UnionOf(S).node
    BY <2>2 DEF Ids
  <2>5. {t[1] : t \in UnionOf(S).edge} \cup {t[3] : t \in UnionOf(S).edge} \subseteq UnionOf(S).node
    BY <2>2 DEF Ids
  <2>6. {t[1] : t \in UnionOf(S).eprop} \cup {t[3] : t \in UnionOf(S).eprop} \subseteq UnionOf(S).node
    BY <2>2 DEF Ids
  <2> QED
    BY <2>3, <2>4, <2>5, <2>6 DEF Closed, Ids
<1> QED
  BY <1>3, <1>4 DEF CreateGraph, S

\* Every turn keeps the maps.
LEMMA MapsKept ==
  ASSUME NEW q \in Seq(Clause), \A i \in DOMAIN q : Lowered(q, i), NEW i \in DOMAIN q,
         NEW known, IsKnown(known), NEW alias, IsAlias(alias)
  PROVE  IsKnown(KnownAfter(q, i, known, alias)) /\ IsAlias(AliasAfter(q, i, alias))
<1> DEFINE cl == q[i]
<1>1. cl \in Clause
  OBVIOUS
<1>2. cl.c = "with" => cl.rename \in SUBSET (Var \X Var)
  BY <1>1 DEF Clause
<1>3. IsAlias(AliasAfter(q, i, alias))
  BY <1>2, AfterWithFacts DEF AliasAfter
<1>4. CASE cl.c \in {"match", "optional"}
  <2>1. cl.p \in Graph(Var)
    BY <1>1, <1>4 DEF Clause
  <2>2. KnownAfter(q, i, known, alias) = AfterMatch(known, cl.p)
    BY <1>4 DEF KnownAfter
  <2> QED
    BY <1>3, <2>1, <2>2, AfterMatchFacts
<1>5. CASE cl.c = "with"
  <2>1. KnownAfter(q, i, known, alias) = AfterWith(cl.rename, known, alias)
    BY <1>5 DEF KnownAfter
  <2> QED
    BY <1>2, <1>3, <1>5, <2>1, AfterWithFacts
<1>6. CASE cl.c = "create" /\ ~ Coalesced(q, i)
  <2>1. KnownAfter(q, i, known, alias) = AfterCreate(CreateGraph(q, i), known)
    BY <1>6 DEF KnownAfter
  <2> QED
    BY <1>3, <1>6, <2>1, CreateGraphFacts, AfterCreateFacts
<1>7. CASE cl.c = "mergeNode"
  <2>1. KnownAfter(q, i, known, alias) = AfterMergeNode(cl, known)
    BY <1>7 DEF KnownAfter
  <2> QED
    BY <1>1, <1>3, <1>7, <2>1, AfterMergeNodeFacts
<1>8. CASE cl.c \notin {"match", "optional", "with", "mergeNode"} /\ ~ (cl.c = "create" /\ ~ Coalesced(q, i))
  BY <1>3, <1>8 DEF KnownAfter
<1> QED
  BY <1>4, <1>5, <1>6, <1>7, <1>8

-----------------------------------------------------------------------------
(* The statements of the legacy generator *)

\* What both generators make sure of in every statement they push: Shaped, but
\* for the unnamed end a CREATE next to a bound node gives a relationship.
Runnable == {s \in Statement : SourcesBound(s.ctx) /\ EndsBound(s) /\ MergeShaped(s)}
Rooted(s) == s.s = "insert" => RowEnds(s)

\* A statement of the legacy generator names no IRI and removes no node.
Legacy(s) == s \in Runnable /\ s.ctx.iri = {} /\ Keeps(s)
Pushes(list) == list \in Seq(Runnable) /\ \A k \in DOMAIN list : Legacy(list[k])
RootedAll(list) == \A k \in DOMAIN list : Rooted(list[k])

LEMMA ShapedRunnable == Shaped = {s \in Runnable : Rooted(s)}
  BY DEF Shaped, Runnable, Rooted

\* A statement, or two, is a list.
LEMMA PushesOne ==
  ASSUME NEW s, Legacy(s), Rooted(s)
  PROVE  Pushes(<<s>>) /\ RootedAll(<<s>>)
  BY DEF Pushes, Legacy, RootedAll

LEMMA PushesTwo ==
  ASSUME NEW s, NEW u, Legacy(s), Rooted(s), Legacy(u), Rooted(u)
  PROVE  Pushes(<<s, u>>) /\ RootedAll(<<s, u>>)
  BY DEF Pushes, Legacy, RootedAll

LEMMA PushesNone == Pushes(<<>>) /\ RootedAll(<<>>)
  BY DEF Pushes, RootedAll

\* What is pushed is compiled as the other generator's statements are.
LEMMA PushesEmits ==
  ASSUME NEW list, Pushes(list), RootedAll(list)
  PROVE  Emits(list, {}) /\ \A k \in DOMAIN list : Keeps(list[k])
<1>1. \A k \in DOMAIN list : list[k] \in Shaped /\ list[k].ctx.iri = {} /\ Keeps(list[k])
  BY ShapedRunnable DEF Pushes, RootedAll, Legacy
<1> QED
  BY <1>1 DEF Emits, Pushes

\* An assignment and a labelling of the nodes a pattern finds.
LEMMA AssignmentFacts ==
  ASSUME NEW v \in Var, NEW k \in Key, NEW x \in Expr, NEW p \in Graph(Var)
  PROVE  Legacy(Assignment(v, k, x, Pattern(p))) /\ Rooted(Assignment(v, k, x, Pattern(p)))
<1> DEFINE c == Pattern(p)
           s == [s |-> "upsert", ctx |-> c, v |-> v, k |-> k, x |-> x]
<1>1. c \in Where /\ SourcesBound(c) /\ c.iri = {}
  BY PatternFacts
<1> HIDE DEF c
<1>2. s \in Statement /\ s.s = "upsert" /\ s.ctx = c
  BY <1>1 DEF Statement
<1>3. Assignment(v, k, x, c) = s
  BY DEF Assignment
<1> HIDE DEF s
<1> QED
  BY <1>1, <1>2, <1>3 DEF Legacy, Runnable, Rooted, EndsBound, MergeShaped, Keeps, c

LEMMA LabellingFacts ==
  ASSUME NEW v \in Var, NEW l \in Label, NEW p \in Graph(Var)
  PROVE  Legacy(Labelling(v, l, Pattern(p))) /\ Rooted(Labelling(v, l, Pattern(p)))
<1> DEFINE c == Pattern(p)
           s == [s |-> "addLabel", ctx |-> c, v |-> v, l |-> l]
<1>1. c \in Where /\ SourcesBound(c) /\ c.iri = {}
  BY PatternFacts
<1> HIDE DEF c
<1>2. s \in Statement /\ s.s = "addLabel" /\ s.ctx = c
  BY <1>1 DEF Statement
<1>3. Labelling(v, l, c) = s
  BY DEF Labelling
<1> HIDE DEF s
<1> QED
  BY <1>1, <1>2, <1>3 DEF Legacy, Runnable, Rooted, EndsBound, MergeShaped, Keeps, c

\* SET and REMOVE push statements that only add and remove labels and properties.
LEMMA LegacySetItemFacts ==
  ASSUME NEW it \in SetItem
  PROVE  Pushes(LegacySetItem(it)) /\ RootedAll(LegacySetItem(it))
<1> DEFINE p == Sentinel(it.v)
           list == LegacySetItem(it)
<1>1. it.v \in Var /\ p \in Graph(Var)
  <2>1. it.v \in Var
    BY DEF SetItem
  <2> QED
    BY <2>1, SentinelFacts
<1> HIDE DEF p
<1>2. CASE it.i = "prop"
  <2>1. it.k \in Key /\ it.x \in Expr
    BY <1>2 DEF SetItem
  <2>2. CASE it.x.e = "lit"
    <3>1. list = <<Assignment(it.v, it.k, it.x, Pattern(p))>>
      BY <1>2, <2>2 DEF LegacySetItem, p
    <3> QED
      BY <1>1, <2>1, <3>1, AssignmentFacts, PushesOne
  <2>3. CASE it.x.e = "prop"
    <3> DEFINE own == [e |-> "prop", v |-> it.v, k |-> it.k]
    <3>1. list = <<Assignment(it.v, it.k, own, Pattern(p))>>
      BY <1>2, <2>3 DEF LegacySetItem, p
    <3>2. own \in Expr
      BY <1>1, <2>1 DEF Expr
    <3> HIDE DEF own
    <3> QED
      BY <1>1, <2>1, <3>1, <3>2, AssignmentFacts, PushesOne
  <2>4. CASE it.x.e \notin {"lit", "prop"}
    <3>1. list = <<>>
      BY <1>2, <2>4 DEF LegacySetItem
    <3> QED
      BY <3>1, PushesNone
  <2> QED
    BY <2>2, <2>3, <2>4
<1>3. CASE it.i = "label"
  <2>1. it.l \in Label
    BY <1>3 DEF SetItem
  <2>2. list = <<Labelling(it.v, it.l, Pattern(p))>>
    BY <1>3 DEF LegacySetItem, p
  <2> QED
    BY <1>1, <2>1, <2>2, LabellingFacts, PushesOne
<1>4. CASE it.i = "unprop"
  <2> DEFINE s == [s |-> "dropKey", ctx |-> NoWhere, k |-> it.k]
  <2>1. it.k \in Key /\ Null \in Expr
    BY <1>4 DEF SetItem, Expr, Null
  <2>2. list = <<Assignment(it.v, it.k, Null, Pattern(p)), s>>
    BY <1>4 DEF LegacySetItem, p
  <2>3. s \in Statement /\ s.s = "dropKey" /\ s.ctx = NoWhere
    BY <2>1, NoWhereFacts DEF Statement
  <2> HIDE DEF s
  <2>4. Legacy(s) /\ Rooted(s)
    BY <2>3, NoWhereFacts DEF Legacy, Runnable, Rooted, EndsBound, MergeShaped, Keeps
  <2> QED
    BY <1>1, <2>1, <2>2, <2>4, AssignmentFacts, PushesTwo
<1>5. CASE it.i = "unlabel"
  <2> DEFINE g == [EmptyGraph EXCEPT !.label = {<<it.v, it.l>>}]
             s == [s |-> "dropLabel", v |-> it.v, l |-> it.l, ctx |-> Pattern(g)]
  <2>1. it.l \in Label
    BY <1>5 DEF SetItem
  <2>2. g \in Graph(Var)
    BY <1>1, <2>1 DEF EmptyGraph, Graph
  <2>3. Pattern(g) = [NoWhere EXCEPT !.must.label = {<<it.v, it.l>>}]
    BY DEF Pattern, NoWhere
  <2>4. list = <<s>>
    BY <1>5, <2>3 DEF LegacySetItem
  <2> HIDE DEF g
  <2>5. Pattern(g) \in Where /\ SourcesBound(Pattern(g)) /\ Pattern(g).iri = {}
    BY <2>2, PatternFacts
  <2>6. s \in Statement /\ s.s = "dropLabel" /\ s.ctx = Pattern(g)
    BY <1>1, <2>1, <2>5 DEF Statement
  <2> HIDE DEF s
  <2>7. Legacy(s) /\ Rooted(s)
    BY <2>5, <2>6 DEF Legacy, Runnable, Rooted, EndsBound, MergeShaped, Keeps
  <2> QED
    BY <2>4, <2>7, PushesOne
<1>6. CASE it.i \notin {"prop", "label", "unprop", "unlabel"}
  <2>1. list = <<>>
    BY <1>6 DEF LegacySetItem
  <2> QED
    BY <2>1, PushesNone
<1> QED
  BY <1>2, <1>3, <1>4, <1>5, <1>6

\* The INSERT of a node MERGE, and the items of its ON MATCH.
LEMMA LegacyMergeInsertFacts ==
  ASSUME NEW cl \in Clause, cl.c = "mergeNode", Ids(cl.p) = {cl.v}
  PROVE  Pushes(LegacyMergeInsert(cl)) /\ RootedAll(LegacyMergeInsert(cl))
<1> DEFINE a == Both(cl.p, Sentinel(cl.v))
           t == CreatedBy(cl)
           s == [s |-> "insert", ctx |-> NoWhere, absent |-> a, tmpl |-> t, fresh |-> {cl.v}, iri |-> {}]
<1>1. cl.v \in Var /\ cl.p \in Graph(Var)
  BY DEF Clause
<1>2. /\ Sentinel(cl.v) \in Graph(Var) /\ Ids(Sentinel(cl.v)) = {cl.v}
      /\ Sentinel(cl.v) = [node |-> {cl.v}, label |-> {}, prop |-> {}, edge |-> {}, eprop |-> {}]
  BY <1>1, SentinelFacts
<1>3. /\ t \in Graph(Var) /\ Ids(t) = {cl.v} /\ cl.v \in t.node
      /\ cl.p.node \subseteq t.node /\ cl.p.label \subseteq t.label /\ cl.p.prop \subseteq t.prop
      /\ cl.p.edge \subseteq t.edge /\ cl.p.eprop \subseteq t.eprop
  BY CreatedByFacts
<1>4. a \in Graph(Var)
  BY <1>1, <1>2, BothType
<1>5. Ids(a) = {cl.v}
  BY <1>2 DEF Both, Ids
<1>6. /\ a.node \subseteq t.node /\ a.label \subseteq t.label /\ a.prop \subseteq t.prop
      /\ a.edge \subseteq t.edge /\ a.eprop \subseteq t.eprop
  BY <1>2, <1>3 DEF Both
<1>7. t # EmptyGraph
  BY <1>3 DEF EmptyGraph
<1>8. {cl.v} \cap Ids(t) = {cl.v}
  BY <1>3
<1>9. LegacyMergeInsert(cl) = <<s>>
  BY <1>7, <1>8 DEF LegacyMergeInsert, LegacyInsert
<1> HIDE DEF a, t
<1>10. s \in Statement
  BY <1>1, <1>3, <1>4, NoWhereFacts DEF Statement
<1>11. MergeShaped(s)
  BY <1>5, <1>6 DEF MergeShaped
<1>12. RowEnds(s)
  BY <1>3 DEF RowEnds
<1>13. Legacy(s) /\ Rooted(s)
  BY <1>10, <1>11, <1>12, NoWhereFacts DEF Legacy, Runnable, Rooted, EndsBound, Keeps
<1> QED
  BY <1>9, <1>13, PushesOne

LEMMA MergeItemFacts ==
  ASSUME NEW cl \in Clause, cl.c = "mergeNode", NEW it \in SetItem
  PROVE  Pushes(MergeItem(cl, it)) /\ RootedAll(MergeItem(cl, it))
<1> DEFINE p == Both(cl.p, Sentinel(cl.v))
           list == MergeItem(cl, it)
<1>1. cl.v \in Var /\ cl.p \in Graph(Var)
  BY DEF Clause
<1>2. p \in Graph(Var)
  BY <1>1, SentinelFacts, BothType
<1> HIDE DEF p
<1>3. CASE it.i = "prop" /\ it.x.e = "lit"
  <2>1. it.k \in Key /\ it.x \in Expr
    BY <1>3 DEF SetItem
  <2>2. list = <<Assignment(cl.v, it.k, it.x, Pattern(p))>>
    BY <1>3 DEF MergeItem, p
  <2> QED
    BY <1>1, <1>2, <2>1, <2>2, AssignmentFacts, PushesOne
<1>4. CASE it.i = "label"
  <2>1. it.l \in Label
    BY <1>4 DEF SetItem
  <2>2. list = <<Labelling(cl.v, it.l, Pattern(p))>>
    BY <1>4 DEF MergeItem, p
  <2> QED
    BY <1>1, <1>2, <2>1, <2>2, LabellingFacts, PushesOne
<1>5. CASE ~ (it.i = "prop" /\ it.x.e = "lit") /\ it.i # "label"
  <2>1. list = <<>>
    BY <1>5 DEF MergeItem
  <2> QED
    BY <2>1, PushesNone
<1> QED
  BY <1>3, <1>4, <1>5

\* The INSERT of a relationship MERGE.
LEMMA LegacyMergeRelFacts ==
  ASSUME NEW cl \in Clause, cl.c = "mergeRel", NEW known, IsKnown(known)
  PROVE  Pushes(LegacyMergeRel(cl, known)) /\ RootedAll(LegacyMergeRel(cl, known))
<1> DEFINE scan == [cl.scan EXCEPT !.edge = {}, !.eprop = {}]
           p == Both(Both(PatternOf(cl.from, known), PatternOf(cl.to, known)), scan)
           c == MergeEnds(cl, known)
<1>1. cl.from \in Var /\ cl.to \in Var /\ cl.scan \in Graph(Var)
  BY DEF Clause
<1>2. scan \in Graph(Var)
  BY <1>1 DEF Graph
<1>3. PatternOf(cl.from, known) \in Graph(Var) /\ PatternOf(cl.to, known) \in Graph(Var)
  BY <1>1, PatternOfFacts
<1>4. p \in Graph(Var)
  BY <1>2, <1>3, BothType
<1>5. c = Pattern(p)
  BY DEF MergeEnds, Pattern
<1> HIDE DEF p, c
<1>6. c \in Where /\ SourcesBound(c) /\ c.iri = {}
  BY <1>4, <1>5, PatternFacts
<1>7. MergeEdgeInsert(cl, c) \in Shaped /\ Keeps(MergeEdgeInsert(cl, c))
  BY <1>6, MergeEdgeInsertFacts
<1>8. MergeEdgeInsert(cl, c).ctx = c
  BY DEF MergeEdgeInsert
<1>9. Legacy(MergeEdgeInsert(cl, c)) /\ Rooted(MergeEdgeInsert(cl, c))
  BY <1>6, <1>7, <1>8, ShapedRunnable DEF Legacy
<1> QED
  BY <1>9, PushesOne DEF LegacyMergeRel, c

\* The ends of the relationships of a template.
Ends(g) ==
  {t[1] : t \in g.edge} \cup {t[3] : t \in g.edge} \cup {t[1] : t \in g.eprop} \cup {t[3] : t \in g.eprop}

\* The INSERT of a CREATE.  What it makes hangs from its own nodes and from
\* bound ones, unless a node is bound and a relationship has an unnamed end.
LEMMA LegacyCreateFacts ==
  ASSUME NEW g \in Graph(Var), Closed(g), NEW known, IsKnown(known)
  PROVE  /\ Pushes(LegacyCreate(g, known))
         /\ BoundIn(g, known) = {} \/ Ends(g) \cap AnonVar = {} => RootedAll(LegacyCreate(g, known))
<1> DEFINE bound == BoundIn(g, known)
           ctx == IF bound = {} THEN NoWhere ELSE Constraints(bound, known)
           tmpl == IF bound = {} THEN g ELSE BesideBound(g, bound)
           new == g.node \ bound
           s == [s |-> "insert", ctx |-> ctx, absent |-> EmptyGraph, tmpl |-> tmpl,
                 fresh |-> new \cap Ids(tmpl), iri |-> {}]
<1>1. bound \subseteq g.node /\ bound \subseteq DOMAIN known /\ new \subseteq Var
  BY DEF BoundIn, Graph
<1>2. ctx \in Where /\ SourcesBound(ctx) /\ ctx.iri = {}
  <2> DEFINE S == {known[v] : v \in bound}
  <2>1. \A h \in S : h \in Graph(Var)
    BY <1>1 DEF IsKnown
  <2> HIDE DEF S
  <2>2. UnionOf(S) \in Graph(Var)
    BY <2>1, UnionOfType
  <2>3. Constraints(bound, known) = Pattern(UnionOf(S))
    BY DEF Constraints, Pattern, S
  <2> QED
    BY <2>2, <2>3, PatternFacts, NoWhereFacts
<1>3. BesideBound(g, bound) = CreateTemplate(g, bound \cup AnonVar)
  BY DEF BesideBound
<1>4. tmpl \in Graph(Var)
  BY <1>3, CreateTemplateFacts
<1>5. LegacyCreate(g, known) = IF tmpl = EmptyGraph THEN <<>> ELSE <<s>>
  <2>1. bound = {} => new = g.node
    OBVIOUS
  <2> QED
    BY <2>1 DEF LegacyCreate, LegacyInsert
<1>6. bound = {} \/ Ends(g) \cap AnonVar = {} => (Ids(tmpl) \ tmpl.node) \cap new = {}
  <2>1. CASE bound = {}
    BY <2>1 DEF Closed
  <2>2. CASE bound # {} /\ Ends(g) \cap AnonVar = {}
    <3> DEFINE B == bound \cup AnonVar
               t == CreateTemplate(g, B)
    <3>1. t.node = g.node \ B
      BY CreateTemplateFacts
    <3>2. /\ t.label = {u \in g.label : u[1] \notin B} /\ t.prop = {u \in g.prop : u[1] \notin B}
          /\ t.edge = g.edge /\ t.eprop = g.eprop
      BY DEF CreateTemplate, Graph
    <3> HIDE DEF B, t
    <3>3. Ids(t) \subseteq (g.node \ B) \cup Ends(g)
      <4>1. \A u \in t.label : u[1] \in Ids(g) /\ u[1] \notin B
        BY <3>2 DEF Ids
      <4>2. \A u \in t.prop : u[1] \in Ids(g) /\ u[1] \notin B
        BY <3>2 DEF Ids
      <4>3. Ids(g) \subseteq g.node
        BY DEF Closed
      <4> QED
        BY <3>1, <3>2, <4>1, <4>2, <4>3 DEF Ids, Ends
    <3>4. Ends(g) \subseteq g.node
      BY DEF Closed, Ids, Ends
    <3>5. tmpl = t
      BY <1>3, <2>2 DEF t, B
    <3> HIDE DEF tmpl, new, bound
    <3>6. new = g.node \ bound
      BY DEF new
    <3> QED
      BY <2>2, <3>1, <3>3, <3>4, <3>5, <3>6 DEF B
  <2> QED
    BY <2>1, <2>2
<1> HIDE DEF ctx, tmpl, new, bound
<1>7. s \in Statement
  BY <1>1, <1>2, <1>4, EmptyGraphType DEF Statement
<1>8. Legacy(s)
  BY <1>2, <1>7 DEF Legacy, Runnable, EndsBound, MergeShaped, Keeps
<1>9. bound = {} \/ Ends(g) \cap AnonVar = {} => Rooted(s)
  BY <1>6 DEF Rooted, RowEnds
<1>10. Pushes(<<s>>) /\ (Rooted(s) => RootedAll(<<s>>))
  <2>1. s \in Runnable
    BY <1>8 DEF Legacy
  <2> HIDE DEF s
  <2>2. <<s>> \in Seq(Runnable) /\ \A k \in DOMAIN <<s>> : <<s>>[k] = s
    BY <2>1
  <2> QED BY <1>8, <2>2 DEF Pushes, RootedAll
<1> HIDE DEF s
<1> QED
  BY <1>5, <1>9, <1>10, PushesNone DEF bound

\* Where a CREATE comes after a clause that binds something, no relationship
\* of it has an unnamed end.
NamedEnds(q) ==
  \A i \in DOMAIN q : q[i].c = "create" /\ (\E j \in 1 .. i - 1 : q[j].c # "create") =>
    Ends(q[i].g) \cap AnonVar = {}

\* A turn of the loop pushes statements that run, and that make no triple
\* hang from nothing if the ends of new relationships are named.
LEMMA LegacyFacts ==
  ASSUME NEW q \in Seq(Clause), \A m \in DOMAIN q : Lowered(q, m), NEW i \in DOMAIN q, NEW j \in Nat \ {0},
         NEW known, IsKnown(known)
  PROVE  /\ Pushes(LegacyStatements(q, i, j, known))
         /\ NamedEnds(q) /\ (i = 1 => known = Nothing) => RootedAll(LegacyStatements(q, i, j, known))
<1> DEFINE cl == q[i]
           list == LegacyStatements(q, i, j, known)
<1>1. cl \in Clause
  OBVIOUS
<1>2. CASE cl.c = "create" /\ ~ Coalesced(q, i)
  <2> DEFINE g == CreateGraph(q, i)
  <2>1. g \in Graph(Var) /\ Closed(g)
    BY <1>2, CreateGraphFacts
  <2>2. list = LegacyCreate(g, known)
    BY <1>2 DEF LegacyStatements
  <2>3. ASSUME NamedEnds(q), i = 1 => known = Nothing
        PROVE  BoundIn(g, known) = {} \/ Ends(g) \cap AnonVar = {}
    <3>1. CASE i = 1
      BY <2>3, <3>1 DEF BoundIn, Nothing
    <3>2. CASE i # 1
      <4>1. i - 1 \in 1 .. i - 1 /\ q[i - 1].c # "create"
        BY <1>2, <3>2 DEF Coalesced
      <4>2. ASSUME NEW m \in Adjacent(q, i) PROVE Ends(q[m].g) \cap AnonVar = {}
        <5>1. m \in DOMAIN q /\ q[m].c = "create" /\ i - 1 \in 1 .. m - 1
          BY <4>1 DEF Adjacent
        <5> QED
          BY <2>3, <4>1, <5>1 DEF NamedEnds
      <4> DEFINE S == {q[m].g : m \in Adjacent(q, i)}
      <4>3. \A h \in S : Ends(h) \cap AnonVar = {}
        BY <4>2
      <4> HIDE DEF S
      <4>4. Ends(UnionOf(S)) \cap AnonVar = {}
        BY <4>3 DEF Ends, UnionOf
      <4> QED
        BY <4>4 DEF CreateGraph, S
    <3> QED
      BY <3>1, <3>2
  <2> HIDE DEF g, list
  <2> QED
    BY <2>1, <2>2, <2>3, LegacyCreateFacts DEF list
<1>3. CASE cl.c = "set" /\ j <= Len(cl.items)
  <2>1. cl.items \in Seq(SetItem)
    BY <1>1, <1>3 DEF Clause
  <2>2. cl.items[j] \in SetItem
    BY <1>3, <2>1
  <2>3. list = LegacySetItem(cl.items[j])
    BY <1>3 DEF LegacyStatements
  <2> QED
    BY <2>2, <2>3, LegacySetItemFacts
<1>4. CASE cl.c = "mergeNode" /\ j = 1
  <2>1. Ids(cl.p) = {cl.v}
    BY <1>4 DEF Lowered
  <2>2. list = LegacyMergeInsert(cl)
    BY <1>4 DEF LegacyStatements
  <2> QED
    BY <1>1, <1>4, <2>1, <2>2, LegacyMergeInsertFacts
<1>5. CASE cl.c = "mergeNode" /\ j \in 2 .. Len(cl.onMatch) + 1
  <2>1. cl.onMatch \in Seq(SetItem)
    BY <1>1, <1>5 DEF Clause
  <2>2. cl.onMatch[j - 1] \in SetItem
    BY <1>5, <2>1
  <2>3. list = MergeItem(cl, cl.onMatch[j - 1])
    BY <1>5 DEF LegacyStatements
  <2> QED
    BY <1>1, <1>5, <2>2, <2>3, MergeItemFacts
<1>6. CASE cl.c = "mergeRel"
  <2>1. list = LegacyMergeRel(cl, known)
    BY <1>6 DEF LegacyStatements
  <2> QED
    BY <1>1, <1>6, <2>1, LegacyMergeRelFacts
<1>7. CASE /\ ~ (cl.c = "create" /\ ~ Coalesced(q, i)) /\ ~ (cl.c = "set" /\ j <= Len(cl.items))
           /\ ~ (cl.c = "mergeNode" /\ j = 1) /\ ~ (cl.c = "mergeNode" /\ j \in 2 .. Len(cl.onMatch) + 1)
           /\ cl.c # "mergeRel"
  <2>1. list = <<>>
    BY <1>7 DEF LegacyStatements
  <2> QED
    BY <2>1, PushesNone
<1> QED
  BY <1>2, <1>3, <1>4, <1>5, <1>6, <1>7

-----------------------------------------------------------------------------
(* The type invariant *)

(***************************************************************************)
(* ApiTypeOK is inductive with the shape of the statements, as TypeOK is;  *)
(* with a query behind every call; and with one fact about the maps: they  *)
(* are empty at the first clause.  CallTyped is TypeOK but for pc.         *)
(***************************************************************************)
CallTyped ==
  /\ store \in Graph(Node) /\ base \in Graph(Node) /\ committed \in Graph(Node)
  /\ query \in Query \cup {NoQuery} /\ last \in Query \cup {NoQuery}
  /\ at \in 0 .. Len(query.cl)
  /\ waiting \in Seq(1 .. Len(query.cl))
  /\ out \in Seq(Statement)
  /\ bmap \in NodeMap
  /\ counter \in Nat
  /\ ip \in 1 .. Len(out) + 1
  /\ failures \in 0 .. MaxFailures /\ served \in 0 .. MaxQueries

GenTyped ==
  /\ gen = [at |-> gen.at, item |-> gen.item, known |-> gen.known, alias |-> gen.alias]
  /\ gen.at \in 1 .. Len(query.cl) + 1 /\ gen.item \in Nat \ {0}
  /\ IsKnown(gen.known) /\ IsAlias(gen.alias)
  /\ gen.at = 1 => gen.known = Nothing

Shapes ==
  /\ out \in Seq(Runnable)
  /\ pc = "walk" => out \in Seq(Shaped)
  /\ OneName(bmap)

Asked == pc # "idle" => query \in Query /\ served < MaxQueries

ApiInv == pc \in {"idle", "legacy", "walk", "run", "failed"} /\ CallTyped /\ GenTyped /\ Shapes /\ Asked

\* A caller that is not in the legacy generator is a session.
LEMMA Session ==
  /\ TypeOK <=> pc \in {"idle", "walk", "run", "failed"} /\ CallTyped
  /\ ApiInv /\ pc = "walk" => TypeInv
  /\ TypeInv => CallTyped /\ Shapes
<1>1. TypeOK <=> pc \in {"idle", "walk", "run", "failed"} /\ CallTyped
  BY DEF TypeOK, CallTyped
<1>2. ApiInv /\ pc = "walk" => TypeInv
  BY <1>1 DEF ApiInv, Shapes, Asked, TypeInv, Busy
<1>3. Shaped \subseteq Runnable
  BY ShapedRunnable
<1>4. TypeInv => CallTyped /\ Shapes
  BY <1>1, <1>3 DEF TypeInv, Shapes
<1> QED
  BY <1>1, <1>2, <1>4

\* The generator starts with nothing.
LEMMA NoGenFacts ==
  /\ NoGen = [at |-> NoGen.at, item |-> NoGen.item, known |-> NoGen.known, alias |-> NoGen.alias]
  /\ NoGen.at = 1 /\ NoGen.item = 1 /\ NoGen.known = Nothing
  /\ IsKnown(NoGen.known) /\ IsAlias(NoGen.alias)
<1>1. IsKnown(Nothing)
  BY DEF IsKnown, Nothing
<1>2. IsAlias([v \in {} |-> v])
  BY DEF IsAlias
<1> QED
  BY <1>1, <1>2 DEF NoGen

LEMMA ApiInitType == ApiInit => ApiInv
<1> SUFFICES ASSUME ApiInit PROVE ApiInv
  OBVIOUS
<1>1. TypeInv
  BY InitType DEF ApiInit
<1>2. pc = "idle" /\ query = NoQuery /\ gen = NoGen
  BY DEF ApiInit, Init
<1>3. Len(query.cl) = 0
  BY <1>2 DEF NoQuery
<1>4. GenTyped
  BY <1>2, <1>3, NoGenFacts DEF GenTyped
<1> QED
  BY <1>1, <1>2, <1>4, Session DEF ApiInv, Asked

\* A call, new, again or after a refusal, starts from nothing.
LEMMA StartType ==
  ASSUME NEW q \in Query, query' = q, CallTyped, served < MaxQueries, base' \in {base, store},
         UNCHANGED <<store, client>>,
         StartLegacy \/ (Compile(q) /\ gen' = NoGen)
  PROVE  ApiInv' /\ out' = <<>> /\ ip' = 1 /\ bmap' = NoNodes
<1>1. q.cl \in Seq(Clause)
  BY QueryAssumption
<1>2. /\ pc' \in {"legacy", "walk", "run"} /\ gen' = NoGen
      /\ at' \in 0 .. Len(q.cl) /\ waiting' = <<>> /\ out' = <<>> /\ bmap' = NoNodes /\ counter' = 0 /\ ip' = 1
  BY <1>1 DEF StartLegacy, Compile
<1>3. CallTyped'
  BY <1>1, <1>2, NoNodesFacts DEF CallTyped, client
<1>4. GenTyped'
  BY <1>1, <1>2, NoGenFacts DEF GenTyped
<1>5. Shapes' /\ Asked'
  BY <1>2, NoNodesFacts DEF Shapes, Asked, client
<1> QED
  BY <1>2, <1>3, <1>4, <1>5 DEF ApiInv

\* What the LQA compiler does of a call, it does of a session.
LEMMA WalkType ==
  ASSUME ApiInv, Walk
  PROVE  ApiInv' /\ TypeInv /\ TypeInv' /\ Next
<1>1. pc = "walk" /\ pc' \in {"walk", "run"} /\ UNCHANGED <<query, served, gen>> /\ Next
  BY DEF Walk, VisitCreate, VisitWrite, VisitRead, Emit, Compiled, Next, client
<1>2. TypeInv /\ TypeInv'
  BY <1>1, Session, NextType
<1>3. (CallTyped /\ Shapes)'
  <2>1. CallTyped'
    BY <1>2 DEF TypeInv, TypeOK, CallTyped
  <2>2. Shaped \subseteq Runnable
    BY ShapedRunnable
  <2> QED
    BY <1>2, <2>1, <2>2 DEF TypeInv, Shapes
<1>4. GenTyped' /\ Asked'
  BY <1>1 DEF ApiInv, GenTyped, Asked
<1> QED
  BY <1>1, <1>2, <1>3, <1>4 DEF ApiInv

\* A turn of the legacy generator keeps its maps and adds statements.
LEMMA GenerateType ==
  ASSUME ApiInv, Generate
  PROVE  ApiInv'
<1> DEFINE q == query.cl
           i == gen.at
           j == gen.item
           list == LegacyStatements(q, i, j, gen.known)
<1>1. /\ query \in Query /\ q \in Seq(Clause) /\ \A m \in DOMAIN q : Lowered(q, m)
      /\ i \in DOMAIN q /\ j \in Nat \ {0} /\ IsKnown(gen.known) /\ IsAlias(gen.alias)
  <2>1. query \in Query
    BY DEF ApiInv, Asked, Generate
  <2>2. q \in Seq(Clause) /\ \A m \in DOMAIN q : Lowered(q, m)
    BY <2>1, QueryAssumption
  <2> QED
    BY <2>1, <2>2 DEF ApiInv, GenTyped, Generate
<1>2. /\ out' = out \o list
      /\ gen' = IF LastTurn(q[i], j)
                THEN [at |-> i + 1, item |-> 1, known |-> KnownAfter(q, i, gen.known, gen.alias),
                      alias |-> AliasAfter(q, i, gen.alias)]
                ELSE [gen EXCEPT !.item = j + 1]
      /\ UNCHANGED <<store, query, base, pc, at, waiting, bmap, counter, ip, client>> /\ pc = "legacy"
  BY DEF Generate
<1> HIDE DEF list
<1>3. Pushes(list)
  BY <1>1, LegacyFacts DEF list
<1>4. out' \in Seq(Runnable) /\ Len(out') >= Len(out) /\ Len(out') \in Nat
  BY <1>2, <1>3 DEF Pushes, ApiInv, Shapes
<1>5. out' \in Seq(Statement)
  BY <1>4 DEF Runnable
<1>6. CallTyped'
  BY <1>2, <1>4, <1>5 DEF ApiInv, CallTyped, client
<1>7. GenTyped'
  <2>1. CASE LastTurn(q[i], j)
    <3>1. gen' = [at |-> i + 1, item |-> 1, known |-> KnownAfter(q, i, gen.known, gen.alias),
                  alias |-> AliasAfter(q, i, gen.alias)]
      BY <1>2, <2>1
    <3>2. IsKnown(KnownAfter(q, i, gen.known, gen.alias)) /\ IsAlias(AliasAfter(q, i, gen.alias))
      BY <1>1, MapsKept
    <3>3. i + 1 \in 1 .. Len(q) + 1 /\ i + 1 # 1
      BY <1>1
    <3> QED
      BY <1>2, <3>1, <3>2, <3>3 DEF GenTyped
  <2>2. CASE ~ LastTurn(q[i], j)
    <3>1. gen' = [gen EXCEPT !.item = j + 1]
      BY <1>2, <2>2
    <3>2. gen = [at |-> i, item |-> j, known |-> gen.known, alias |-> gen.alias]
      BY DEF ApiInv, GenTyped
    <3>3. gen' = [at |-> i, item |-> j + 1, known |-> gen.known, alias |-> gen.alias]
      BY <3>1, <3>2
    <3>4. gen'.at = gen.at /\ gen'.item = j + 1 /\ gen'.known = gen.known /\ gen'.alias = gen.alias
      BY <3>3
    <3>5. j + 1 \in Nat \ {0}
      BY <1>1
    <3>6. gen' = [at |-> gen'.at, item |-> gen'.item, known |-> gen'.known, alias |-> gen'.alias]
      BY <3>3, <3>4
    <3>7. query' = query /\ gen.at \in 1 .. Len(query.cl) + 1 /\ (gen.at = 1 => gen.known = Nothing)
      BY <1>2 DEF ApiInv, GenTyped
    <3> QED
      BY <1>1, <3>4, <3>5, <3>6, <3>7 DEF GenTyped
  <2> QED
    BY <2>1, <2>2
<1>8. Shapes' /\ Asked'
  BY <1>2, <1>4 DEF ApiInv, Shapes, Asked, client
<1> QED
  BY <1>2, <1>6, <1>7, <1>8 DEF ApiInv

\* Running a statement leaves a well-typed store.
LEMMA ApiExecuteType ==
  ASSUME ApiInv, Execute, UNCHANGED gen
  PROVE  ApiInv'
<1>1. PICK alloc \in Allocations(out[ip], store) : store' = Apply(out[ip], store, alloc)
  BY DEF Execute
<1>2. ip \in DOMAIN out /\ out[ip] \in Runnable
  BY DEF ApiInv, CallTyped, Shapes, Execute
<1>3. out[ip] \in Statement /\ EndsBound(out[ip])
  BY <1>2 DEF Runnable
<1>4. alloc \in [Wanted(out[ip], store) -> Node]
  BY <1>1 DEF Allocations, Spare
<1>5. store' \in Graph(Node)
  BY <1>1, <1>3, <1>4, ApplyType DEF ApiInv, CallTyped
<1>6. ip' \in 1 .. Len(out) + 1 /\ pc = "run"
  BY DEF ApiInv, CallTyped, Execute
<1>7. UNCHANGED <<query, base, pc, at, waiting, out, bmap, counter, failures, served, committed, last, gen>>
  BY DEF Execute, compile, client
<1> QED
  BY <1>5, <1>6, <1>7 DEF ApiInv, CallTyped, GenTyped, Shapes, Asked

\* Every step keeps the invariant.
LEMMA ApiNextType == ApiInv /\ [ApiNext]_apiVars => ApiInv'
<1> SUFFICES ASSUME ApiInv, [ApiNext]_apiVars PROVE ApiInv'
  OBVIOUS
<1>1. CASE Request
  <2>1. PICK q \in Query : query' = q /\ Call(q)
    BY <1>1 DEF Request
  <2> QED
    BY <1>1, <2>1, StartType DEF Request, Call, ApiInv
<1>2. CASE Walk
  BY <1>2, WalkType
<1>3. CASE FallBack
  <2>1. query \in Query /\ served < MaxQueries
    BY <1>3 DEF FallBack, Refused, ApiInv, Asked
  <2> QED
    BY <1>3, <2>1, StartType DEF FallBack, ApiInv
<1>4. CASE Generate
  BY <1>4, GenerateType
<1>5. CASE Generated
  BY <1>5 DEF Generated, ApiInv, CallTyped, GenTyped, Shapes, Asked, compile, client
<1>6. CASE RequestAgain
  <2>1. query \in Query /\ served < MaxQueries
    BY <1>6 DEF RequestAgain, ApiInv, Asked
  <2> QED
    BY <1>6, <2>1, StartType DEF RequestAgain, Call, ApiInv
<1>7. CASE Execute /\ UNCHANGED gen
  BY <1>7, ApiExecuteType
<1>8. CASE (Finish \/ GiveUp) /\ UNCHANGED gen
  <2>1. served' = served + 1 /\ served < MaxQueries /\ pc' = "idle"
    BY <1>8 DEF Finish, GiveUp, ApiInv, Asked
  <2>2. served' \in 0 .. MaxQueries
    BY <2>1, BoundAssumption DEF ApiInv, CallTyped
  <2>3. /\ UNCHANGED <<store, query, base, at, waiting, out, bmap, counter, ip, failures, gen>>
        /\ committed' \in {committed, store} /\ last' \in {last, query}
    BY <1>8 DEF Finish, GiveUp, compile
  <2> QED
    BY <2>1, <2>2, <2>3 DEF ApiInv, CallTyped, GenTyped, Shapes, Asked
<1>9. CASE Fail /\ UNCHANGED gen
  <2>1. failures' \in 0 .. MaxFailures
    BY <1>9, BoundAssumption DEF Fail, ApiInv, CallTyped
  <2> QED
    BY <1>9, <2>1 DEF Fail, ApiInv, CallTyped, GenTyped, Shapes, Asked, compile
<1>10. CASE UNCHANGED apiVars
  BY <1>10 DEF apiVars, vars, compile, client, ApiInv, CallTyped, GenTyped, Shapes, Asked
<1> QED
  BY <1>1, <1>2, <1>3, <1>4, <1>5, <1>6, <1>7, <1>8, <1>9, <1>10 DEF ApiNext, ApiServe

\* For every set of queries, every store, every number of queries and of
\* failures, whichever generator answers and however often it is asked again:
\* the statements are well formed, the store is a graph, and the maps of the
\* legacy generator hold a pattern of one variable for that variable
\* (cypher_to_sparql_update, cypher_clauses_to_updates).
THEOREM ApiTyped == ApiSpec => []ApiTypeOK
<1>1. ApiInv => ApiTypeOK
  BY Session DEF ApiInv, CallTyped, GenTyped, ApiTypeOK
<1> QED
  BY <1>1, ApiInitType, ApiNextType, PTL DEF ApiSpec

-----------------------------------------------------------------------------
(* The graph stays closed *)

\* No query deletes a node or gives a new relationship an unnamed end next to
\* something bound; the stores start closed.
NothingHangs == NoNodeDeleted /\ \A q \in Query : NamedEnds(q.cl)

\* What the legacy generator pushes names no IRI: the invariant of a session
\* is kept with no more than every INSERT's ends in its rows.
ApiClosedInv == out \in Seq(Shaped) /\ ClosedInv

LEMMA ApiInitClosed == NothingHangs /\ ApiInit => ApiClosedInv
<1> SUFFICES ASSUME NothingHangs, ApiInit PROVE ApiClosedInv
  OBVIOUS
<1>1. ClosedInv
  BY InitClosed DEF NothingHangs, ApiInit
<1>2. out = <<>>
  BY DEF ApiInit, Init
<1> QED
  BY <1>1, <1>2 DEF ApiClosedInv

LEMMA ApiNextClosed == NothingHangs /\ ApiInv /\ ApiClosedInv /\ [ApiNext]_apiVars => ApiClosedInv'
<1> SUFFICES ASSUME NothingHangs, ApiInv, ApiClosedInv, [ApiNext]_apiVars PROVE ApiClosedInv'
  OBVIOUS
<1> USE DEF ApiClosedInv
<1>0. NoNodeDeleted
  BY DEF NothingHangs
<1>1. ASSUME out' = <<>>, ip' = 1, store' = store, bmap' = NoNodes PROVE ApiClosedInv'
  BY <1>1 DEF ClosedInv, NamesMade, ReadsMade, KeepsAll, MadeStays, MadeBy, GraphClosed, NoNodes
<1>2. ASSUME out' = out, ip' = ip, store' = store, pc' # "walk" PROVE ApiClosedInv'
  BY <1>2 DEF ClosedInv, NamesMade, ReadsMade, KeepsAll, MadeStays, MadeBy, GraphClosed
<1>3. CASE Request
  <2>1. PICK q \in Query : query' = q /\ Call(q)
    BY <1>3 DEF Request
  <2>2. out' = <<>> /\ ip' = 1 /\ bmap' = NoNodes /\ store' = store
    BY <1>3, <2>1 DEF Request, Call, Compile, StartLegacy
  <2> QED
    BY <1>1, <2>2
<1>4. CASE FallBack
  BY <1>1, <1>4 DEF FallBack, StartLegacy
<1>5. CASE RequestAgain
  BY <1>1, <1>5 DEF RequestAgain, Call, Compile, StartLegacy
<1>6. CASE Walk
  <2>1. TypeInv /\ TypeInv' /\ Next
    BY <1>6, WalkType
  <2>2. ClosedInv'
    BY <1>0, <2>1, NextClosed
  <2> QED
    BY <2>1, <2>2 DEF TypeInv
<1>7. CASE Generate
  <2> DEFINE q == query.cl
             list == LegacyStatements(q, gen.at, gen.item, gen.known)
  <2>1. query \in Query /\ q \in Seq(Clause) /\ \A m \in DOMAIN q : Lowered(q, m)
    BY <1>7, QueryAssumption DEF ApiInv, Asked, Generate
  <2>2. /\ gen.at \in DOMAIN q /\ gen.item \in Nat \ {0} /\ IsKnown(gen.known)
        /\ gen.at = 1 => gen.known = Nothing
    BY <1>7, <2>1 DEF ApiInv, GenTyped, Generate
  <2>3. NamedEnds(q)
    BY <2>1 DEF NothingHangs
  <2>4. out' = out \o list /\ UNCHANGED <<ip, store, pc>> /\ pc = "legacy"
    BY <1>7 DEF Generate
  <2>5. Pushes(list) /\ RootedAll(list)
    BY <2>1, <2>2, <2>3, LegacyFacts
  <2> HIDE DEF list
  <2>6. Emits(list, {}) /\ \A k \in DOMAIN list : Keeps(list[k])
    BY <2>5, PushesEmits
  <2>7. ip \in 1 .. Len(out) + 1
    BY DEF ApiInv, CallTyped
  <2>8. (ReadsMade /\ KeepsAll /\ MadeStays /\ GraphClosed)'
    BY <2>4, <2>6, <2>7, ClosedAppend
  <2>9. NamesMade' /\ out' \in Seq(Shaped)
    BY <2>4, <2>6 DEF NamesMade, Emits
  <2> QED
    BY <2>8, <2>9 DEF ClosedInv
<1>8. CASE Generated
  BY <1>2, <1>8 DEF Generated, compile
<1>9. CASE Execute /\ UNCHANGED gen
  <2>1. TypeOK
    BY <1>9, Session DEF ApiInv, Execute
  <2>2. TypeInv
    BY <2>1 DEF TypeInv, Busy, ApiInv, Shapes, Asked
  <2>3. ClosedInv' /\ out' = out
    BY <1>0, <1>9, <2>2, ExecuteClosed DEF Execute, compile
  <2> QED
    BY <2>3
<1>10. CASE (Finish \/ GiveUp \/ Fail) /\ UNCHANGED gen
  BY <1>2, <1>10 DEF Finish, GiveUp, Fail, compile
<1>11. CASE UNCHANGED apiVars
  BY <1>11 DEF apiVars, vars, compile, ClosedInv, NamesMade, ReadsMade, KeepsAll, MadeStays, MadeBy, GraphClosed
<1> QED
  BY <1>3, <1>4, <1>5, <1>6, <1>7, <1>8, <1>9, <1>10, <1>11 DEF ApiNext, ApiServe

\* Whatever the queries and the store, whichever generator answers, and
\* wherever a failure cuts its list short: no label, property or relationship
\* ever hangs from an identifier that is not a node, if no query deletes a node
\* or gives a relationship it creates an unnamed end next to something bound
\* (cypher_to_sparql_update, cypher_clauses_to_updates, compile_write).
THEOREM ApiClosed ==
  ASSUME NothingHangs
  PROVE  ApiSpec => []GraphClosed
<1>1. ApiInit => ApiInv /\ ApiClosedInv
  BY ApiInitType, ApiInitClosed
<1>2. ApiInv /\ ApiClosedInv /\ [ApiNext]_apiVars => ApiInv' /\ ApiClosedInv'
  BY ApiNextType, ApiNextClosed
<1>3. ApiClosedInv => GraphClosed
  BY DEF ApiClosedInv, ClosedInv
<1> QED
  BY <1>1, <1>2, <1>3, PTL DEF ApiSpec

-----------------------------------------------------------------------------
(* A node MERGE finds what it has made *)

LEMMA ApiNextSettles ==
  ApiInv /\ (pc \in {"walk", "legacy"} => ip = 1) /\ MergeSettles /\ [ApiNext]_apiVars
    => (pc \in {"walk", "legacy"} => ip = 1)' /\ MergeSettles'
<1> DEFINE NotRun == pc \in {"walk", "legacy"} => ip = 1
<1> SUFFICES ASSUME ApiInv, NotRun, MergeSettles, [ApiNext]_apiVars PROVE NotRun' /\ MergeSettles'
  OBVIOUS
<1>1. ASSUME ip' = 1 \/ pc' = "idle" PROVE NotRun' /\ MergeSettles'
  BY <1>1 DEF MergeSettles
<1>2. ASSUME pc \in {"run", "failed"}, pc' \in {"run", "failed"}, UNCHANGED <<out, ip, store>>
      PROVE  NotRun' /\ MergeSettles'
  BY <1>2 DEF MergeSettles, Fires
<1>3. CASE Request \/ FallBack \/ RequestAgain
  BY <1>1, <1>3 DEF Request, FallBack, RequestAgain, Call, Compile, StartLegacy
<1>4. CASE Walk
  BY <1>1, <1>4 DEF Walk, VisitCreate, VisitWrite, VisitRead, Emit, Compiled
<1>5. CASE Generate \/ Generated
  BY <1>1, <1>5 DEF Generate, Generated
<1>6. CASE Execute /\ UNCHANGED gen
  <2> DEFINE s == out[ip]
  <2>1. PICK alloc \in Allocations(s, store) : store' = Apply(s, store, alloc)
    BY <1>6 DEF Execute
  <2>2. s \in Runnable /\ ip \in Nat
    BY <1>6 DEF ApiInv, CallTyped, Shapes, Execute
  <2>3. s \in Statement /\ MergeShaped(s)
    BY <2>2 DEF Runnable
  <2>4. alloc \in [Wanted(s, store) -> Node]
    BY <2>1 DEF Allocations, Spare
  <2>5. ip' - 1 = ip /\ out' = out /\ pc' = "run"
    BY <1>6, <2>2 DEF Execute, compile
  <2>6. (s.s = "insert" /\ s.fresh # {} /\ s.absent # EmptyGraph) => Fires(s, store') = {}
    BY <2>1, <2>3, <2>4, SettlesOnce
  <2> QED
    BY <2>5, <2>6 DEF MergeSettles
<1>7. CASE (Finish \/ GiveUp) /\ UNCHANGED gen
  BY <1>1, <1>7 DEF Finish, GiveUp
<1>8. CASE Fail /\ UNCHANGED gen
  BY <1>2, <1>8 DEF Fail, compile
<1>9. CASE UNCHANGED apiVars
  BY <1>9 DEF apiVars, vars, compile, MergeSettles, Fires
<1> QED
  BY <1>3, <1>4, <1>5, <1>6, <1>7, <1>8, <1>9 DEF ApiNext, ApiServe

\* The INSERT of a node MERGE that has just run would do nothing if it ran
\* again, also when the legacy generator built it (LegacyMergeInsert).
THEOREM ApiSettles == ApiSpec => []MergeSettles
<1>1. ApiInit => (pc \in {"walk", "legacy"} => ip = 1) /\ MergeSettles
  BY DEF ApiInit, Init, MergeSettles
<1> QED
  BY <1>1, ApiInitType, ApiNextType, ApiNextSettles, PTL DEF ApiSpec
-----------------------------------------------------------------------------
(* What the legacy generator remembers *)

\* The maps at clause i: of each matched variable, what its MATCH says of it.
Recalls(q, i, known) ==
  LET matched == {m \in 1 .. i - 1 : q[m].c = "match"} IN
  /\ DOMAIN known = UNION {Ids(q[m].p) : m \in matched}
  /\ \A m \in matched : \A v \in Ids(q[m].p) : known[v] = Mention(q[m].p, v)

\* What is remembered of a variable, part by part.
LEMMA MentionFields ==
  ASSUME NEW p, NEW v
  PROVE  /\ Mention(p, v).node = {v}
         /\ Mention(p, v).label = {t \in p.label : t[1] = v} /\ Mention(p, v).prop = {t \in p.prop : t[1] = v}
         /\ Mention(p, v).edge = {} /\ Mention(p, v).eprop = {}
  BY DEF Mention, Sentinel, EmptyGraph

\* What holds of every query served: where it deletes, there is a list; where it
\* does not, its clauses are exact for the legacy generator.
LEMMA ServedFacts ==
  ASSUME OneServedEach(Query), NEW q \in Query
  PROVE  LET n == Len(q.cl)
         IN /\ Fits(q) /\ OneServed(q) /\ OneClause(q) /\ n \in Nat /\ n > 0 /\ DOMAIN q.cl = 1 .. n
            /\ LastOf(q) = q.cl[n] /\ q.cl \in Seq(Clause) /\ \A i \in DOMAIN q.cl : Lowered(q.cl, i)
            /\ \A i \in 1 .. n - 1 : q.cl[i].c \in {"match", "with"}
            /\ Deletes(q) => LastOf(q).c = "delete" /\ Compilable(q) /\ ~ q.ret /\ TriesLqa(q)
            /\ ~ Deletes(q) => /\ LastOf(q).c \in {"create", "set", "mergeNode", "mergeRel"}
                               /\ \A i \in 1 .. n : LegacyClauseExact(q.cl, i) /\ ClauseExact(q.cl, i)
                               /\ \A i \in 1 .. n - 1 : q.cl[i].c = "with" => q.cl[i].rename = {}
<1> DEFINE n == Len(q.cl)
<1>1. OneServed(q) /\ OneClause(q) /\ Fits(q)
  BY DEF OneServedEach, OneServed, Fits, LastOf
<1>2. /\ n \in Nat /\ n > 0 /\ q.cl \in Seq(Clause) /\ DOMAIN q.cl = 1 .. n
      /\ \A i \in DOMAIN q.cl : Lowered(q.cl, i)
      /\ q.cl[n].c \in {"create", "set", "delete", "mergeNode", "mergeRel", "call"}
      /\ \A i \in 1 .. n - 1 : q.cl[i].c \in {"match", "with"}
  BY <1>1, Clauses
<1>3. ASSUME Deletes(q) PROVE LastOf(q).c = "delete" /\ Compilable(q) /\ ~ q.ret /\ TriesLqa(q)
  <2>1. LastOf(q).c = "delete"
    BY <1>2, <1>3 DEF Deletes, LastOf
  <2>2. TriesLqa(q) /\ Exact(q) /\ ~ Bounded(q.cl)
    BY <1>1, <1>3 DEF OneServed, ApiExact
  <2>3. \A i \in 1 .. n - 1 : q.cl[i].c # "call" /\ (q.cl[i].c = "with" => ~ q.cl[i].limit)
    BY <1>2, <2>2 DEF Bounded
  <2>4. ContextSupported(q.cl, n)
    BY <1>2, <2>3 DEF ContextSupported, WhereSupported, ReadContext
  <2>5. OwnSupported(q.cl, n, NoNodes)
    BY <2>1, <2>4 DEF OwnSupported, LastOf
  <2> QED
    BY <1>3, <2>1, <2>2, <2>5 DEF Compilable, Exact
<1>4. ASSUME ~ Deletes(q)
      PROVE  /\ LastOf(q).c \in {"create", "set", "mergeNode", "mergeRel"}
             /\ \A i \in 1 .. n : LegacyClauseExact(q.cl, i) /\ ClauseExact(q.cl, i)
             /\ \A i \in 1 .. n - 1 : q.cl[i].c = "with" => q.cl[i].rename = {}
  <2>1. \A i \in 1 .. n : LegacyClauseExact(q.cl, i)
    BY <1>1, <1>2, <1>4 DEF OneServed, ApiExact, LegacyExact
  <2>2. \A i \in 1 .. n : ClauseExact(q.cl, i)
    BY <1>1, <1>2 DEF OneClause, Exact
  <2>3. q.cl[n].c # "delete" /\ q.cl[n].c # "call"
    BY <1>2, <1>4, <2>1 DEF Deletes, LegacyClauseExact
  <2>4. \A i \in 1 .. n - 1 : q.cl[i].c = "with" => q.cl[i].rename = {}
    BY <1>1, <1>4 DEF OneServed
  <2> QED
    BY <1>2, <2>1, <2>2, <2>3, <2>4 DEF LastOf
<1> QED
  BY <1>1, <1>2, <1>3, <1>4 DEF LastOf

\* A WHERE of one pattern and nothing else.
LEMMA PatternFields ==
  ASSUME NEW p
  PROVE  Pattern(p) = [must |-> p, opt |-> EmptyGraph, same |-> {}, iri |-> {}]
<1>1. NoWhere = [must |-> NoWhere.must, opt |-> EmptyGraph, same |-> {}, iri |-> {}]
  BY DEF NoWhere
<1> QED
  BY <1>1 DEF Pattern

\* What is remembered of the matched variables is, put together, the WHERE of
\* the clause that writes.
LEMMA Recalled ==
  ASSUME OneServedEach(Query), NEW q \in Query, ~ Deletes(q), NEW known, Recalls(q.cl, Len(q.cl), known)
  PROVE  LET ctx == ContextOf(q.cl, Len(q.cl)) V == MatchVars(q.cl)
         IN /\ DOMAIN known = V /\ Aliases(q.cl) = {} /\ WhereVars(ctx) = V
            /\ UnionOf({known[v] : v \in V}) = ctx.must
            /\ ctx = Pattern(ctx.must) /\ ctx.must.node = V
<1> DEFINE n == Len(q.cl)
           ctx == ContextOf(q.cl, n)
           V == MatchVars(q.cl)
           M == {m \in 1 .. n - 1 : q.cl[m].c = "match"}
           U == UnionOf({known[v] : v \in V})
<1>1. /\ OneClause(q) /\ OneServed(q) /\ n \in Nat /\ n > 0 /\ DOMAIN q.cl = 1 .. n /\ LastOf(q) = q.cl[n]
      /\ \A i \in 1 .. n - 1 : q.cl[i].c \in {"match", "with"}
      /\ LastOf(q).c \in {"create", "set", "mergeNode", "mergeRel"}
      /\ \A i \in 1 .. n : LegacyClauseExact(q.cl, i)
      /\ \A i \in 1 .. n - 1 : q.cl[i].c = "with" => q.cl[i].rename = {}
  BY ServedFacts
<1>2. V = UNION {Ids(q.cl[m].p) : m \in M}
  <2>1. M = {m \in DOMAIN q.cl : q.cl[m].c = "match"}
    BY <1>1
  <2> HIDE DEF M
  <2> QED
    BY <2>1 DEF MatchVars
<1>3. DOMAIN known = V /\ \A m \in M : \A v \in Ids(q.cl[m].p) : known[v] = Mention(q.cl[m].p, v)
  BY <1>2 DEF Recalls
<1>4. \A i \in 1 .. n : Renames(q.cl[i]) = {}
  BY <1>1 DEF Renames
<1>5. Aliases(q.cl) = {}
  <2>1. ASSUME NEW w \in Aliases(q.cl) PROVE FALSE
    <3>1. PICK i \in DOMAIN q.cl : w \in {t[2] : t \in Renames(q.cl[i])}
      BY DEF Aliases
    <3>2. Renames(q.cl[i]) = {}
      BY <1>1, <1>4
    <3> QED
      BY <3>1, <3>2
  <2> QED
    BY <2>1
<1>6. ctx = WhereParts(q.cl, 1 .. n - 1) /\ Plain(ctx)
  BY <1>1, Reading
<1>7. ctx.same = {}
  <2>1. ctx.same = UNION {Renames(q.cl[j]) : j \in 1 .. n - 1}
    BY <1>6 DEF WhereParts
  <2>2. ASSUME NEW j \in 1 .. n - 1 PROVE Renames(q.cl[j]) = {}
    <3>1. j \in 1 .. n
      BY <1>1
    <3> QED
      BY <1>4, <3>1
  <2> HIDE DEF ctx
  <2> QED
    BY <2>1, <2>2
<1>8. ctx = Pattern(ctx.must)
  <2>1. ctx = [must |-> ctx.must, opt |-> ctx.opt, same |-> ctx.same, iri |-> ctx.iri]
    BY <1>6 DEF WhereParts
  <2>2. ctx.opt = EmptyGraph /\ ctx.iri = {}
    BY <1>6 DEF Plain
  <2>3. Pattern(ctx.must) = [must |-> ctx.must, opt |-> EmptyGraph, same |-> {}, iri |-> {}]
    BY PatternFields
  <2> HIDE DEF ctx
  <2> QED
    BY <1>7, <2>1, <2>2, <2>3
<1>9. /\ \A m \in M : /\ q.cl[m].p.edge = {} /\ q.cl[m].p.eprop = {}
                     /\ q.cl[m].p.node = Ids(q.cl[m].p)
  BY <1>1 DEF OneServed, LegacyClauseExact
<1>10. /\ \A m \in M : MustPart(q.cl[m]) = q.cl[m].p
       /\ \A i \in (1 .. n - 1) \ M : MustPart(q.cl[i]) = EmptyGraph
  BY <1>1 DEF MustPart
<1>11. ctx.must = UnionOf({MustPart(q.cl[i]) : i \in 1 .. n - 1})
  BY <1>6 DEF WhereParts
<1>12. /\ ctx.must.node = UNION {q.cl[m].p.node : m \in M} /\ ctx.must.label = UNION {q.cl[m].p.label : m \in M}
       /\ ctx.must.prop = UNION {q.cl[m].p.prop : m \in M} /\ ctx.must.edge = {} /\ ctx.must.eprop = {}
  <2> DEFINE S == {MustPart(q.cl[i]) : i \in 1 .. n - 1}
  <2>1. \A h \in S : h = EmptyGraph \/ \E m \in M : h = q.cl[m].p
    BY <1>10
  <2>2. \A m \in M : q.cl[m].p \in S
    BY <1>10
  <2>3. EmptyGraph.node = {} /\ EmptyGraph.label = {} /\ EmptyGraph.prop = {} /\ EmptyGraph.edge = {} /\ EmptyGraph.eprop = {}
    BY DEF EmptyGraph
  <2> HIDE DEF S, M, ctx
  <2>4. UNION {h.node : h \in S} = UNION {q.cl[m].p.node : m \in M}
    BY <2>1, <2>2, <2>3
  <2>5. UNION {h.label : h \in S} = UNION {q.cl[m].p.label : m \in M}
    BY <2>1, <2>2, <2>3
  <2>6. UNION {h.prop : h \in S} = UNION {q.cl[m].p.prop : m \in M}
    BY <2>1, <2>2, <2>3
  <2>7. UNION {h.edge : h \in S} = {} /\ UNION {h.eprop : h \in S} = {}
    BY <1>9, <2>1, <2>3
  <2>8. ctx.must = UnionOf(S)
    BY <1>11 DEF S
  <2>9. /\ ctx.must.node = UNION {h.node : h \in S} /\ ctx.must.label = UNION {h.label : h \in S}
        /\ ctx.must.prop = UNION {h.prop : h \in S} /\ ctx.must.edge = UNION {h.edge : h \in S}
        /\ ctx.must.eprop = UNION {h.eprop : h \in S}
    BY <2>8 DEF UnionOf
  <2> QED
    BY <2>4, <2>5, <2>6, <2>7, <2>9
<1> HIDE DEF ctx, M, V
<1>13. \A v \in V : \E m \in M : v \in Ids(q.cl[m].p) /\ known[v] = Mention(q.cl[m].p, v)
  BY <1>2, <1>3
<1>14. U.node = V /\ ctx.must.node = V
  <2>1. \A v \in V : known[v].node = {v}
    BY <1>13, MentionFields
  <2>2. UNION {known[v].node : v \in V} = V
    BY <2>1
  <2>3. U.node = UNION {h.node : h \in {known[v] : v \in V}}
    BY DEF UnionOf
  <2>4. UNION {q.cl[m].p.node : m \in M} = UNION {Ids(q.cl[m].p) : m \in M}
    BY <1>9
  <2>5. UNION {h.node : h \in {known[v] : v \in V}} = UNION {known[v].node : v \in V}
    OBVIOUS
  <2> HIDE DEF U
  <2> QED
    BY <1>2, <1>12, <2>2, <2>3, <2>4, <2>5
<1>15. U.label = ctx.must.label
  <2>1. ASSUME NEW t \in ctx.must.label PROVE t \in U.label
    <3>1. PICK m \in M : t \in q.cl[m].p.label
      BY <1>12
    <3>2. t[1] \in Ids(q.cl[m].p) /\ t[1] \in V
      BY <1>2, <3>1 DEF Ids
    <3>3. t \in known[t[1]].label
      BY <1>3, <3>1, <3>2, MentionFields
    <3> QED
      BY <3>2, <3>3 DEF UnionOf
  <2>2. ASSUME NEW t \in U.label PROVE t \in ctx.must.label
    <3>1. PICK v \in V : t \in known[v].label
      BY DEF UnionOf
    <3>2. PICK m \in M : known[v] = Mention(q.cl[m].p, v)
      BY <1>13
    <3>3. t \in q.cl[m].p.label
      BY <3>1, <3>2, MentionFields
    <3> QED
      BY <1>12, <3>3
  <2> QED
    BY <2>1, <2>2
<1>16. U.prop = ctx.must.prop
  <2>1. ASSUME NEW t \in ctx.must.prop PROVE t \in U.prop
    <3>1. PICK m \in M : t \in q.cl[m].p.prop
      BY <1>12
    <3>2. t[1] \in Ids(q.cl[m].p) /\ t[1] \in V
      BY <1>2, <3>1 DEF Ids
    <3>3. t \in known[t[1]].prop
      BY <1>3, <3>1, <3>2, MentionFields
    <3> QED
      BY <3>2, <3>3 DEF UnionOf
  <2>2. ASSUME NEW t \in U.prop PROVE t \in ctx.must.prop
    <3>1. PICK v \in V : t \in known[v].prop
      BY DEF UnionOf
    <3>2. PICK m \in M : known[v] = Mention(q.cl[m].p, v)
      BY <1>13
    <3>3. t \in q.cl[m].p.prop
      BY <3>1, <3>2, MentionFields
    <3> QED
      BY <1>12, <3>3
  <2> QED
    BY <2>1, <2>2
<1>17. U.edge = {} /\ U.eprop = {}
  <2>1. \A v \in V : known[v].edge = {} /\ known[v].eprop = {}
    BY <1>13, MentionFields
  <2> QED
    BY <2>1 DEF UnionOf
<1>18. U = ctx.must
  <2>1. U = [node |-> U.node, label |-> U.label, prop |-> U.prop, edge |-> U.edge, eprop |-> U.eprop]
    BY DEF UnionOf
  <2>2. ctx.must = [node |-> ctx.must.node, label |-> ctx.must.label, prop |-> ctx.must.prop,
                    edge |-> ctx.must.edge, eprop |-> ctx.must.eprop]
    <3>1. ctx.must = UnionOf({MustPart(q.cl[i]) : i \in 1 .. n - 1})
      BY <1>11
    <3> QED
      BY <3>1 DEF UnionOf
  <2> HIDE DEF U
  <2> QED
    BY <1>12, <1>14, <1>15, <1>16, <1>17, <2>1, <2>2
<1>19. WhereVars(ctx) = V
  <2>1. WhereVars(ctx) = Ids(ctx.must)
    <3>1. Ids(EmptyGraph) = {}
      BY DEF Ids, EmptyGraph
    <3>2. ctx.same = {} /\ ctx.iri = {} /\ ctx.opt = EmptyGraph
      BY <1>6, <1>7 DEF Plain
    <3> QED
      BY <3>1, <3>2 DEF WhereVars, MustVars
  <2>2. \A t \in ctx.must.label : t[1] \in V
    BY <1>2, <1>12 DEF Ids
  <2>3. \A t \in ctx.must.prop : t[1] \in V
    BY <1>2, <1>12 DEF Ids
  <2> QED
    BY <1>12, <1>14, <2>1, <2>2, <2>3 DEF Ids
<1> QED
  BY <1>3, <1>5, <1>8, <1>14, <1>18, <1>19 DEF ctx, V

\* Taking away what is not there changes nothing.
LEMMA TakeNothing ==
  ASSUME NEW Id, NEW g \in Graph(Id)
  PROVE  /\ g.label = {} /\ g.prop = {} => [g EXCEPT !.label = {}, !.prop = {}] = g
         /\ g.edge = {} /\ g.eprop = {} => [g EXCEPT !.edge = {}, !.eprop = {}] = g
<1>1. [g EXCEPT !.label = g.label] = g /\ [g EXCEPT !.prop = g.prop] = g
  BY DEF Graph
<1>2. [g EXCEPT !.edge = g.edge] = g /\ [g EXCEPT !.eprop = g.eprop] = g
  BY DEF Graph
<1> QED
  BY <1>1, <1>2

\* A statement of the last clause that joins every matched variable uses them all.
LEMMA AllUsed ==
  ASSUME OneServedEach(Query), NEW q \in Query, ~ Deletes(q), Covers(q.cl, Len(q.cl))
  PROVE  MatchVars(q.cl) \subseteq Used(q.cl, Len(q.cl))
<1> DEFINE n == Len(q.cl)
           U == Used(q.cl, n)
<1>1. /\ OneClause(q) /\ n \in Nat /\ n > 0 /\ DOMAIN q.cl = 1 .. n
      /\ LastOf(q) = q.cl[n] /\ LastOf(q).c \in {"create", "set", "mergeNode", "mergeRel"}
      /\ \A i \in 1 .. n - 1 : q.cl[i].c = "with" => q.cl[i].rename = {}
  BY ServedFacts
<1>2. \A t \in AllRenames(q.cl) : FALSE
  <2>1. ASSUME NEW t \in AllRenames(q.cl) PROVE FALSE
    <3>1. PICK i \in DOMAIN q.cl : q.cl[i].c = "with" /\ t \in q.cl[i].rename
      BY DEF AllRenames
    <3>2. i # n
      BY <1>1, <3>1
    <3>3. i \in 1 .. n - 1
      BY <1>1, <3>2
    <3> QED
      BY <1>1, <3>1, <3>3
  <2> QED
    BY <2>1
<1> HIDE DEF U
<1>3. ASSUME NEW v \in MatchVars(q.cl), v \notin U PROVE FALSE
  <2> DEFINE S == ({v} \cup {t[2] : t \in {u \in AllRenames(q.cl) : u[1] = v}}) \cap U
  <2>1. S = {}
    BY <1>2, <1>3
  <2>2. Cardinality(S) = 1
    BY DEF Covers, U
  <2> HIDE DEF S
  <2> QED
    BY <2>1, <2>2, FS_EmptySet
<1> QED
  BY <1>3 DEF U

\* The clause that writes is the only one its statement is made of.
LEMMA CreateAlone ==
  ASSUME NEW q \in Query, OneClause(q), LastOf(q).c = "create"
  PROVE  CreateGraph(q.cl, Len(q.cl)) = LastOf(q).g /\ ~ Coalesced(q.cl, Len(q.cl))
<1> DEFINE n == Len(q.cl)
<1>1. /\ n \in Nat /\ n > 0 /\ q.cl[n] = LastOf(q) /\ q.cl[n] \in Clause
      /\ \A i \in 1 .. n - 1 : q.cl[i].c \in {"match", "with"}
  BY Clauses DEF LastOf
<1>2. Adjacent(q.cl, n) = {n}
  BY <1>1 DEF Adjacent
<1>3. {q.cl[j].g : j \in {n}} = {LastOf(q).g}
  BY <1>1
<1>4. LastOf(q).g \in Graph(Var)
  BY <1>1 DEF Clause
<1>5. UnionOf({LastOf(q).g}) = LastOf(q).g
  BY <1>4, UnionOne
<1>6. ~ Coalesced(q.cl, n)
  <2>1. n > 1 => n - 1 \in 1 .. n - 1
    BY <1>1
  <2> QED
    BY <1>1, <2>1 DEF Coalesced
<1> QED
  BY <1>2, <1>3, <1>5, <1>6 DEF CreateGraph

\* A template that names no invented variable has none to leave out.
LEMMA NoneInvented ==
  ASSUME NEW g \in Graph(Var), Closed(g), \A v \in g.node : v \notin AnonVar, NEW V
  PROVE  CreateTemplate(g, V \cup AnonVar) = CreateTemplate(g, V)
<1>1. (\A t \in g.label : t[1] \in g.node) /\ \A t \in g.prop : t[1] \in g.node
  BY DEF Closed, Ids
<1>2. g.node \ (V \cup AnonVar) = g.node \ V
  OBVIOUS
<1>3. {t \in g.label : t[1] \notin V \cup AnonVar} = {t \in g.label : t[1] \notin V}
  BY <1>1
<1>4. {t \in g.prop : t[1] \notin V \cup AnonVar} = {t \in g.prop : t[1] \notin V}
  BY <1>1
<1> QED
  BY <1>2, <1>3, <1>4 DEF CreateTemplate

\* Leaving out nothing changes nothing.
LEMMA WholeTemplate ==
  ASSUME NEW g \in Graph(Var)
  PROVE  CreateTemplate(g, {}) = g
<1>1. g.node \ {} = g.node /\ {t \in g.label : t[1] \notin {}} = g.label /\ {t \in g.prop : t[1] \notin {}} = g.prop
  OBVIOUS
<1> QED
  BY <1>1 DEF CreateTemplate, Graph

\* CREATE: both generators insert the same template, on the same rows.
LEMMA CreateAgrees ==
  ASSUME OneServedEach(Query), NEW q \in Query, ~ Deletes(q), LastOf(q).c = "create",
         NEW known, Recalls(q.cl, Len(q.cl), known)
  PROVE  LegacyStatements(q.cl, Len(q.cl), 1, known) = List(q)
<1> DEFINE n == Len(q.cl)
           g == LastOf(q).g
           ctx == ContextOf(q.cl, n)
           V == MatchVars(q.cl)
           tmpl == CreateTemplate(g, g.node \cap V)
<1>1. /\ OneClause(q) /\ n \in Nat /\ n > 0 /\ DOMAIN q.cl = 1 .. n /\ LastOf(q) = q.cl[n]
      /\ LegacyClauseExact(q.cl, n) /\ Lowered(q.cl, n)
  BY ServedFacts
<1>2. /\ DOMAIN known = V /\ Aliases(q.cl) = {} /\ WhereVars(ctx) = V
      /\ UnionOf({known[v] : v \in V}) = ctx.must /\ ctx = Pattern(ctx.must)
  BY Recalled
<1>3. CreateGraph(q.cl, n) = g /\ ~ Coalesced(q.cl, n)
  BY <1>1, CreateAlone
<1>4. g \in Graph(Var) /\ Closed(g)
  BY <1>1, Clauses DEF Lowered, Clause
<1>5. LegacyStatements(q.cl, n, 1, known) = LegacyCreate(g, known)
  BY <1>1, <1>3 DEF LegacyStatements
<1>6. BoundIn(g, known) = g.node \cap V
  BY <1>2 DEF BoundIn
<1>7. List(q) = CompileCreate(LastOf(q), ctx, Mapped(LastOf(q), ctx))
  BY DEF List
<1>8. /\ Mapped(LastOf(q), ctx).row = g.node \cap V /\ Mapped(LastOf(q), ctx).blank = g.node \ V
      /\ Mapped(LastOf(q), ctx).iri = {}
  BY <1>2 DEF Mapped
<1> HIDE DEF ctx, V, n
<1>9. List(q) = IF tmpl = EmptyGraph THEN <<>>
                ELSE <<[s |-> "insert", ctx |-> ctx, absent |-> EmptyGraph, tmpl |-> tmpl,
                        fresh |-> (g.node \ V) \cap Ids(tmpl), iri |-> {}]>>
  <2>1. {t \in {} : t[1] \in Ids(tmpl)} = {}
    OBVIOUS
  <2> QED
    BY <1>7, <1>8, <2>1 DEF CompileCreate
<1>10. CASE V = {}
  <2>1. {known[v] : v \in V} = {}
    BY <1>10
  <2>2. ctx.must = EmptyGraph
    <3>1. \A h \in {} : h = EmptyGraph
      OBVIOUS
    <3> QED
      BY <1>2, <2>1, <3>1, UnionEmpty
  <2>3. ctx = NoWhere
    BY <1>2, <2>2, PatternFields DEF NoWhere
  <2>4. g.node \cap V = {} /\ g.node \ V = g.node
    BY <1>10
  <2>5. tmpl = g
    BY <1>4, <2>4, WholeTemplate
  <2> HIDE DEF tmpl, g
  <2>6. LegacyCreate(g, known) = LegacyInsert(NoWhere, EmptyGraph, g, g.node)
    BY <1>6, <2>4 DEF LegacyCreate
  <2>7. LegacyInsert(NoWhere, EmptyGraph, g, g.node) = List(q)
    BY <1>9, <2>3, <2>4, <2>5 DEF LegacyInsert
  <2> QED
    BY <1>5, <2>6, <2>7 DEF n
<1>11. CASE V # {}
  <2>1. Covers(q.cl, n) /\ \A v \in g.node : v \notin AnonVar
    BY <1>1, <1>11 DEF LegacyClauseExact, V
  <2>2. Used(q.cl, n) = g.node \cap V
    BY <1>1, <1>2, <1>3 DEF Used, V
  <2>3. V \subseteq g.node
    BY <2>1, <2>2, AllUsed DEF V, n
  <2>4. g.node \cap V = V
    BY <2>3
  <2>5. Constraints(V, known) = ctx
    BY <1>2 DEF Constraints, Pattern
  <2>6. BesideBound(g, V) = tmpl
    BY <1>4, <2>1, <2>4, NoneInvented DEF BesideBound
  <2> HIDE DEF tmpl, g
  <2>7. LegacyCreate(g, known) = LegacyInsert(ctx, EmptyGraph, tmpl, g.node \ V)
    BY <1>6, <1>11, <2>4, <2>5, <2>6 DEF LegacyCreate
  <2>8. LegacyInsert(ctx, EmptyGraph, tmpl, g.node \ V) = List(q)
    BY <1>9 DEF LegacyInsert
  <2> QED
    BY <1>5, <2>7, <2>8 DEF n
<1> QED
  BY <1>10, <1>11 DEF n

\* MERGE of a node: what was matched does not matter to either.
LEMMA MergeNodeAgrees ==
  ASSUME OneServedEach(Query), NEW q \in Query, ~ Deletes(q), LastOf(q).c = "mergeNode", NEW known
  PROVE  LegacyStatements(q.cl, Len(q.cl), 1, known) = List(q) /\ LastOf(q).onMatch = <<>>
<1> DEFINE n == Len(q.cl)
           cl == LastOf(q)
           new == CreatedBy(cl)
<1>1. /\ OneClause(q) /\ n \in Nat /\ n > 0 /\ DOMAIN q.cl = 1 .. n /\ cl = q.cl[n]
      /\ ClauseExact(q.cl, n) /\ OneServed(q)
  <2>1. n \in Nat /\ n > 0 /\ \A i \in 1 .. n : ClauseExact(q.cl, i)
    BY ServedFacts
  <2>2. n \in 1 .. n
    BY <2>1
  <2> QED
    BY <2>1, <2>2, ServedFacts
<1>2. cl.onMatch = <<>> /\ cl.p.node = {cl.v} /\ cl \in Clause
  BY <1>1, Clauses DEF ClauseExact, OneServed
<1>3. cl.p \in Graph(Var) /\ cl.v \in Var
  BY <1>2 DEF Clause
<1>4. Both(cl.p, Sentinel(cl.v)) = cl.p
  <2>1. Both(cl.p, Sentinel(cl.v)) \in Graph(Var)
    BY <1>3, BothType, SentinelFacts
  <2>2. Sentinel(cl.v) = [node |-> {cl.v}, label |-> {}, prop |-> {}, edge |-> {}, eprop |-> {}]
    BY <1>3, SentinelFacts
  <2>3. /\ Both(cl.p, Sentinel(cl.v)).node = cl.p.node /\ Both(cl.p, Sentinel(cl.v)).label = cl.p.label
        /\ Both(cl.p, Sentinel(cl.v)).prop = cl.p.prop /\ Both(cl.p, Sentinel(cl.v)).edge = cl.p.edge
        /\ Both(cl.p, Sentinel(cl.v)).eprop = cl.p.eprop
    BY <1>2, <2>2 DEF Both
  <2> QED
    BY <1>3, <2>1, <2>3, GraphEqual
<1>5. cl.v \in new.node /\ new # EmptyGraph /\ {cl.v} \cap Ids(new) = {cl.v}
  <2>1. cl.v \in new.node
    BY <1>3 DEF CreatedBy, Graph
  <2>2. EmptyGraph.node = {}
    BY DEF EmptyGraph
  <2> HIDE DEF new
  <2> QED
    BY <2>1, <2>2 DEF Ids
<1>6. List(q) = CompileMergeNode(cl)
  BY <1>1 DEF List, OwnStatements, LastOf
<1>7. CompileSetItems(cl.onMatch, Pattern(cl.p)) = <<>>
  BY <1>2 DEF CompileSetItems, Each
<1>8. LegacyStatements(q.cl, n, 1, known) = LegacyMergeInsert(cl)
  BY <1>1 DEF LegacyStatements
<1> HIDE DEF new
<1>9. LegacyMergeInsert(cl) = <<[s |-> "insert", ctx |-> NoWhere, absent |-> cl.p, tmpl |-> new,
                                 fresh |-> {cl.v}, iri |-> {}]>>
  BY <1>4, <1>5 DEF LegacyMergeInsert, LegacyInsert, new
<1>10. CompileMergeNode(cl) = <<[s |-> "insert", ctx |-> NoWhere, absent |-> cl.p, tmpl |-> new,
                                 fresh |-> {cl.v}, iri |-> {}]>>
  BY <1>7 DEF CompileMergeNode, new
<1> QED
  BY <1>2, <1>6, <1>8, <1>9, <1>10

\* MERGE of a relationship: between the ends, the two matched variables.
LEMMA MergeRelAgrees ==
  ASSUME OneServedEach(Query), NEW q \in Query, ~ Deletes(q), LastOf(q).c = "mergeRel",
         NEW known, IsKnown(known), Recalls(q.cl, Len(q.cl), known)
  PROVE  LegacyStatements(q.cl, Len(q.cl), 1, known) = List(q)
<1> DEFINE n == Len(q.cl)
           cl == LastOf(q)
           ctx == ContextOf(q.cl, n)
           V == MatchVars(q.cl)
<1>1. /\ OneClause(q) /\ n \in Nat /\ n > 0 /\ DOMAIN q.cl = 1 .. n /\ cl = q.cl[n]
      /\ LegacyClauseExact(q.cl, n)
  BY ServedFacts
<1>2. /\ DOMAIN known = V /\ WhereVars(ctx) = V
      /\ UnionOf({known[v] : v \in V}) = ctx.must /\ ctx = Pattern(ctx.must)
  BY Recalled
<1>3. cl.onMatch = <<>> /\ cl.scan = EmptyGraph /\ {cl.from, cl.to} \subseteq V
  BY <1>1, <1>2 DEF LegacyClauseExact, OneClause, LastOf
<1>4. V = {cl.from, cl.to}
  <2>1. Used(q.cl, n) = {cl.from, cl.to}
    BY <1>1 DEF Used
  <2>2. V \subseteq Used(q.cl, n)
    BY <1>1, AllUsed DEF LegacyClauseExact
  <2> QED
    BY <1>3, <2>1, <2>2
<1>5. List(q) = <<MergeEdgeInsert(cl, ctx)>>
  <2>1. Facing(MergeWhere(q.cl, n, NoNodes), cl.scan) = ctx
    BY <1>1, MergeReads
  <2>2. Constrained(cl, ctx)
    BY <1>2, <1>3 DEF Constrained
  <2>3. List(q) = CompileMergeRel(cl, ctx)
    BY <1>1, <2>1, <2>2 DEF List, OwnStatements, LastOf
  <2>4. CompileSetItems(cl.onMatch, Facing(ctx, EdgeGraph(cl, {}))) = <<>>
    BY <1>3 DEF CompileSetItems, Each
  <2>5. \A x : <<x>> \o <<>> = <<x>>
    OBVIOUS
  <2> QED
    BY <2>3, <2>4, <2>5 DEF CompileMergeRel
<1>6. MergeEnds(cl, known) = ctx
  <2> HIDE DEF ctx, V, cl
  <2>1. PatternOf(cl.from, known) = known[cl.from] /\ PatternOf(cl.to, known) = known[cl.to]
    BY <1>2, <1>3 DEF PatternOf
  <2>2. known[cl.from] \in Graph(Var) /\ known[cl.to] \in Graph(Var)
    BY <1>2, <1>3 DEF IsKnown
  <2>3. {known[v] : v \in V} = {known[cl.from], known[cl.to]}
    BY <1>4
  <2>4. UnionOf({known[cl.from], known[cl.to]}) = Both(known[cl.from], known[cl.to])
    <3>1. {known[cl.from], known[cl.to]} = {known[cl.from]} \cup {known[cl.to]}
      OBVIOUS
    <3>2. UnionOf({known[cl.to]}) = known[cl.to]
      BY <2>2, UnionOne
    <3> QED
      BY <3>1, <3>2, UnionAdds
  <2>5. [cl.scan EXCEPT !.edge = {}, !.eprop = {}] = EmptyGraph
    <3>1. EmptyGraph \in Graph(Var) /\ EmptyGraph.edge = {} /\ EmptyGraph.eprop = {}
      BY DEF Graph, EmptyGraph
    <3> QED
      BY <1>3, <3>1, TakeNothing, Zenon
  <2>6. Both(known[cl.from], known[cl.to]) \in Graph(Var)
    BY <2>2, BothType
  <2>7. Both(Both(known[cl.from], known[cl.to]), EmptyGraph) = ctx.must
    BY <1>2, <2>3, <2>4, <2>6, BothNothing
  <2> QED
    BY <1>2, <2>1, <2>5, <2>7 DEF MergeEnds, Pattern
<1>7. LegacyStatements(q.cl, n, 1, known) = <<MergeEdgeInsert(cl, MergeEnds(cl, known))>>
  BY <1>1 DEF LegacyStatements, LegacyMergeRel
<1> QED
  BY <1>5, <1>6, <1>7

\* SET: of every node, where the query matches every node.
LEMMA SetAgrees ==
  ASSUME OneServedEach(Query), NEW q \in Query, ~ Deletes(q), LastOf(q).c = "set",
         NEW known, Recalls(q.cl, Len(q.cl), known), NEW j \in 1 .. Len(LastOf(q).items)
  PROVE  LegacyStatements(q.cl, Len(q.cl), j, known) = <<List(q)[j]>>
<1> DEFINE n == Len(q.cl)
           cl == LastOf(q)
           item == cl.items[j]
           ctx == ContextOf(q.cl, n)
           V == MatchVars(q.cl)
<1>1. /\ OneClause(q) /\ OneServed(q) /\ n \in Nat /\ n > 0 /\ DOMAIN q.cl = 1 .. n /\ cl = q.cl[n]
      /\ LegacyClauseExact(q.cl, n) /\ ClauseExact(q.cl, n)
  <2>1. n \in Nat /\ n > 0 /\ \A i \in 1 .. n : LegacyClauseExact(q.cl, i) /\ ClauseExact(q.cl, i)
    BY ServedFacts
  <2>2. n \in 1 .. n
    BY <2>1
  <2> QED
    BY <2>1, <2>2, ServedFacts
<1>2. /\ DOMAIN known = V /\ Aliases(q.cl) = {}
      /\ UnionOf({known[v] : v \in V}) = ctx.must /\ ctx = Pattern(ctx.must)
  BY Recalled
<1>3. /\ List(q)[j] = SetStatement(item, ctx) /\ j \in DOMAIN cl.items /\ item \in SetItem
  BY <1>1, SetFacts DEF List, LastOf, Items
<1>4. item.i = "label" \/ (item.i = "prop" /\ item.x.e = "lit")
  BY <1>1, <1>3 DEF LegacyClauseExact
<1>5. item.v \in V
  BY <1>1, <1>2, <1>3 DEF ClauseExact, ItemExact
<1>6. \A v, w \in V : v = w
  BY <1>1 DEF OneServed
<1>7. known[item.v] = Sentinel(item.v) /\ item.v \in Var
  <2>1. PICK m \in DOMAIN q.cl : q.cl[m].c = "match" /\ item.v \in Ids(q.cl[m].p)
    BY <1>5 DEF MatchVars
  <2>2. PICK w \in Var : q.cl[m].p = Sentinel(w)
    BY <1>1, <2>1 DEF LegacyClauseExact, Matched
  <2>3. /\ Ids(Sentinel(w)) = {w}
        /\ Sentinel(w) = [node |-> {w}, label |-> {}, prop |-> {}, edge |-> {}, eprop |-> {}]
    BY SentinelFacts
  <2>4. w = item.v
    BY <2>1, <2>2, <2>3
  <2>5. m \in 1 .. n - 1
    <3>1. m # n
      BY <1>1, <2>1
    <3> QED
      BY <1>1, <3>1
  <2>6. known[w] = Mention(Sentinel(w), w)
    BY <2>1, <2>2, <2>4, <2>5 DEF Recalls
  <2>7. {t \in Sentinel(w).label : t[1] = w} = {} /\ {t \in Sentinel(w).prop : t[1] = w} = {}
    BY <2>3
  <2>8. Mention(Sentinel(w), w) = [Sentinel(w) EXCEPT !.label = {}, !.prop = {}]
    BY <2>7 DEF Mention
  <2>9. [Sentinel(w) EXCEPT !.label = {}, !.prop = {}] = Sentinel(w)
    <3>1. Sentinel(w) \in Graph(Var) /\ Sentinel(w).label = {} /\ Sentinel(w).prop = {}
      <4>1. Sentinel(w) \in Graph(Var)
        BY SentinelFacts
      <4>2. Sentinel(w).label = {} /\ Sentinel(w).prop = {}
        BY <2>3
      <4> QED
        BY <4>1, <4>2
    <3> QED
      BY <3>1, TakeNothing, Zenon
  <2> QED
    BY <2>4, <2>6, <2>8, <2>9
<1> HIDE DEF ctx, V, item
<1>8. ctx.must = Sentinel(item.v)
  <2>1. {known[v] : v \in V} = {Sentinel(item.v)}
    BY <1>5, <1>6, <1>7
  <2>2. Sentinel(item.v) \in Graph(Var)
    BY <1>7, SentinelFacts
  <2> QED
    BY <1>2, <2>1, <2>2, UnionOne
<1>9. OrScan(ctx, item.v) = Pattern(Sentinel(item.v))
  <2>1. ctx = Pattern(Sentinel(item.v))
    BY <1>2, <1>8
  <2>2. ctx # NoWhere
    <3>1. Sentinel(item.v).node = {item.v}
      BY <1>7, SentinelFacts
    <3>2. NoWhere.must.node = {}
      BY DEF NoWhere, EmptyGraph
    <3> QED
      BY <1>8, <3>1, <3>2
  <2> QED
    BY <2>1, <2>2 DEF OrScan
<1>10. LegacyStatements(q.cl, n, j, known) = LegacySetItem(item)
  BY <1>1, <1>3 DEF LegacyStatements, item
<1>11. LegacySetItem(item) = <<SetStatement(item, ctx)>>
  <2>1. CASE item.i = "label"
    BY <1>9, <2>1 DEF LegacySetItem, SetStatement, Labelling
  <2>2. CASE item.i = "prop" /\ item.x.e = "lit"
    BY <1>9, <2>2 DEF LegacySetItem, SetStatement, Assignment
  <2> QED
    BY <1>4, <2>1, <2>2
<1> QED
  BY <1>3, <1>10, <1>11 DEF item

\* The generator at work on a query: the clauses that read push nothing, the one
\* that writes the statements of the list, item by item if it is a SET.
Generating ==
  LET n == Len(query.cl) IN
  /\ ~ Deletes(query) /\ ip = 1
  /\ gen.at <= n => /\ Recalls(query.cl, gen.at, gen.known)
                    /\ Len(out) = gen.item - 1 /\ \A k \in 1 .. Len(out) : out[k] = List(query)[k]
                    /\ gen.item > 1 => /\ gen.at = n /\ LastOf(query).c = "set"
                                       /\ gen.item <= Len(LastOf(query).items)
  /\ gen.at > n => out = List(query)

ServeInv ==
  /\ Shown(store, Unlinked(Query))
  /\ pc # "idle" => query \in Query /\ Reached
  /\ pc = "walk" => Deletes(query) /\ ip = 1 /\ WalkShape
  /\ pc = "legacy" => Generating
  /\ pc \in {"run", "failed"} => out = List(query)
  /\ pc = "failed" => ip <= Len(out)
Served == OneServedEach(Query) /\ \A g \in Graphs : Visible(g) = g

\* The maps start as they should.
LEMMA RecallsNothing ==
  ASSUME NEW q
  PROVE  Recalls(q, 1, Nothing)
<1>1. {m \in 1 .. 0 : q[m].c = "match"} = {}
  OBVIOUS
<1> QED
  BY <1>1 DEF Recalls, Nothing

\* A clause that reads pushes nothing and adds what it matches to the maps.
LEMMA ReadTurn ==
  ASSUME OneServedEach(Query), NEW q \in Query, ~ Deletes(q), NEW i \in 1 .. Len(q.cl) - 1,
         NEW known, IsKnown(known), NEW alias, NEW j, Recalls(q.cl, i, known)
  PROVE  /\ LegacyStatements(q.cl, i, j, known) = <<>> /\ LastTurn(q.cl[i], j)
         /\ Recalls(q.cl, i + 1, KnownAfter(q.cl, i, known, alias))
<1> DEFINE n == Len(q.cl)
           cl == q.cl[i]
           next == KnownAfter(q.cl, i, known, alias)
           M(k) == {m \in 1 .. k - 1 : q.cl[m].c = "match"}
<1>1. /\ n \in Nat /\ n > 0 /\ DOMAIN q.cl = 1 .. n /\ OneServed(q) /\ q.cl \in Seq(Clause)
      /\ cl.c \in {"match", "with"}
      /\ \A m \in 1 .. n : LegacyClauseExact(q.cl, m)
      /\ cl.c = "with" => cl.rename = {}
  BY ServedFacts
<1>2. i \in Nat /\ i > 0 /\ i \in 1 .. n /\ cl \in Clause
  BY <1>1
<1>3. known = [v \in DOMAIN known |-> known[v]]
  BY DEF IsKnown
<1>4. LegacyStatements(q.cl, i, j, known) = <<>>
  BY <1>1 DEF LegacyStatements
<1>5. LastTurn(q.cl[i], j)
  BY <1>1 DEF LastTurn
<1>6. DOMAIN known = UNION {Ids(q.cl[m].p) : m \in M(i)}
      /\ \A m \in M(i) : \A v \in Ids(q.cl[m].p) : known[v] = Mention(q.cl[m].p, v)
  BY DEF Recalls
<1>7. CASE cl.c = "match"
  <2> DEFINE P == Ids(cl.p)
             here == [v \in P |-> Mention(cl.p, v)]
  <2>1. \A v \in P : v \notin AnonVar
    BY <1>1, <1>7 DEF OneServed
  <2>2. P \ AnonVar = P
    BY <2>1
  <2>3. next = AfterMatch(known, cl.p)
    BY <1>7 DEF KnownAfter
  <2>4. next = Over(here, known)
    BY <2>2, <2>3 DEF AfterMatch
  <2>5. M(i + 1) = M(i) \cup {i}
    BY <1>2, <1>7
  <2>6. \A m \in M(i) : \A v \in Ids(q.cl[m].p) : v \notin P
    <3>1. \A m \in Matched(q.cl) \ {i} : Ids(cl.p) \cap Ids(q.cl[m].p) = {}
      BY <1>1, <1>2, <1>7 DEF LegacyClauseExact
    <3>2. \A m \in M(i) : m \in Matched(q.cl) \ {i}
      BY <1>1, <1>2 DEF Matched
    <3> QED
      BY <3>1, <3>2
  <2> HIDE DEF M, next, P
  <2>7. DOMAIN next = P \cup DOMAIN known
    BY <2>4 DEF Over
  <2>8. \A v \in P : next[v] = Mention(cl.p, v)
    BY <2>4, <2>7 DEF Over
  <2>9. \A v \in DOMAIN known : v \notin P => next[v] = known[v]
    BY <2>4, <2>7 DEF Over
  <2>10. UNION {Ids(q.cl[m].p) : m \in M(i) \cup {i}} = P \cup UNION {Ids(q.cl[m].p) : m \in M(i)}
    BY DEF P
  <2>11. DOMAIN next = UNION {Ids(q.cl[m].p) : m \in M(i + 1)}
    BY <1>6, <2>5, <2>7, <2>10
  <2>12. \A m \in M(i + 1) : \A v \in Ids(q.cl[m].p) : next[v] = Mention(q.cl[m].p, v)
    BY <1>6, <2>5, <2>6, <2>8, <2>9 DEF P
  <2>13. M(i + 1) = {m \in 1 .. (i + 1) - 1 : q.cl[m].c = "match"}
    BY DEF M
  <2> QED
    BY <1>4, <1>5, <2>11, <2>12, <2>13 DEF Recalls, next
<1>8. CASE cl.c = "with"
  <2>1. next = AfterWith({}, known, alias)
    BY <1>1, <1>8 DEF KnownAfter
  <2>2. DOMAIN Aliased({}, known, alias) = {}
    BY DEF Aliased
  <2>3. next = known
    BY <1>3, <2>1, <2>2 DEF AfterWith, Over
  <2>4. M(i + 1) = M(i)
    BY <1>2, <1>8
  <2>5. Recalls(q.cl, i + 1, known)
    BY <1>6, <2>4 DEF Recalls
  <2> QED
    BY <1>4, <1>5, <2>3, <2>5
<1> QED
  BY <1>1, <1>7, <1>8

\* While a query is served, there is a clause that writes.
LEMMA ServedNow ==
  ASSUME Served, ApiInv, ServeInv, pc # "idle"
  PROVE  /\ query \in Query /\ Fits(query) /\ OneClause(query) /\ Reached
         /\ LastOf(query).c # "call" /\ LastOf(query) = query.cl[Len(query.cl)]
         /\ Len(query.cl) \in Nat /\ Len(query.cl) > 0
         /\ Shown(store, Unlinked(Query))
         /\ store \in Graph(Node) /\ base \in Graph(Node)
         /\ ip \in 1 .. Len(out) + 1 /\ Len(out) \in Nat /\ out \in Seq(Statement)
<1>1. query \in Query /\ Reached /\ Shown(store, Unlinked(Query))
  BY DEF ServeInv
<1>2. /\ Fits(query) /\ OneClause(query) /\ LastOf(query).c # "call" /\ LastOf(query) = query.cl[Len(query.cl)]
      /\ Len(query.cl) \in Nat /\ Len(query.cl) > 0
  BY <1>1, ServedFacts DEF Served
<1>3. store \in Graph(Node) /\ base \in Graph(Node) /\ ip \in 1 .. Len(out) + 1 /\ out \in Seq(Statement)
  BY DEF ApiInv, CallTyped
<1> QED
  BY <1>1, <1>2, <1>3

\* A call starts the walk of a query that deletes, and else the generator.
LEMMA CallServes ==
  ASSUME Served, NEW q \in Query, query' = q, Call(q), Reached', Shown(store', Unlinked(Query))
  PROVE  ServeInv'
<1>1. CASE Deletes(q)
  <2>1. ~ q.ret /\ TriesLqa(q)
    BY <1>1, ServedFacts DEF Served
  <2>2. /\ pc' = "walk" /\ at' = Len(q.cl) /\ waiting' = <<>> /\ out' = <<>> /\ bmap' = NoNodes /\ ip' = 1
    BY <1>1, <2>1 DEF Call, Compile
  <2>3. WalkShape'
    BY <2>2 DEF WalkShape
  <2> QED
    BY <1>1, <2>2, <2>3 DEF ServeInv
<1>2. CASE ~ Deletes(q)
  <2>1. pc' = "legacy" /\ gen' = NoGen /\ out' = <<>> /\ ip' = 1
    BY <1>2 DEF Call, TriesLqa, StartLegacy
  <2>2. gen'.at = 1 /\ gen'.item = 1 /\ gen'.known = Nothing
    BY <2>1, NoGenFacts
  <2>3. Len(q.cl) \in Nat /\ Len(q.cl) > 0
    BY ServedFacts DEF Served
  <2>4. Recalls(q.cl, 1, Nothing)
    BY RecallsNothing
  <2>5. Len(out') = 0
    BY <2>1
  <2>6. Generating'
    BY <1>2, <2>1, <2>2, <2>3, <2>4, <2>5 DEF Generating
  <2> QED
    BY <2>1, <2>6 DEF ServeInv
<1> QED
  BY <1>1, <1>2

\* A step that neither runs a statement nor changes the query is no nearer to
\* the outcome, and no further from it.
LEMMA SameReached ==
  ASSUME UNCHANGED <<store, query, base, ip>>
  PROVE  Reached' <=> Reached
  BY DEF Reached

\* The walk of a query that deletes ends with its list.
LEMMA WalkServes ==
  ASSUME Served, ApiInv, ServeInv, Walk
  PROVE  ServeInv'
<1>1. pc = "walk" /\ pc' \in {"walk", "run"} /\ UNCHANGED <<store, query, base, ip>>
  BY DEF Walk, VisitCreate, VisitWrite, VisitRead, Emit, Compiled
<1>2. /\ query \in Query /\ OneClause(query) /\ Reached /\ Shown(store, Unlinked(Query))
      /\ LastOf(query) = query.cl[Len(query.cl)]
  BY <1>1, ServedNow
<1>3. Deletes(query) /\ ip = 1 /\ WalkShape
  BY <1>1 DEF ServeInv
<1>4. LastOf(query).c = "delete"
  BY <1>2, <1>3, ServedFacts DEF Served
<1>5. Reached'
  BY <1>1, <1>2, SameReached
<1>6. ~ VisitCreate
  <2> SUFFICES ASSUME VisitCreate PROVE FALSE
    OBVIOUS
  <2>1. at > 0 /\ query.cl[at].c = "create"
    BY DEF VisitCreate
  <2>2. at = Len(query.cl)
    BY <1>3, <2>1 DEF WalkShape
  <2> QED
    BY <1>2, <1>4, <2>1, <2>2
<1>7. CASE VisitWrite
  <2>1. WalkShape' /\ pc' = "walk"
    BY <1>1, <1>2, <1>3, <1>7, VisitShape DEF VisitWrite
  <2> QED
    BY <1>1, <1>2, <1>3, <1>5, <2>1 DEF ServeInv
<1>8. ~ VisitRead
  BY <1>2, <1>3, ReadShape
<1>9. CASE Emit
  <2>1. WalkShape' /\ pc' = "walk"
    BY <1>1, <1>2, <1>3, <1>9, EmitShape DEF Emit
  <2> QED
    BY <1>1, <1>2, <1>3, <1>5, <2>1 DEF ServeInv
<1>10. CASE Compiled
  <2>1. out = List(query) /\ pc' = "run" /\ out' = out
    BY <1>2, <1>3, <1>10, DoneShape DEF Compiled, compile
  <2> QED
    BY <1>1, <1>2, <1>5, <2>1 DEF ServeInv
<1> QED
  BY <1>6, <1>7, <1>8, <1>9, <1>10 DEF Walk

\* The statements of a SET are one for each item.
LEMMA SetListed ==
  ASSUME NEW q \in Query, OneClause(q), LastOf(q).c = "set"
  PROVE  /\ Len(LastOf(q).items) \in Nat /\ DOMAIN LastOf(q).items = 1 .. Len(LastOf(q).items)
         /\ List(q) = [j \in 1 .. Len(LastOf(q).items) |-> List(q)[j]]
<1> DEFINE n == Len(q.cl)
<1>1. LastOf(q) = q.cl[n] /\ Items(q) = LastOf(q).items
  BY DEF LastOf, Items
<1>2. Len(LastOf(q).items) \in Nat /\ DOMAIN LastOf(q).items = 1 .. Len(LastOf(q).items)
  BY <1>1, SetFacts
<1>3. List(q) = CompileSetItems(LastOf(q).items, ContextOf(q.cl, n))
  BY <1>1 DEF List, OwnStatements
<1>4. \A F : F = [j \in 1 .. Len(LastOf(q).items) |-> SetStatement(LastOf(q).items[j], ContextOf(q.cl, n))]
         => F = [j \in 1 .. Len(LastOf(q).items) |-> F[j]]
  OBVIOUS
<1> QED
  BY <1>2, <1>3, <1>4 DEF CompileSetItems, Each

\* A turn of the generator at the clause that writes, which is not a SET.
LEMMA WholeTurn ==
  ASSUME OneServedEach(Query), NEW q \in Query, ~ Deletes(q), LastOf(q).c # "set",
         NEW known, IsKnown(known), Recalls(q.cl, Len(q.cl), known)
  PROVE  LegacyStatements(q.cl, Len(q.cl), 1, known) = List(q) /\ LastTurn(LastOf(q), 1)
<1>1. LastOf(q).c \in {"create", "set", "mergeNode", "mergeRel"}
  BY ServedFacts
<1>2. CASE LastOf(q).c = "create"
  BY <1>2, CreateAgrees DEF LastTurn
<1>3. CASE LastOf(q).c = "mergeNode"
  <2>1. LegacyStatements(q.cl, Len(q.cl), 1, known) = List(q) /\ LastOf(q).onMatch = <<>>
    BY <1>3, MergeNodeAgrees
  <2>2. Len(LastOf(q).onMatch) = 0
    BY <2>1
  <2> QED
    BY <1>3, <2>1, <2>2 DEF LastTurn
<1>4. CASE LastOf(q).c = "mergeRel"
  BY <1>4, MergeRelAgrees DEF LastTurn
<1> QED
  BY <1>1, <1>2, <1>3, <1>4

\* The last element of a sequence is the one appended.
LEMMA LastPushed ==
  ASSUME NEW T, NEW s \in Seq(T), NEW x
  PROVE  (s \o <<x>>)[Len(s) + 1] = x
<1>1. <<x>> \in Seq({x}) /\ Len(<<x>>) = 1 /\ <<x>>[1] = x
  OBVIOUS
<1>2. s \in Seq(T \cup {x}) /\ <<x>> \in Seq(T \cup {x})
  BY <1>1
<1> QED
  BY <1>1, <1>2

\* A turn of the generator keeps to the list.
LEMMA GenerateServes ==
  ASSUME Served, ApiInv, ServeInv, Generate
  PROVE  ServeInv'
<1> DEFINE n == Len(query.cl)
           i == gen.at
           j == gen.item
           list == LegacyStatements(query.cl, i, j, gen.known)
<1>1. /\ pc = "legacy" /\ i <= n /\ out' = out \o list
      /\ gen' = IF LastTurn(query.cl[i], j)
                THEN [at |-> i + 1, item |-> 1, known |-> KnownAfter(query.cl, i, gen.known, gen.alias),
                      alias |-> AliasAfter(query.cl, i, gen.alias)]
                ELSE [gen EXCEPT !.item = j + 1]
      /\ UNCHANGED <<store, query, base, pc, ip>>
  BY DEF Generate
<1>2. /\ query \in Query /\ Fits(query) /\ OneClause(query) /\ Reached /\ Shown(store, Unlinked(Query))
      /\ LastOf(query) = query.cl[n] /\ n \in Nat /\ n > 0 /\ out \in Seq(Statement) /\ Len(out) \in Nat
  BY <1>1, ServedNow
<1>3. Generating
  BY <1>1 DEF ServeInv
<1>4. /\ ~ Deletes(query) /\ ip = 1 /\ Recalls(query.cl, i, gen.known)
      /\ Len(out) = j - 1 /\ \A k \in 1 .. Len(out) : out[k] = List(query)[k]
      /\ j > 1 => i = n /\ LastOf(query).c = "set" /\ j <= Len(LastOf(query).items)
  BY <1>1, <1>3 DEF Generating
<1>5. i \in Nat /\ i > 0 /\ j \in Nat /\ j > 0 /\ IsKnown(gen.known)
  BY <1>2 DEF ApiInv, GenTyped
<1>6. Reached' /\ OneServedEach(Query)
  BY <1>1, <1>2, SameReached DEF Served
<1> SUFFICES Generating'
  BY <1>1, <1>2, <1>6 DEF ServeInv
<1>7. list \in Seq(Statement)
  <2>1. query.cl \in Seq(Clause) /\ (\A m \in DOMAIN query.cl : Lowered(query.cl, m)) /\ i \in DOMAIN query.cl
    <3>1. query.cl \in Seq(Clause) /\ \A m \in DOMAIN query.cl : Lowered(query.cl, m)
      BY <1>2, QueryAssumption
    <3> QED
      BY <1>1, <1>5, <3>1
  <2>2. Pushes(list)
    BY <1>5, <2>1, LegacyFacts
  <2> HIDE DEF list
  <2> QED
    BY <2>2 DEF Pushes, Runnable
<1>8. CASE i < n
  <2>1. i \in 1 .. n - 1 /\ j = 1
    BY <1>2, <1>4, <1>5, <1>8
  <2>2. list = <<>> /\ LastTurn(query.cl[i], j) /\ Recalls(query.cl, i + 1, KnownAfter(query.cl, i, gen.known, gen.alias))
    BY <1>2, <1>4, <1>5, <1>6, <2>1, ReadTurn
  <2>3. gen'.at = i + 1 /\ gen'.item = 1 /\ gen'.known = KnownAfter(query.cl, i, gen.known, gen.alias)
    BY <1>1, <2>2
  <2> HIDE DEF list
  <2>4. out' = out
    BY <1>1, <1>2, <2>2
  <2>5. Len(out') = 0
    BY <1>4, <2>1, <2>4
  <2> QED
    BY <1>1, <1>2, <1>4, <1>5, <1>8, <2>2, <2>3, <2>5 DEF Generating
<1>9. CASE i = n /\ LastOf(query).c # "set"
  <2>1. j = 1
    BY <1>4, <1>5, <1>9
  <2>2. list = List(query) /\ LastTurn(query.cl[i], j)
    BY <1>2, <1>4, <1>5, <1>6, <1>9, <2>1, WholeTurn
  <2>3. gen'.at = n + 1
    BY <1>1, <1>9, <2>2
  <2> HIDE DEF list
  <2>4. out = <<>>
    BY <1>2, <1>4, <2>1
  <2>5. out' = List(query)
    BY <1>1, <1>7, <2>2, <2>4
  <2> QED
    BY <1>1, <1>2, <1>4, <2>3, <2>5 DEF Generating
<1>10. CASE i = n /\ LastOf(query).c = "set"
  <2> DEFINE items == LastOf(query).items
             L == Len(items)
  <2>1. L \in Nat /\ List(query) = [k \in 1 .. L |-> List(query)[k]]
    BY <1>2, <1>10, SetListed
  <2>2. LastTurn(query.cl[i], j) <=> j >= L
    BY <1>2, <1>10 DEF LastTurn
  <2>3. CASE L = 0
    <3>1. j = 1
      BY <1>4, <1>5, <2>3
    <3>2. list = <<>>
      BY <1>2, <1>10, <2>3, <3>1 DEF LegacyStatements
    <3>3. gen'.at = n + 1
      BY <1>1, <1>10, <2>2, <2>3, <3>1
    <3> HIDE DEF list, L
    <3>4. out' = <<>> /\ List(query) = <<>>
      BY <1>1, <1>2, <1>4, <2>1, <2>3, <3>1, <3>2
    <3> QED
      BY <1>1, <1>2, <1>4, <3>3, <3>4 DEF Generating
  <2>4. CASE L # 0
    <3>1. j \in 1 .. L
      BY <1>4, <1>5, <2>1, <2>4
    <3>2. list = <<List(query)[j]>>
      BY <1>2, <1>4, <1>6, <1>10, <3>1, SetAgrees
    <3> HIDE DEF list, L
    <3>3. Len(out') = j /\ out' \in Seq(Statement)
      BY <1>1, <1>2, <1>4, <1>7, <3>1, <3>2
    <3>4. \A k \in 1 .. Len(out') : out'[k] = List(query)[k]
      <4>1. ASSUME NEW k \in 1 .. j PROVE out'[k] = List(query)[k]
        <5>1. CASE k <= Len(out)
          <6>1. out'[k] = out[k] /\ k \in 1 .. Len(out)
            BY <1>1, <1>2, <1>7, <4>1, <5>1
          <6> QED
            BY <1>4, <6>1
        <5>2. CASE k = j
          <6>1. j = Len(out) + 1 /\ out' = out \o <<List(query)[j]>>
            BY <1>1, <1>2, <1>4, <1>5, <3>2
          <6> QED
            BY <1>2, <5>2, <6>1, LastPushed
        <5> QED
          BY <1>4, <1>5, <4>1, <5>1, <5>2
      <4> QED
        BY <3>3, <4>1
    <3>5. CASE j >= L
      <4>1. gen'.at = n + 1
        BY <1>1, <1>10, <2>2, <3>5
      <4>2. Len(out') = L /\ j = L
        BY <2>1, <3>1, <3>3, <3>5
      <4>3. out' = [k \in 1 .. L |-> out'[k]]
        BY <3>3, <4>2
      <4>4. out' = List(query)
        BY <2>1, <3>4, <4>2, <4>3
      <4> QED
        BY <1>1, <1>2, <1>4, <4>1, <4>4 DEF Generating
    <3>6. CASE j < L
      <4>1. gen' = [gen EXCEPT !.item = j + 1]
        BY <1>1, <2>1, <2>2, <3>1, <3>6
      <4>2. gen = [at |-> i, item |-> j, known |-> gen.known, alias |-> gen.alias]
        BY DEF ApiInv, GenTyped
      <4>3. gen' = [at |-> i, item |-> j + 1, known |-> gen.known, alias |-> gen.alias]
        BY <4>1, <4>2
      <4>4. gen'.at = i /\ gen'.item = j + 1 /\ gen'.known = gen.known
        BY <4>3
      <4>5. j + 1 <= L /\ j + 1 > 1 /\ Len(out') = (j + 1) - 1
        BY <1>5, <2>1, <3>3, <3>6
      <4> QED
        BY <1>1, <1>2, <1>4, <1>10, <3>4, <4>4, <4>5 DEF Generating, L
    <3> QED
      BY <1>5, <2>1, <3>5, <3>6
  <2> QED
    BY <2>3, <2>4
<1> QED
  BY <1>1, <1>2, <1>5, <1>8, <1>9, <1>10

\* A statement run brings the store nearer to the outcome.
LEMMA ExecuteServes ==
  ASSUME Served, ApiInv, ServeInv, Execute
  PROVE  ServeInv'
<1>1. pc = "run" /\ ip <= Len(out) /\ ip' = ip + 1 /\ UNCHANGED <<query, base, pc, out>>
  BY DEF Execute, compile
<1>2. PICK alloc \in Allocations(out[ip], store) : store' = Apply(out[ip], store, alloc)
  BY DEF Execute
<1>3. /\ query \in Query /\ Fits(query) /\ Reached /\ LastOf(query).c # "call" /\ Shown(store, Unlinked(Query))
      /\ store \in Graph(Node) /\ base \in Graph(Node) /\ ip \in 1 .. Len(out) + 1 /\ Len(out) \in Nat
  BY <1>1, ServedNow
<1>4. out = List(query)
  BY <1>1 DEF ServeInv
<1>5. ip \in 1 .. Len(List(query)) /\ Len(List(query)) \in Nat
  BY <1>1, <1>3, <1>4
<1>6. alloc \in Allocations(List(query)[ip], store) /\ store' = Apply(List(query)[ip], store, alloc)
  BY <1>2, <1>4
<1>7. Reached' /\ Shown(store', Unlinked(Query))
  BY <1>1, <1>3, <1>5, <1>6, StatementReaches
<1> QED
  BY <1>1, <1>3, <1>4, <1>7 DEF ServeInv

\* A new query is served on the store as it is.
LEMMA RequestServes ==
  ASSUME Served, ApiInv, ServeInv, Request
  PROVE  ServeInv'
<1>1. PICK q \in Query : query' = q /\ Call(q)
  BY DEF Request
<1>2. base' = store /\ store' = store /\ store \in Graph(Node) /\ Shown(store, Unlinked(Query))
  BY DEF Request, ApiInv, CallTyped, ServeInv
<1>3. Fits(q)
  BY ServedFacts DEF Served
<1>4. ip' = 1
  BY <1>1 DEF Call, Compile, StartLegacy
<1>5. Reached'
  BY <1>1, <1>2, <1>3, <1>4, StartReached
<1> QED
  BY <1>1, <1>2, <1>5, CallServes

\* One that failed is served again, on the store its statements have left.
LEMMA RequestAgainServes ==
  ASSUME Served, ApiInv, ServeInv, RequestAgain
  PROVE  ServeInv'
<1>1. pc = "failed" /\ Call(query) /\ UNCHANGED <<store, query, base>>
  BY DEF RequestAgain
<1>2. /\ query \in Query /\ Fits(query) /\ Reached /\ Shown(store, Unlinked(Query))
      /\ base \in Graph(Node) /\ ip \in 1 .. Len(out) + 1 /\ Len(out) \in Nat
  BY <1>1, ServedNow
<1>3. out = List(query) /\ ip <= Len(out)
  BY <1>1 DEF ServeInv
<1>4. ip' = 1
  BY <1>1 DEF Call, Compile, StartLegacy
<1>5. ip \in Nat
  BY <1>2
<1>6. Reached'
  BY <1>1, <1>2, <1>3, <1>4, <1>5, AgainReached
<1> QED
  BY <1>1, <1>2, <1>6, CallServes

\* A caller starts with nothing hidden and no query.
LEMMA InitServes == Served /\ ApiInit => ServeInv
<1> SUFFICES ASSUME Served, ApiInit PROVE ServeInv
  OBVIOUS
<1>1. store \in Graph(Node) /\ Visible(store) = store
  BY QueryAssumption DEF ApiInit, Init, Served
<1>2. Shown(store, Unlinked(Query))
  <2>1. store.eprop = {t \in store.eprop : <<t[1], t[2], t[3]>> \in store.edge}
    BY <1>1, VisibleFields
  <2> QED
    BY <2>1 DEF Shown
<1> QED
  BY <1>2 DEF ApiInit, Init, ServeInv

\* No step breaks it; the LQA compiler refuses none of these queries.
LEMMA NextServes == Served /\ ApiInv /\ ServeInv /\ [ApiNext]_apiVars => ServeInv'
<1> SUFFICES ASSUME Served, ApiInv, ServeInv, [ApiNext]_apiVars PROVE ServeInv'
  OBVIOUS
<1>1. CASE Request
  BY <1>1, RequestServes
<1>2. CASE Walk
  BY <1>2, WalkServes
<1>3. CASE FallBack
  <2>1. pc = "walk" /\ Refused
    BY <1>3 DEF FallBack, Refused
  <2>2. query \in Query /\ OneClause(query)
    BY <2>1, ServedNow
  <2>3. Deletes(query) /\ WalkShape
    BY <2>1 DEF ServeInv
  <2>4. Compilable(query)
    BY <2>2, <2>3, ServedFacts DEF Served
  <2> QED
    BY <2>1, <2>2, <2>3, <2>4, RefusedShape
<1>4. CASE Generate
  BY <1>4, GenerateServes
<1>5. CASE Generated
  <2>1. pc = "legacy" /\ pc' = "run" /\ gen.at > Len(query.cl) /\ UNCHANGED <<store, query, base, out, ip>>
    BY <1>5 DEF Generated, compile
  <2>2. query \in Query /\ Reached /\ Shown(store, Unlinked(Query))
    BY <2>1 DEF ServeInv
  <2>3. out = List(query)
    BY <2>1 DEF ServeInv, Generating
  <2> QED
    BY <2>1, <2>2, <2>3, SameReached DEF ServeInv
<1>6. CASE RequestAgain
  BY <1>6, RequestAgainServes
<1>7. CASE Execute /\ UNCHANGED gen
  BY <1>7, ExecuteServes
<1>8. CASE (Finish \/ GiveUp) /\ UNCHANGED gen
  <2>1. pc' = "idle" /\ store' = store
    BY <1>8 DEF Finish, GiveUp
  <2> QED
    BY <2>1 DEF ServeInv
<1>9. CASE Fail /\ UNCHANGED gen
  <2>1. pc = "run" /\ pc' = "failed" /\ ip <= Len(out) /\ UNCHANGED <<store, query, base, out, ip>>
    BY <1>9 DEF Fail, compile
  <2> QED
    BY <2>1, SameReached DEF ServeInv
<1>10. CASE UNCHANGED apiVars
  <2>1. UNCHANGED <<store, query, base, pc, at, waiting, out, bmap, ip, gen>>
    BY <1>10 DEF apiVars, vars, compile
  <2>2. (Generating' <=> Generating) /\ (WalkShape' <=> WalkShape)
    BY <2>1 DEF Generating, WalkShape
  <2> QED
    BY <2>1, <2>2, SameReached DEF ServeInv
<1> QED
  BY <1>1, <1>2, <1>3, <1>4, <1>5, <1>6, <1>7, <1>8, <1>9, <1>10 DEF ApiNext, ApiServe

\* A list of cypher_to_sparql_update that has run to its end has left an outcome
\* of its query, from either generator, whatever the store, the failures and the
\* calls again in between: for queries of one write clause (OneServed).
THEOREM ApiExactOutcome ==
  OneServedEach(Query) /\ (\A g \in Graphs : Visible(g) = g) => (ApiSpec => []ExactOutcome)
<1> SUFFICES ASSUME Served PROVE ApiSpec => []ExactOutcome
  BY DEF Served
<1>1. ApiInv /\ ServeInv => ExactOutcome
  <2> SUFFICES ASSUME ApiInv, ServeInv, Ran PROVE Visible(store) \in Outcomes(query, Visible(base))
    BY DEF ExactOutcome
  <2>1. pc = "run" /\ ip = Len(out) + 1
    BY DEF Ran
  <2>2. out = List(query)
    BY <2>1 DEF ServeInv
  <2>3. Fits(query) /\ LastOf(query).c # "call" /\ base \in Graph(Node) /\ Reached
    BY <2>1, ServedNow
  <2> QED
    BY <2>1, <2>2, <2>3, AllReached
<1>2. ApiInit => ApiInv /\ ServeInv
  BY ApiInitType, InitServes
<1>3. ApiInv /\ ServeInv /\ [ApiNext]_apiVars => ApiInv' /\ ServeInv'
  BY ApiNextType, NextServes
<1> QED
  BY <1>1, <1>2, <1>3, PTL DEF ApiSpec
=============================================================================
