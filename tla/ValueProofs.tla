---------------------------- MODULE ValueProofs -----------------------------
(***************************************************************************)
(* One value per property, for every set of queries whose values agree and *)
(* every number of queries and failures: after each statement a node or a  *)
(* relationship has one value of each key, and the value is the one the    *)
(* queries give it, if they give it one.                                   *)
(***************************************************************************)
EXTENDS GivenValues, WriteProofs

-----------------------------------------------------------------------------
(* The property triples of a store. *)

\* One value for each subject and key, in the two kinds of triple.
LEMMA SingleFacts ==
  ASSUME NEW st \in Graph(Node), OnePer(Facts(st))
  PROVE  /\ \A t, u \in st.prop : t[1] = u[1] /\ t[2] = u[2] => t = u
         /\ \A t, u \in st.eprop : <<t[1], t[2], t[3], t[4]>> = <<u[1], u[2], u[3], u[4]>> => t = u
<1>1. st.prop \subseteq Node \X Key \X Val /\ st.eprop \subseteq Node \X Rel \X Node \X Key \X Val
  BY GraphFields
<1>2. ASSUME NEW t \in st.prop, NEW u \in st.prop, t[1] = u[1], t[2] = u[2] PROVE t = u
  <2>1. << <<t[1]>>, t[2], t[3] >> \in Facts(st) /\ << <<u[1]>>, u[2], u[3] >> \in Facts(st)
    BY DEF Facts
  <2>2. t[3] = u[3]
    BY <1>2, <2>1 DEF OnePer
  <2> QED BY <1>1, <1>2, <2>2
<1>3. ASSUME NEW t \in st.eprop, NEW u \in st.eprop, <<t[1], t[2], t[3], t[4]>> = <<u[1], u[2], u[3], u[4]>>
      PROVE  t = u
  <2>1. << <<t[1], t[2], t[3]>>, t[4], t[5] >> \in Facts(st) /\ << <<u[1], u[2], u[3]>>, u[4], u[5] >> \in Facts(st)
    BY DEF Facts
  <2>2. t[1] = u[1] /\ t[2] = u[2] /\ t[3] = u[3] /\ t[4] = u[4]
    BY <1>3
  <2>3. t[5] = u[5]
    BY <2>1, <2>2 DEF OnePer
  <2> QED BY <1>1, <2>2, <2>3
<1> QED BY <1>2, <1>3

\* A fact has a subject of one kind or the other.
LEMMA FactKinds ==
  ASSUME NEW f \in FactsOf(Node)
  PROVE  \/ \E n \in Node : f[1] = <<n>> /\ Len(f[1]) = 1
         \/ \E a, b \in Node : \E r \in Rel : f[1] = <<a, r, b>> /\ Len(f[1]) = 3
<1>1. f[1] \in {<<n>> : n \in Node} \cup (Node \X Rel \X Node)
  BY DEF FactsOf, SubjectsOf
<1>2. CASE f[1] \in {<<n>> : n \in Node}
  BY <1>2
<1>3. CASE f[1] \in Node \X Rel \X Node
  <2>1. PICK a \in Node, r \in Rel, b \in Node : f[1] = <<a, r, b>>
    BY <1>3
  <2> QED BY <2>1
<1> QED BY <1>1, <1>2, <1>3

\* The property triples of the graph made of some facts are those facts.
LEMMA FactGraphFacts ==
  ASSUME NEW F, F \subseteq FactsOf(Node)
  PROVE  Facts(FactGraph(F)) \subseteq F
<1> SUFFICES ASSUME NEW f \in Facts(FactGraph(F)) PROVE f \in F
  OBVIOUS
<1>1. /\ FactGraph(F).prop = {<<g[1][1], g[2], g[3]>> : g \in {h \in F : Len(h[1]) = 1}}
      /\ FactGraph(F).eprop = {<<g[1][1], g[1][2], g[1][3], g[2], g[3]>> : g \in {h \in F : Len(h[1]) = 3}}
  BY DEF FactGraph, EmptyGraph
<1>2. CASE \E t \in FactGraph(F).prop : f = << <<t[1]>>, t[2], t[3] >>
  <2>1. PICK g \in F : Len(g[1]) = 1 /\ f = << <<g[1][1]>>, g[2], g[3] >>
    BY <1>1, <1>2
  <2>2. g \in FactsOf(Node)
    OBVIOUS
  <2>3. g[1] = <<g[1][1]>>
    BY <2>1, <2>2, FactKinds
  <2>4. g = <<g[1], g[2], g[3]>>
    BY <2>2 DEF FactsOf
  <2> QED BY <2>1, <2>3, <2>4
<1>3. CASE \E t \in FactGraph(F).eprop : f = << <<t[1], t[2], t[3]>>, t[4], t[5] >>
  <2>1. PICK g \in F : Len(g[1]) = 3 /\ f = << <<g[1][1], g[1][2], g[1][3]>>, g[2], g[3] >>
    BY <1>1, <1>3
  <2>2. g \in FactsOf(Node)
    OBVIOUS
  <2>3. g[1] = <<g[1][1], g[1][2], g[1][3]>>
    BY <2>1, <2>2, FactKinds
  <2>4. g = <<g[1], g[2], g[3]>>
    BY <2>2 DEF FactsOf
  <2> QED BY <2>1, <2>3, <2>4
<1> QED BY <1>2, <1>3 DEF Facts

\* What is deleted is gone, and what is there was there or is inserted.
LEMMA PatchFacts ==
  ASSUME NEW st \in Graph(Node), NEW ins, NEW del
  PROVE  /\ Facts(Patch(st, del, ins)) \subseteq Facts(st) \cup Facts(ins)
         /\ \A D \in SUBSET Facts(st) :
              del.prop = FactGraph(D).prop /\ del.eprop = FactGraph(D).eprop
                => Facts(Patch(st, del, ins)) \subseteq (Facts(st) \ D) \cup Facts(ins)
<1> DEFINE new == Patch(st, del, ins)
<1>1. new.prop = (st.prop \ del.prop) \cup ins.prop /\ new.eprop = (st.eprop \ del.eprop) \cup ins.eprop
  BY DEF Patch
<1>2. st.prop \subseteq Node \X Key \X Val /\ st.eprop \subseteq Node \X Rel \X Node \X Key \X Val
  BY GraphFields
<1>3. ASSUME NEW f \in Facts(new)
      PROVE  \/ f \in Facts(ins)
             \/ \E t \in st.prop \ del.prop : f = << <<t[1]>>, t[2], t[3] >>
             \/ \E t \in st.eprop \ del.eprop : f = << <<t[1], t[2], t[3]>>, t[4], t[5] >>
  <2> HIDE DEF new
  <2> QED BY <1>1 DEF Facts
<1>4. Facts(new) \subseteq Facts(st) \cup Facts(ins)
  BY <1>3 DEF Facts
<1>5. ASSUME NEW D \in SUBSET Facts(st), del.prop = FactGraph(D).prop, del.eprop = FactGraph(D).eprop,
             NEW f \in Facts(new), f \notin Facts(ins)
      PROVE  f \in Facts(st) \ D
  <2>1. f \in Facts(st)
    BY <1>4, <1>5
  <2>2. /\ del.prop = {<<g[1][1], g[2], g[3]>> : g \in {h \in D : Len(h[1]) = 1}}
        /\ del.eprop = {<<g[1][1], g[1][2], g[1][3], g[2], g[3]>> : g \in {h \in D : Len(h[1]) = 3}}
    BY <1>5 DEF FactGraph, EmptyGraph
  <2>3. ASSUME f \in D PROVE FALSE
    <3>1. CASE \E t \in st.prop \ del.prop : f = << <<t[1]>>, t[2], t[3] >>
      <4>1. PICK t \in st.prop : t \notin del.prop /\ f = << <<t[1]>>, t[2], t[3] >>
        BY <3>1
      <4>2. Len(f[1]) = 1 /\ <<f[1][1], f[2], f[3]>> = t
        BY <1>2, <4>1
      <4> QED BY <2>2, <2>3, <4>1, <4>2
    <3>2. CASE \E t \in st.eprop \ del.eprop : f = << <<t[1], t[2], t[3]>>, t[4], t[5] >>
      <4>1. PICK t \in st.eprop : t \notin del.eprop /\ f = << <<t[1], t[2], t[3]>>, t[4], t[5] >>
        BY <3>2
      <4>2. Len(f[1]) = 3 /\ <<f[1][1], f[1][2], f[1][3], f[2], f[3]>> = t
        BY <1>2, <4>1
      <4> QED BY <2>2, <2>3, <4>1, <4>2
    <3> QED BY <1>3, <1>5, <3>1, <3>2
  <2> QED BY <2>1, <2>3
<1> QED BY <1>4, <1>5

\* Two sets with one value for each subject and key, and with the same where
\* they meet, have one together.
LEMMA Together ==
  ASSUME NEW K, NEW N, OnePer(K), OnePer(N),
         \A t \in K, u \in N : t[1] = u[1] /\ t[2] = u[2] => t[3] = u[3],
         NEW F, F \subseteq K \cup N
  PROVE  OnePer(F)
  BY DEF OnePer

-----------------------------------------------------------------------------
(* What a statement does to the values. *)

\* What a store is after every statement: one value each, and as given.
Consistent(st) == OnePer(Facts(st)) /\ \A f \in Facts(st) : Agrees(f)

\* What a statement must be like to leave it so.
OneEach(s) ==
  /\ s.s = "insert" =>
       /\ OnePer(s.tmpl.prop)
       /\ \A t \in s.tmpl.prop : t[1] \notin s.fresh =>
            t[1] \in {i[1] : i \in s.iri} /\ <<IriOf(s, t[1]), t[2], t[3]>> \in NodeValues
       /\ \A t \in s.tmpl.eprop : <<t[2], t[4], t[5]>> \in RelValues
  /\ s.s = "upsert" =>
       /\ s.x.e = "lit" => Free(s.k, s.x.x)
       /\ s.x.e = "prop" => s.x.v = s.v /\ Untouched(s.k)
  /\ s.s = "upsertEdge" => Free(s.k, s.x.x)
  /\ s.s = "replace" => /\ \A t, u \in s.map : t[1] = u[1] => t[2] = u[2]
                        /\ \A t \in s.map : Free(t[1], t[2])

\* A free value agrees with what the queries give.
LEMMA FreeAgrees ==
  ASSUME NEW f, Free(f[2], f[3]) \/ Untouched(f[2])
  PROVE  Agrees(f)
  BY DEF Free, Untouched, Agrees

\* Facts D are replaced by facts F with one value each, and no others are met.
LEMMA Replaced ==
  ASSUME NEW st \in Graph(Node), Consistent(st), NEW D \in SUBSET Facts(st),
         NEW F, F \subseteq FactsOf(Node), OnePer(F), \A f \in F : Agrees(f),
         \A t \in Facts(st) \ D, u \in F : t[1] = u[1] /\ t[2] = u[2] => t[3] = u[3],
         NEW del, del.prop = FactGraph(D).prop, del.eprop = FactGraph(D).eprop
  PROVE  Consistent(Patch(st, del, FactGraph(F)))
<1> DEFINE new == Facts(Patch(st, del, FactGraph(F)))
           kept == Facts(st) \ D
<1>1. new \subseteq kept \cup Facts(FactGraph(F))
  BY PatchFacts
<1>2. new \subseteq kept \cup F
  BY <1>1, FactGraphFacts
<1>3. OnePer(kept) /\ \A f \in kept : Agrees(f)
  BY DEF Consistent, OnePer
<1> HIDE DEF new, kept
<1>4. OnePer(new)
  <2>1. \A t \in kept, u \in F : t[1] = u[1] /\ t[2] = u[2] => t[3] = u[3]
    BY DEF kept
  <2> QED BY <1>2, <1>3, <2>1, Together
<1>5. \A f \in new : Agrees(f)
  BY <1>2, <1>3
<1> QED BY <1>4, <1>5 DEF Consistent, new

\* SET of a node's property: the old value is deleted with the insertion.
LEMMA UpsertKeeps ==
  ASSUME NEW st \in Graph(Node), Consistent(st), NEW s \in Statement, s.s = "upsert", OneEach(s)
  PROVE  Consistent(Patch(st, Upsert(s, st).del, Upsert(s, st).ins))
<1> DEFINE hit == {h[2] : h \in Hits(s, st)}
           D == {f \in Facts(st) : f[1] \in hit /\ f[2] = s.k}
           F == UNION {{<<h[2], s.k, y>> : y \in Values(s.x, h[1], s.v, h[2], st)} : h \in Hits(s, st)}
<1>1. s.k \in Key /\ s.x \in Expr
  BY DEF Statement
<1>2. \A h \in Hits(s, st) : h[2] \in SubjectsOf(Node) /\ h[1] \in Rows(s.ctx, st)
  <2> SUFFICES ASSUME NEW h \in Hits(s, st) PROVE h[2] \in SubjectsOf(Node) /\ h[1] \in Rows(s.ctx, st)
    OBVIOUS
  <2>1. PICK r \in Rows(s.ctx, st) : \E u \in Subjects(r, s.v, s.k, st) : h = <<r, u>>
    BY DEF Hits
  <2>2. \A w \in DOMAIN r : r[w] \in Node
    BY <2>1, RowsTyped DEF RowsStay
  <2>3. Subjects(r, s.v, s.k, st) \subseteq SubjectsOf(Node)
    BY <2>2, SubjectsType
  <2> QED BY <2>1, <2>3
<1>3. ASSUME NEW f \in F
      PROVE  \E h \in Hits(s, st) : \E y \in Values(s.x, h[1], s.v, h[2], st) : f = <<h[2], s.k, y>>
  OBVIOUS
<1>4. F \subseteq FactsOf(Node)
  <2> SUFFICES ASSUME NEW f \in F PROVE f \in FactsOf(Node)
    OBVIOUS
  <2>0. PICK h \in Hits(s, st) : \E y \in Values(s.x, h[1], s.v, h[2], st) : f = <<h[2], s.k, y>>
    BY <1>3
  <2>1. PICK y \in Values(s.x, h[1], s.v, h[2], st) : f = <<h[2], s.k, y>>
    BY <2>0
  <2>2. y \in Val
    BY <1>1, <2>1, ValuesType
  <2> QED BY <1>1, <1>2, <2>1, <2>2 DEF FactsOf
<1>5. \A f \in F : f[1] \in hit /\ f[2] = s.k
  BY <1>3
<1>6. s.x.e = "lit" \/ s.x.e = "null" \/ s.x.e = "prop"
  BY <1>1 DEF Expr
<1>7. \A f \in F :
        \/ s.x.e = "lit" /\ f[3] = s.x.x
        \/ s.x.e = "prop" /\ \E g \in Facts(st) : g[1] = f[1] /\ g[2] = s.x.k /\ g[3] = f[3]
  <2> SUFFICES ASSUME NEW f \in F
               PROVE  \/ s.x.e = "lit" /\ f[3] = s.x.x
                      \/ s.x.e = "prop" /\ \E g \in Facts(st) : g[1] = f[1] /\ g[2] = s.x.k /\ g[3] = f[3]
    OBVIOUS
  <2>0. PICK h \in Hits(s, st) : \E y \in Values(s.x, h[1], s.v, h[2], st) : f = <<h[2], s.k, y>>
    BY <1>3
  <2>1. PICK y \in Values(s.x, h[1], s.v, h[2], st) : f = <<h[2], s.k, y>>
    BY <2>0
  <2>2. f[1] = h[2] /\ f[3] = y
    BY <2>1
  <2>3. CASE s.x.e = "lit"
    <3>1. y = s.x.x
      BY <2>1, <2>3 DEF Values
    <3> QED BY <2>2, <2>3, <3>1
  <2>4. CASE s.x.e = "null"
    BY <2>1, <2>4 DEF Values
  <2>5. CASE s.x.e = "prop"
    <3>1. s.x.v = s.v
      BY <2>5 DEF OneEach
    <3>2. y \in {g[3] : g \in {e \in Facts(st) : e[1] \in {h[2]} /\ e[2] = s.x.k}}
      BY <2>1, <2>5, <3>1 DEF Values
    <3> QED BY <2>2, <2>5, <3>2
  <2> QED BY <1>6, <2>3, <2>4, <2>5
<1> HIDE DEF F
<1>8. OnePer(F)
  BY <1>7 DEF OnePer, Consistent
<1>9. \A f \in F : Agrees(f)
  BY <1>5, <1>7, FreeAgrees DEF OneEach
<1>10. D \in SUBSET Facts(st) /\ \A t \in Facts(st) \ D, u \in F : t[1] = u[1] /\ t[2] = u[2] => t[3] = u[3]
  BY <1>5
<1>11. Upsert(s, st).del = FactGraph(D) /\ Upsert(s, st).ins = FactGraph(F)
  BY DEF Upsert, F
<1> HIDE DEF D
<1> QED BY <1>4, <1>8, <1>9, <1>10, <1>11, Replaced

\* SET of a relationship's property.
LEMMA UpsertEdgeKeeps ==
  ASSUME NEW st \in Graph(Node), Consistent(st), NEW s \in Statement, s.s = "upsertEdge", OneEach(s), EndsBound(s)
  PROVE  Consistent(Patch(st, UpsertEdge(s, st).del, UpsertEdge(s, st).ins))
<1> DEFINE hit == {<<r[s.from], s.rel, r[s.to]>> : r \in Rows(s.ctx, st)}
           D == {f \in Facts(st) : f[1] \in hit /\ f[2] = s.k}
           F == {<<u, s.k, s.x.x>> : u \in hit}
<1>1. s.k \in Key /\ s.x.x \in Val /\ s.rel \in Rel /\ s.ctx \in Where
  BY DEF Statement
<1>2. \A r \in Rows(s.ctx, st) : r[s.from] \in Node /\ r[s.to] \in Node
  BY <1>1, RowsTyped, RowDomain DEF RowsStay, EndsBound
<1>3. hit \subseteq SubjectsOf(Node)
  BY <1>1, <1>2 DEF SubjectsOf
<1> HIDE DEF hit
<1>4. F \subseteq FactsOf(Node)
  BY <1>1, <1>3 DEF FactsOf
<1>5. \A f \in F : f[1] \in hit /\ f[2] = s.k /\ f[3] = s.x.x
  OBVIOUS
<1> HIDE DEF F
<1>6. OnePer(F)
  BY <1>5 DEF OnePer
<1>7. \A f \in F : Agrees(f)
  BY <1>5, FreeAgrees DEF OneEach
<1>8. D \in SUBSET Facts(st) /\ \A t \in Facts(st) \ D, u \in F : t[1] = u[1] /\ t[2] = u[2] => t[3] = u[3]
  BY <1>5
<1>9. UpsertEdge(s, st).del = FactGraph(D) /\ UpsertEdge(s, st).ins = FactGraph(F)
  BY DEF UpsertEdge, F, hit
<1> HIDE DEF D
<1> QED BY <1>4, <1>6, <1>7, <1>8, <1>9, Replaced

\* SET n = map: every old property goes, and the map has one value of each key.
LEMMA ReplaceKeeps ==
  ASSUME NEW st \in Graph(Node), Consistent(st), NEW s \in Statement, s.s = "replace", OneEach(s)
  PROVE  Consistent(Patch(st, Replace(s, st).del, Replace(s, st).ins))
<1> DEFINE loose == IF Loose(s, st) THEN {f[1] : f \in Facts(st)} \cup {<<t[1]>> : t \in st.edge} ELSE {}
           hit == {<<n>> : n \in Named(s, st)} \cup loose
           D == {f \in Facts(st) : f[1] \in hit}
           F == {<<u, t[1], t[2]>> : u \in hit, t \in s.map}
<1>1. s.map \subseteq Key \X Val /\ s.ctx \in Where
  BY DEF Statement
<1>2. Named(s, st) \subseteq Node
  BY RowsTyped DEF Named, RowsStay
<1>3. hit \subseteq SubjectsOf(Node)
  <2>1. {f[1] : f \in Facts(st)} \subseteq SubjectsOf(Node)
    BY FactsType DEF FactsOf
  <2>2. {<<t[1]>> : t \in st.edge} \subseteq SubjectsOf(Node)
    BY GraphFields DEF SubjectsOf
  <2>3. {<<n>> : n \in Named(s, st)} \subseteq SubjectsOf(Node)
    BY <1>2 DEF SubjectsOf
  <2> QED BY <2>1, <2>2, <2>3
<1>4. Replace(s, st).del.prop = FactGraph(D).prop /\ Replace(s, st).del.eprop = FactGraph(D).eprop
  <2>1. Replace(s, st).del = [FactGraph(D) EXCEPT !.edge = {t \in st.edge : <<t[1]>> \in hit}]
    BY DEF Replace
  <2> HIDE DEF D, hit
  <2> QED BY <2>1 DEF FactGraph, EmptyGraph
<1>5. Replace(s, st).ins = FactGraph(F)
  BY DEF Replace
<1> HIDE DEF hit
<1>6. F \subseteq FactsOf(Node)
  BY <1>1, <1>3 DEF FactsOf
<1>7. \A f \in F : f[1] \in hit /\ \E t \in s.map : f[2] = t[1] /\ f[3] = t[2]
  OBVIOUS
<1>8. D \in SUBSET Facts(st)
  OBVIOUS
<1> HIDE DEF F
<1>9. OnePer(F)
  BY <1>7 DEF OnePer, OneEach
<1>10. \A f \in F : Agrees(f)
  <2> SUFFICES ASSUME NEW f \in F PROVE Agrees(f)
    OBVIOUS
  <2>1. PICK t \in s.map : f[2] = t[1] /\ f[3] = t[2]
    BY <1>7
  <2>2. Free(f[2], f[3])
    BY <2>1 DEF OneEach
  <2> QED BY <2>2, FreeAgrees
<1>11. \A t \in Facts(st) \ D, u \in F : t[1] = u[1] /\ t[2] = u[2] => t[3] = u[3]
  BY <1>7
<1> DEFINE del == Replace(s, st).del
<1> HIDE DEF D, del
<1>12. Consistent(Patch(st, del, FactGraph(F)))
  BY <1>4, <1>6, <1>8, <1>9, <1>10, <1>11, Replaced DEF del
<1> QED BY <1>5, <1>12 DEF del

\* A statement that adds no property.
LEMMA OthersKeep ==
  ASSUME NEW st \in Graph(Node), Consistent(st), NEW ins, NEW del, ins.prop = {}, ins.eprop = {}
  PROVE  Consistent(Patch(st, del, ins))
<1>1. Facts(ins) = {}
  BY DEF Facts
<1>2. Facts(Patch(st, del, ins)) \subseteq Facts(st)
  BY <1>1, PatchFacts
<1> QED BY <1>2 DEF Consistent, OnePer

\* The IRIs of named nodes are stable ones.
LEMMA NodeValuesStable ==
  ASSUME NEW g \in NodeValues
  PROVE  \E j \in DOMAIN StableIri : g[1] = StableIri[j]
<1>1. PICK q \in Query : g \in UNION {NodesGiven(q.cl, i) : i \in Creates(q.cl)}
  BY DEF NodeValues
<1>2. PICK i \in Creates(q.cl) : g \in NodesGiven(q.cl, i)
  BY <1>1
<1>3. PICK t \in Names(q.cl, i) : g[1] = t[2]
  BY <1>2 DEF NodesGiven
<1>4. PICK j : t \in Given(q.cl, j)
  BY <1>3 DEF Names
<1> QED BY <1>3, <1>4 DEF Given

\* The subject of a fact of a store is in the store.
LEMMA FactIds ==
  ASSUME NEW st, NEW n, NEW f \in Facts(st), f[1] = <<n>>
  PROVE  n \in Ids(st)
<1>1. CASE \E t \in st.prop : f = << <<t[1]>>, t[2], t[3] >>
  BY <1>1 DEF Ids
<1>2. CASE \E t \in st.eprop : f = << <<t[1], t[2], t[3]>>, t[4], t[5] >>
  <2>1. PICK t \in st.eprop : f = << <<t[1], t[2], t[3]>>, t[4], t[5] >>
    BY <1>2
  <2>2. Len(f[1]) = 3 /\ Len(f[1]) = 1
    BY <2>1
  <2> QED BY <2>2
<1> QED BY <1>1, <1>2 DEF Facts

\* The property triples an INSERT adds, by what they hang from: a blank node of
\* one row, a node with a stable IRI, or a relationship.
LEMMA InsertFacts ==
  ASSUME NEW st \in Graph(Node), NEW s \in Statement, s.s = "insert", OneEach(s),
         NEW alloc \in Allocations(s, st), NEW f \in Facts(Insert(s, st, alloc).ins)
  PROVE  \/ \E w \in Wanted(s, st) : \E t \in s.tmpl.prop :
              f[1] = <<alloc[w]>> /\ w[2] = t[1] /\ f[2] = t[2] /\ f[3] = t[3]
         \/ \E g \in NodeValues : f[1] = <<g[1]>> /\ f[2] = g[2] /\ f[3] = g[3]
         \/ \E a, b : \E g \in RelValues : f[1] = <<a, g[1], b>> /\ f[2] = g[2] /\ f[3] = g[3]
<1> DEFINE I(r) == Image(s.tmpl, Assign(s, r, alloc))
           ins == Insert(s, st, alloc).ins
<1>1. /\ ins.prop = UNION {g.prop : g \in {I(r) : r \in Fires(s, st)}}
      /\ ins.eprop = UNION {g.eprop : g \in {I(r) : r \in Fires(s, st)}}
  BY DEF Insert, UnionOf
<1>2. s.tmpl \in Graph(Var)
  BY DEF Statement
<1>3. CASE \E t \in ins.prop : f = << <<t[1]>>, t[2], t[3] >>
  <2>1. PICK r \in Fires(s, st) : \E t \in I(r).prop : f = << <<t[1]>>, t[2], t[3] >>
    BY <1>1, <1>3
  <2> DEFINE m == Assign(s, r, alloc)
  <2>2. PICK t \in s.tmpl.prop : t[1] \in DOMAIN m /\ f = << <<m[t[1]]>>, t[2], t[3] >>
    BY <2>1 DEF Image
  <2>3. DOMAIN m = s.fresh \cup {i[1] : i \in s.iri} \cup DOMAIN r
    BY DEF Assign
  <2>4. CASE t[1] \in s.fresh
    <3>1. m[t[1]] = alloc[<<r, t[1]>>]
      BY <2>3, <2>4 DEF Assign
    <3>2. <<r, t[1]>> \in Wanted(s, st)
      BY <2>4 DEF Wanted
    <3> HIDE DEF m
    <3> QED BY <2>2, <3>1, <3>2
  <2>5. CASE t[1] \notin s.fresh
    <3>1. t[1] \in {i[1] : i \in s.iri} /\ <<IriOf(s, t[1]), t[2], t[3]>> \in NodeValues
      BY <2>5 DEF OneEach
    <3>2. m[t[1]] = IriOf(s, t[1])
      BY <2>3, <2>5, <3>1 DEF Assign
    <3> HIDE DEF m
    <3> QED BY <2>2, <3>1, <3>2
  <2> QED BY <2>4, <2>5
<1>4. CASE \E t \in ins.eprop : f = << <<t[1], t[2], t[3]>>, t[4], t[5] >>
  <2>1. PICK r \in Fires(s, st) : \E t \in I(r).eprop : f = << <<t[1], t[2], t[3]>>, t[4], t[5] >>
    BY <1>1, <1>4
  <2> DEFINE m == Assign(s, r, alloc)
  <2>2. PICK t \in s.tmpl.eprop : f = << <<m[t[1]], t[2], m[t[3]]>>, t[4], t[5] >>
    BY <2>1 DEF Image
  <2> HIDE DEF m
  <2>3. <<t[2], t[4], t[5]>> \in RelValues
    BY DEF OneEach
  <2> QED BY <2>2, <2>3
<1> QED BY <1>3, <1>4 DEF Facts

\* Blank nodes are new and in one row each, and stable IRIs are given one value.
LEMMA InsertKeeps ==
  ASSUME OnePer(NodeValues), OnePer(RelValues),
         NEW st \in Graph(Node), Consistent(st), NEW s \in Statement, s.s = "insert", OneEach(s),
         NEW alloc \in Allocations(s, st)
  PROVE  Consistent(Apply(s, st, alloc))
<1> DEFINE ins == Insert(s, st, alloc).ins
           new == Facts(ins)
           Blank(f) == \E w \in Wanted(s, st) : \E t \in s.tmpl.prop :
                         f[1] = <<alloc[w]>> /\ w[2] = t[1] /\ f[2] = t[2] /\ f[3] = t[3]
           Stable(f) == \E g \in NodeValues : f[1] = <<g[1]>> /\ f[2] = g[2] /\ f[3] = g[3]
           Linked(f) == \E a, b : \E g \in RelValues : f[1] = <<a, g[1], b>> /\ f[2] = g[2] /\ f[3] = g[3]
<1>1. \A f \in new : Blank(f) \/ Stable(f) \/ Linked(f)
  BY InsertFacts
<1>2. /\ \A w \in Wanted(s, st) : alloc[w] \notin Ids(st) /\ alloc[w] \notin {StableIri[j] : j \in DOMAIN StableIri}
      /\ \A x, y \in Wanted(s, st) : alloc[x] = alloc[y] => x = y
  BY DEF Allocations, Spare
<1>3. \A g \in NodeValues : g[1] \in {StableIri[j] : j \in DOMAIN StableIri}
  BY NodeValuesStable
<1>4. ASSUME NEW f, Blank(f) PROVE Agrees(f)
  <2>1. PICK w \in Wanted(s, st) : f[1] = <<alloc[w]>>
    BY <1>4
  <2>2. Len(f[1]) = 1 /\ f[1][1] = alloc[w]
    BY <2>1
  <2> QED BY <1>2, <1>3, <2>2 DEF Agrees
<1>5. ASSUME NEW f, Stable(f) PROVE Agrees(f)
  <2>1. PICK g \in NodeValues : f[1] = <<g[1]>> /\ f[2] = g[2] /\ f[3] = g[3]
    BY <1>5
  <2>2. Len(f[1]) = 1 /\ f[1][1] = g[1]
    BY <2>1
  <2> QED BY <2>1, <2>2 DEF Agrees, OnePer
<1>6. ASSUME NEW f, Linked(f) PROVE Agrees(f)
  <2>0. PICK a, b : \E g \in RelValues : f[1] = <<a, g[1], b>> /\ f[2] = g[2] /\ f[3] = g[3]
    BY <1>6
  <2>1. PICK g \in RelValues : f[1] = <<a, g[1], b>> /\ f[2] = g[2] /\ f[3] = g[3]
    BY <2>0
  <2>2. Len(f[1]) = 3 /\ f[1][2] = g[1]
    BY <2>1
  <2> QED BY <2>1, <2>2 DEF Agrees, OnePer
\* What agrees with a given value of its subject is that value.
<1>7. ASSUME NEW f, Stable(f), NEW e, e[1] = f[1], e[2] = f[2], Agrees(e) PROVE e[3] = f[3]
  <2>1. PICK g \in NodeValues : f[1] = <<g[1]>> /\ f[2] = g[2] /\ f[3] = g[3]
    BY <1>7
  <2>2. Len(e[1]) = 1 /\ e[1][1] = g[1] /\ e[2] = g[2]
    BY <1>7, <2>1
  <2> QED BY <1>7, <2>1, <2>2 DEF Agrees
<1>8. ASSUME NEW f, Linked(f), NEW e, e[1] = f[1], e[2] = f[2], Agrees(e) PROVE e[3] = f[3]
  <2>0. PICK a, b : \E g \in RelValues : f[1] = <<a, g[1], b>> /\ f[2] = g[2] /\ f[3] = g[3]
    BY <1>8
  <2>1. PICK g \in RelValues : f[1] = <<a, g[1], b>> /\ f[2] = g[2] /\ f[3] = g[3]
    BY <2>0
  <2>2. Len(e[1]) = 3 /\ e[1][2] = g[1] /\ e[2] = g[2]
    BY <1>8, <2>1
  <2> QED BY <1>8, <2>1, <2>2 DEF Agrees
<1>9. ASSUME NEW f, Blank(f), NEW e, Blank(e), e[1] = f[1], e[2] = f[2] PROVE e[3] = f[3]
  <2>1. PICK w \in Wanted(s, st) :
                \E t \in s.tmpl.prop : f[1] = <<alloc[w]>> /\ w[2] = t[1] /\ f[2] = t[2] /\ f[3] = t[3]
    BY <1>9
  <2>2. PICK x \in Wanted(s, st) :
                \E t \in s.tmpl.prop : e[1] = <<alloc[x]>> /\ x[2] = t[1] /\ e[2] = t[2] /\ e[3] = t[3]
    BY <1>9
  <2>3. alloc[w] = alloc[x]
    BY <1>9, <2>1, <2>2
  <2>4. w = x
    BY <1>2, <2>3
  <2> QED BY <1>9, <2>1, <2>2, <2>4 DEF OneEach, OnePer
<1>10. \A f \in new : Agrees(f)
  BY <1>1, <1>4, <1>5, <1>6
<1>11. OnePer(new)
  <2> SUFFICES ASSUME NEW e \in new, NEW f \in new, e[1] = f[1], e[2] = f[2] PROVE e[3] = f[3]
    BY DEF OnePer
  <2>1. Agrees(e) /\ Agrees(f)
    BY <1>10
  <2> HIDE DEF new, Blank, Stable, Linked
  <2> QED BY <1>1, <1>7, <1>8, <1>9, <2>1
<1>12. ASSUME NEW e \in Facts(st), NEW f \in new, e[1] = f[1], e[2] = f[2] PROVE e[3] = f[3]
  <2>1. Agrees(e)
    BY DEF Consistent
  <2>2. ~ Blank(f)
    <3> SUFFICES ASSUME Blank(f) PROVE FALSE
      OBVIOUS
    <3>1. PICK w \in Wanted(s, st) : f[1] = <<alloc[w]>>
      OBVIOUS
    <3> QED BY <1>2, <1>12, <3>1, FactIds
  <2> HIDE DEF new, Blank, Stable, Linked
  <2> QED BY <1>1, <1>7, <1>8, <1>12, <2>1, <2>2
<1> DEFINE after == Facts(Patch(st, EmptyGraph, ins))
<1>13. after \subseteq Facts(st) \cup new
  BY PatchFacts
<1>14. Apply(s, st, alloc) = Patch(st, EmptyGraph, ins)
  BY DEF Apply, Effect, Insert
<1> HIDE DEF after, new, ins
<1>15. OnePer(after)
  BY <1>11, <1>12, <1>13, Together DEF Consistent
<1>16. \A f \in after : Agrees(f)
  BY <1>10, <1>13 DEF Consistent
<1> QED BY <1>14, <1>15, <1>16 DEF Consistent, after

\* Every statement that gives each one value leaves the store so.
LEMMA ApplyKeeps ==
  ASSUME OnePer(NodeValues), OnePer(RelValues),
         NEW st \in Graph(Node), Consistent(st), NEW s \in Statement, OneEach(s), EndsBound(s),
         NEW alloc \in Allocations(s, st)
  PROVE  Consistent(Apply(s, st, alloc))
<1> DEFINE e == Effect(s, st, alloc)
<1>1. Apply(s, st, alloc) = Patch(st, e.del, e.ins)
  BY DEF Apply
<1>2. CASE s.s = "insert"
  BY <1>2, InsertKeeps
<1>3. CASE s.s = "upsert"
  BY <1>1, <1>3, UpsertKeeps DEF Effect
<1>4. CASE s.s = "upsertEdge"
  BY <1>1, <1>4, UpsertEdgeKeeps DEF Effect
<1>5. CASE s.s = "replace"
  BY <1>1, <1>5, ReplaceKeeps DEF Effect
<1>6. CASE s.s \in {"addLabel", "dropLabel", "wipeOut", "wipeIn", "cut", "dropKey"}
  <2>1. e.ins.prop = {} /\ e.ins.eprop = {}
    BY <1>6 DEF Effect, AddLabel, DropLabel, WipeOut, WipeIn, Cut, DropKey, EmptyGraph
  <2> HIDE DEF e
  <2> QED BY <1>1, <2>1, OthersKeep
<1> QED BY <1>2, <1>3, <1>4, <1>5, <1>6, StatementKinds

-----------------------------------------------------------------------------
(* The statements of the compiler. *)

\* An item of a SET that agrees becomes a statement that gives one value.
LEMMA SetStatementOne ==
  ASSUME NEW it \in SetItem, ItemAgrees(it), NEW ctx
  PROVE  OneEach(SetStatement(it, ctx))
<1> DEFINE s == SetStatement(it, ctx)
<1>1. CASE it.i \in {"prop", "mergeMap"}
  <2>1. s = [s |-> "upsert", ctx |-> OrScan(ctx, it.v), v |-> it.v, k |-> it.k, x |-> it.x]
    BY <1>1 DEF SetStatement
  <2> HIDE DEF s
  <2> QED BY <1>1, <2>1 DEF OneEach, ItemAgrees, s
<1>2. CASE it.i = "unprop"
  <2>1. s = [s |-> "upsert", ctx |-> OrScan(ctx, it.v), v |-> it.v, k |-> it.k, x |-> Null]
    BY <1>2 DEF SetStatement
  <2> HIDE DEF s
  <2> QED BY <2>1 DEF OneEach, Null, s
<1>3. CASE it.i \in {"label", "unlabel"}
  <2>1. s.s \in {"addLabel", "dropLabel"}
    BY <1>3 DEF SetStatement
  <2> HIDE DEF s
  <2> QED BY <2>1 DEF OneEach, s
<1>4. CASE it.i = "replace"
  <2>1. s = [s |-> "replace", ctx |-> OrScan(ctx, it.v), v |-> it.v, map |-> it.map]
    BY <1>4 DEF SetStatement
  <2>2. \A t, u \in it.map : t[1] = u[1] => t[2] = u[2]
    <3> SUFFICES ASSUME NEW t \in it.map, NEW u \in it.map, t[1] = u[1] PROVE t[2] = u[2]
      OBVIOUS
    <3> DEFINE S == {<<it.v, x[1], x[2]>> : x \in it.map}
    <3>1. <<it.v, t[1], t[2]>> \in S /\ <<it.v, u[1], u[2]>> \in S
      OBVIOUS
    <3>2. OnePer(S)
      BY <1>4 DEF ItemAgrees
    <3> HIDE DEF S
    <3> QED BY <3>1, <3>2 DEF OnePer
  <2> HIDE DEF s
  <2> QED BY <1>4, <2>1, <2>2 DEF OneEach, ItemAgrees, s
<1> QED BY <1>1, <1>2, <1>3, <1>4 DEF SetItem

\* So does a list of items.
LEMMA SetItemsOne ==
  ASSUME NEW items \in Seq(SetItem), ItemsAgree(items), NEW ctx
  PROVE  \A k \in DOMAIN CompileSetItems(items, ctx) : OneEach(CompileSetItems(items, ctx)[k])
<1> SUFFICES ASSUME NEW k \in DOMAIN CompileSetItems(items, ctx) PROVE OneEach(CompileSetItems(items, ctx)[k])
  OBVIOUS
<1>1. k \in DOMAIN items /\ CompileSetItems(items, ctx)[k] = SetStatement(items[k], ctx)
  BY DEF CompileSetItems, Each
<1>2. items[k] \in SetItem /\ ItemAgrees(items[k])
  BY <1>1 DEF ItemsAgree
<1> QED BY <1>1, <1>2, SetStatementOne

\* What a query gives relationships.
LEMMA RelValuesOf ==
  ASSUME NEW q \in Query, NEW i \in DOMAIN q.cl
  PROVE  /\ q.cl[i].c = "create" => \A t \in q.cl[i].g.eprop : <<t[2], t[4], t[5]>> \in RelValues
         /\ q.cl[i].c = "mergeNode" => \A t \in q.cl[i].p.eprop : <<t[2], t[4], t[5]>> \in RelValues
         /\ q.cl[i].c = "mergeRel" =>
              \A t \in q.cl[i].props \cup LiteralProps(q.cl[i].onCreate) : <<q.cl[i].rel, t[1], t[2]>> \in RelValues
<1>1. RelsGiven(q.cl[i]) \subseteq RelValues
  BY DEF RelValues
<1>2. q.cl[i].c = "create" => RelsGiven(q.cl[i]) = {<<t[2], t[4], t[5]>> : t \in q.cl[i].g.eprop}
  BY DEF RelsGiven
<1>3. q.cl[i].c = "mergeNode" => RelsGiven(q.cl[i]) = {<<t[2], t[4], t[5]>> : t \in q.cl[i].p.eprop}
  BY DEF RelsGiven
<1>4. q.cl[i].c = "mergeRel" =>
        RelsGiven(q.cl[i]) = {<<q.cl[i].rel, t[1], t[2]>> : t \in q.cl[i].props \cup LiteralProps(q.cl[i].onCreate)}
  BY DEF RelsGiven
<1> QED BY <1>1, <1>2, <1>3, <1>4

\* One list of such statements after another.
LEMMA ConcatOne ==
  ASSUME NEW l, NEW n \in Nat, DOMAIN l = 1 .. n, Len(l) = n, NEW m \in Seq(Shaped), l \in Seq(Shaped),
         \A k \in DOMAIN l : OneEach(l[k]), \A k \in DOMAIN m : OneEach(m[k])
  PROVE  \A k \in DOMAIN (l \o m) : OneEach((l \o m)[k])
<1> SUFFICES ASSUME NEW k \in DOMAIN (l \o m) PROVE OneEach((l \o m)[k])
  OBVIOUS
<1>1. k \in 1 .. n => (l \o m)[k] = l[k]
  OBVIOUS
<1>2. k \notin 1 .. n => k - n \in DOMAIN m /\ (l \o m)[k] = m[k - n]
  OBVIOUS
<1> QED BY <1>1, <1>2

\* The INSERT of a relationship MERGE gives what RelValues lists.
LEMMA MergeEdgeInsertOne ==
  ASSUME NEW cl \in Clause, cl.c = "mergeRel", NEW ctx,
         \A t \in cl.props \cup LiteralProps(cl.onCreate) : <<cl.rel, t[1], t[2]>> \in RelValues
  PROVE  OneEach(MergeEdgeInsert(cl, ctx))
<1> DEFINE s == MergeEdgeInsert(cl, ctx)
<1>1. /\ s.s = "insert" /\ s.tmpl.prop = {}
      /\ s.tmpl.eprop = {<<cl.from, cl.rel, cl.to, t[1], t[2]>> : t \in cl.props \cup LiteralProps(cl.onCreate)}
  BY DEF MergeEdgeInsert, EdgeGraph, EmptyGraph
<1> HIDE DEF s
<1>2. \A t \in s.tmpl.eprop : <<t[2], t[4], t[5]>> \in RelValues
  BY <1>1
<1> QED BY <1>1, <1>2 DEF OneEach, OnePer, s

\* A node MERGE: its INSERT, then the items of ON MATCH.
LEMMA MergeNodeOne ==
  ASSUME NEW cl \in Clause, cl.c = "mergeNode", Ids(cl.p) = {cl.v}, ClauseAgrees(cl),
         \A t \in cl.p.eprop : <<t[2], t[4], t[5]>> \in RelValues
  PROVE  \A k \in DOMAIN CompileMergeNode(cl) : OneEach(CompileMergeNode(cl)[k])
<1> DEFINE s == [s |-> "insert", ctx |-> NoWhere, absent |-> cl.p, tmpl |-> CreatedBy(cl), fresh |-> {cl.v}, iri |-> {}]
           rest == CompileSetItems(cl.onMatch, Pattern(cl.p))
<1>1. cl.p \in Graph(Var) /\ cl.onMatch \in Seq(SetItem)
  BY DEF Clause
<1>2. CreatedBy(cl).eprop = cl.p.eprop
  BY <1>1 DEF CreatedBy, Graph
<1>3. \A t \in CreatedBy(cl).prop : t[1] = cl.v
  BY CreatedByFacts DEF Ids
<1>4. OneEach(s)
  <2> HIDE DEF ClauseAgrees
  <2>1. OnePer(CreatedBy(cl).prop)
    BY DEF ClauseAgrees
  <2> QED BY <1>2, <1>3, <2>1 DEF OneEach
<1>5. \A k \in DOMAIN rest : OneEach(rest[k])
  BY <1>1, SetItemsOne DEF ClauseAgrees
<1>6. CompileMergeNode(cl) = <<s>> \o rest
  BY DEF CompileMergeNode
<1>7. /\ Len(cl.onMatch) \in Nat /\ DOMAIN rest = 1 .. Len(cl.onMatch)
      /\ rest = [k \in 1 .. Len(cl.onMatch) |-> SetStatement(cl.onMatch[k], Pattern(cl.p))]
  BY <1>1 DEF CompileSetItems, Each
<1>8. Emits(rest, {})
  BY <1>1, PatternFacts, CompileSetItemsFacts
<1>9. s \in Shaped
  <2>1. Emits(CompileMergeNode(cl), {})
    BY CompileMergeNodeFacts
  <2>2. rest \in Seq(Shaped)
    BY <1>8 DEF Emits
  <2> HIDE DEF s, rest
  <2>3. CompileMergeNode(cl)[1] = s /\ 1 \in DOMAIN CompileMergeNode(cl)
    BY <1>6, <2>2
  <2> QED BY <2>1, <2>3 DEF Emits
<1> HIDE DEF s, rest
<1>10. <<s>> \in Seq(Shaped) /\ Len(<<s>>) = 1 /\ DOMAIN <<s>> = 1 .. 1 /\ \A k \in DOMAIN <<s>> : OneEach(<<s>>[k])
  BY <1>4, <1>9
<1> QED BY <1>5, <1>6, <1>8, <1>10, ConcatOne DEF Emits

\* A relationship MERGE between nodes its WHERE finds.
LEMMA MergeRelOne ==
  ASSUME NEW cl \in Clause, cl.c = "mergeRel", ClauseAgrees(cl), NEW ctx \in Where, SourcesBound(ctx),
         \A t \in cl.props \cup LiteralProps(cl.onCreate) : <<cl.rel, t[1], t[2]>> \in RelValues
  PROVE  \A k \in DOMAIN CompileMergeRel(cl, ctx) : OneEach(CompileMergeRel(cl, ctx)[k])
<1> DEFINE s == MergeEdgeInsert(cl, ctx)
           on == Facing(ctx, EdgeGraph(cl, {}))
           rest == CompileSetItems(cl.onMatch, on)
<1>1. cl.onMatch \in Seq(LitItem)
  BY DEF Clause
<1>2. cl.onMatch \in Seq(SetItem)
  BY <1>1, LitItems
<1>3. EdgeGraph(cl, {}) \in Graph(Var)
  BY EdgeGraphFacts
<1>4. on \in Where /\ SourcesBound(on)
  BY <1>3, FacingFacts
<1>5. rest \in Seq(Shaped) /\ s \in Shaped
  BY <1>2, <1>4, CompileSetItemsFacts, MergeEdgeInsertFacts DEF Emits
<1>6. \A k \in DOMAIN rest : OneEach(rest[k])
  BY <1>2, SetItemsOne DEF ClauseAgrees
<1>7. OneEach(s)
  BY MergeEdgeInsertOne
<1>8. CompileMergeRel(cl, ctx) = <<s>> \o rest
  BY DEF CompileMergeRel
<1> HIDE DEF s, rest
<1>9. <<s>> \in Seq(Shaped) /\ Len(<<s>>) = 1 /\ DOMAIN <<s>> = 1 .. 1 /\ \A k \in DOMAIN <<s>> : OneEach(<<s>>[k])
  BY <1>5, <1>7
<1> QED BY <1>5, <1>6, <1>8, <1>9, ConcatOne

\* A relationship MERGE between nodes a CREATE has named.
LEMMA MergeBoundOne ==
  ASSUME NEW cl \in Clause, cl.c = "mergeRel", ClauseAgrees(cl), NEW b \in NodeMap, FullyBound(cl, b),
         \A t \in cl.props \cup LiteralProps(cl.onCreate) : <<cl.rel, t[1], t[2]>> \in RelValues
  PROVE  \A k \in DOMAIN CompileMergeBound(cl, b) : OneEach(CompileMergeBound(cl, b)[k])
<1> DEFINE ctx == [NoWhere EXCEPT !.iri = EndIris(cl, b)]
           s == MergeEdgeInsert(cl, ctx)
           Edge(it) == [s |-> "upsertEdge", ctx |-> Facing(ctx, EdgeGraph(cl, {})),
                        from |-> cl.from, rel |-> cl.rel, to |-> cl.to, k |-> it.k, x |-> it.x]
           rest == [k \in 1 .. Len(cl.onMatch) |-> Edge(cl.onMatch[k])]
           all == CompileMergeBound(cl, b)
<1>1. all = <<s>> \o rest
  BY DEF CompileMergeBound, Each
<1>2. cl.onMatch \in Seq(LitItem)
  BY DEF Clause
<1>3. OneEach(s)
  BY MergeEdgeInsertOne
<1>4. \A k \in 1 .. Len(cl.onMatch) : OneEach(rest[k])
  <2> SUFFICES ASSUME NEW k \in 1 .. Len(cl.onMatch) PROVE OneEach(rest[k])
    OBVIOUS
  <2> DEFINE it == cl.onMatch[k]
  <2>1. it \in LitItem /\ ItemAgrees(it)
    BY <1>2 DEF ClauseAgrees, ItemsAgree
  <2>2. Free(it.k, it.x.x)
    BY <2>1 DEF LitItem, ItemAgrees
  <2>3. rest[k].s = "upsertEdge" /\ rest[k].k = it.k /\ rest[k].x = it.x
    OBVIOUS
  <2> HIDE DEF rest, it
  <2> QED BY <2>2, <2>3 DEF OneEach
<1>5. Emits(all, b.iri)
  BY CompileMergeBoundFacts
<1> SUFFICES ASSUME NEW k \in DOMAIN all PROVE OneEach(all[k])
  OBVIOUS
<1>6. Len(cl.onMatch) \in Nat /\ Len(rest) = Len(cl.onMatch) /\ Len(all) = 1 + Len(cl.onMatch)
  <2>1. Len(cl.onMatch) \in Nat
    BY <1>2
  <2> HIDE DEF s, Edge, all
  <2>2. Len(rest) = Len(cl.onMatch)
    BY <2>1
  <2> HIDE DEF rest
  <2> QED BY <1>1, <2>1, <2>2
<1>7. k \in 1 .. 1 + Len(cl.onMatch)
  BY <1>5, <1>6 DEF Emits
<1>8. k = 1 => all[k] = s
  <2> HIDE DEF s, rest
  <2> QED BY <1>1, <1>6, <1>7
<1>9. k # 1 => k - 1 \in 1 .. Len(cl.onMatch) /\ all[k] = rest[k - 1]
  <2> HIDE DEF s, rest
  <2> QED BY <1>1, <1>6, <1>7
<1> HIDE DEF s, rest, all
<1> QED BY <1>3, <1>4, <1>8, <1>9

\* Deletions add nothing.
LEMMA DeleteOne ==
  ASSUME NEW cl, NEW ctx, NEW rels, NEW k \in DOMAIN CompileDelete(cl, ctx, rels)
  PROVE  OneEach(CompileDelete(cl, ctx, rels)[k])
<1> DEFINE s == CompileDelete(cl, ctx, rels)[k]
<1>1. s.s \in {"wipeOut", "wipeIn", "cut"}
  BY DEF CompileDelete, Each, DeleteStatement
<1> HIDE DEF s
<1> QED BY <1>1 DEF OneEach, s

\* Whatever a clause adds once the clauses inside are compiled.
LEMMA OwnOne ==
  ASSUME NEW q \in Query, NEW i \in DOMAIN q.cl, ClauseAgrees(q.cl[i]), NEW b \in NodeMap,
         OwnSupported(q.cl, i, b)
  PROVE  \A k \in DOMAIN OwnStatements(q.cl, i, b) : OneEach(OwnStatements(q.cl, i, b)[k])
<1> DEFINE cl == q.cl[i]
           ctx == ContextOf(q.cl, i)
           on == Facing(MergeWhere(q.cl, i, b), cl.scan)
<1>1. q.cl \in Seq(Clause) /\ \A j \in DOMAIN q.cl : Lowered(q.cl, j)
  BY QueryAssumption
<1>2. cl \in Clause /\ Lowered(q.cl, i)
  BY <1>1
<1>3. CASE cl.c = "set"
  <2>1. OwnStatements(q.cl, i, b) = CompileSetItems(cl.items, ctx)
    BY <1>3 DEF OwnStatements
  <2>2. cl.items \in Seq(SetItem) /\ ItemsAgree(cl.items)
    BY <1>2, <1>3 DEF Clause, ClauseAgrees
  <2> HIDE DEF cl, ctx
  <2> QED BY <2>1, <2>2, SetItemsOne
<1>4. CASE cl.c = "delete"
  BY <1>4, DeleteOne DEF OwnStatements
<1>5. CASE cl.c = "mergeNode"
  <2>1. OwnStatements(q.cl, i, b) = CompileMergeNode(cl)
    BY <1>5 DEF OwnStatements
  <2>2. Ids(cl.p) = {cl.v}
    BY <1>2, <1>5 DEF Lowered
  <2> QED BY <1>2, <1>5, <2>1, <2>2, RelValuesOf, MergeNodeOne
<1>6. CASE cl.c = "mergeRel"
  <2>1. OwnStatements(q.cl, i, b) = IF Constrained(cl, on) THEN CompileMergeRel(cl, on) ELSE CompileMergeBound(cl, b)
    BY <1>6 DEF OwnStatements
  <2>2. ~ Constrained(cl, on) => FullyBound(cl, b)
    BY <1>6 DEF OwnSupported
  <2>3. cl.scan \in Graph(Var)
    BY <1>2, <1>6 DEF Clause
  <2>4. MergeWhere(q.cl, i, b) \in Where /\ SourcesBound(MergeWhere(q.cl, i, b))
    BY <1>1, MergeWhereFacts
  <2>5. on \in Where /\ SourcesBound(on)
    BY <2>3, <2>4, FacingFacts
  <2>6. \A t \in cl.props \cup LiteralProps(cl.onCreate) : <<cl.rel, t[1], t[2]>> \in RelValues
    BY <1>6, RelValuesOf
  <2> HIDE DEF cl, on
  <2>7. CASE Constrained(cl, on)
    BY <1>2, <1>6, <2>1, <2>5, <2>6, <2>7, MergeRelOne DEF cl
  <2>8. CASE ~ Constrained(cl, on)
    BY <1>2, <1>6, <2>1, <2>2, <2>6, <2>8, MergeBoundOne DEF cl
  <2> QED BY <2>7, <2>8
<1> QED BY <1>3, <1>4, <1>5, <1>6 DEF OwnSupported

\* A CREATE gives a new node one value of each key, and a named one its own.
LEMMA CreateOne ==
  ASSUME NEW q \in Query, NEW i \in Creates(q.cl), ClauseAgrees(q.cl[i]), NEW ctx, NEW a \in NodeMap, OneName(a),
         q.cl[i].g.node \subseteq a.blank \cup a.row \cup {t[1] : t \in a.iri}, a.iri \subseteq Names(q.cl, i)
  PROVE  \A k \in DOMAIN CompileCreate(q.cl[i], ctx, a) : OneEach(CompileCreate(q.cl[i], ctx, a)[k])
<1> DEFINE cl == q.cl[i]
           tmpl == CreateTemplate(cl.g, a.row)
           s == [s |-> "insert", ctx |-> ctx, absent |-> EmptyGraph, tmpl |-> tmpl,
                 fresh |-> a.blank \cap Ids(tmpl), iri |-> {t \in a.iri : t[1] \in Ids(tmpl)}]
<1>1. i \in DOMAIN q.cl /\ cl.c = "create" /\ cl \in Clause /\ Lowered(q.cl, i)
  BY QueryAssumption DEF Creates
<1>2. cl.g \in Graph(Var) /\ Closed(cl.g)
  BY <1>1 DEF Clause, Lowered
<1>3. tmpl.prop = {t \in cl.g.prop : t[1] \notin a.row} /\ tmpl.eprop = cl.g.eprop
  BY <1>2 DEF CreateTemplate, Graph
<1>4. OnePer(tmpl.prop)
  BY <1>1, <1>3 DEF ClauseAgrees, OnePer
<1>5. \A t \in tmpl.eprop : <<t[2], t[4], t[5]>> \in RelValues
  BY <1>1, <1>3, RelValuesOf
<1> HIDE DEF tmpl
<1>6. ASSUME NEW t \in tmpl.prop, t[1] \notin s.fresh
      PROVE  t[1] \in {u[1] : u \in s.iri} /\ <<IriOf(s, t[1]), t[2], t[3]>> \in NodeValues
  <2>1. t[1] \in Ids(tmpl)
    BY DEF Ids
  <2>2. t \in cl.g.prop /\ t[1] \notin a.row /\ t[1] \in cl.g.node
    BY <1>2, <1>3 DEF Closed, Ids
  <2>3. t[1] \notin a.blank
    BY <1>6, <2>1
  <2>4. PICK u \in a.iri : u[1] = t[1]
    BY <2>2, <2>3
  <2>5. u \in s.iri
    BY <2>1, <2>4
  <2>6. \A x \in s.iri : x[1] = t[1] => x = u
    BY <2>4 DEF OneName
  <2> HIDE DEF s
  <2>7. IriOf(s, t[1]) = u[2]
    BY <2>4, <2>5, <2>6 DEF IriOf
  <2>8. u \in Names(q.cl, i)
    BY <2>4
  <2>9. <<u[2], t[2], t[3]>> \in NodesGiven(q.cl, i)
    <3> DEFINE w == <<u, t>>
    <3>1. w \in {p \in Names(q.cl, i) \X cl.g.prop : p[1][1] = p[2][1]} /\ w[1] = u /\ w[2] = t
      BY <2>2, <2>4, <2>8
    <3> HIDE DEF w
    <3>2. <<w[1][2], w[2][2], w[2][3]>> \in NodesGiven(q.cl, i)
      BY <3>1 DEF NodesGiven
    <3> QED BY <3>1, <3>2
  <2>10. NodesGiven(q.cl, i) \subseteq NodeValues
    BY DEF NodeValues
  <2> QED BY <2>4, <2>5, <2>7, <2>9, <2>10
<1>7. OneEach(s)
  BY <1>4, <1>5, <1>6 DEF OneEach
<1>8. CompileCreate(cl, ctx, a) = IF tmpl = EmptyGraph THEN <<>> ELSE <<s>>
  BY DEF CompileCreate, tmpl
<1> HIDE DEF s, cl
<1>9. \A k \in DOMAIN CompileCreate(cl, ctx, a) : OneEach(CompileCreate(cl, ctx, a)[k])
  BY <1>7, <1>8
<1> QED BY <1>9 DEF cl

-----------------------------------------------------------------------------
(* The walk and the caller. *)

Touched(q, i) == UNION {q[j].g.node : j \in {m \in Creates(q) : m > i}}

\* Until the walk turns back, bnode_map holds the nodes of the CREATEs it has
\* passed, and the counter has counted those that are new.
WalkNames ==
  pc = "walk" /\ at > 0 =>
    /\ bmap.iri \subseteq Names(query.cl, at + 1)
    /\ counter = Cardinality(NewAfter(query.cl, at))
    /\ bmap.blank \cup bmap.row \cup {t[1] : t \in bmap.iri} = Touched(query.cl, at)

ValueInv ==
  /\ WalkNames
  /\ \A k \in DOMAIN out : OneEach(out[k])
  /\ Consistent(store)

\* The stores a session starts with are consistent, and nothing is named.
LEMMA InitValues == ValuesAgree /\ Init => ValueInv
<1> SUFFICES ASSUME ValuesAgree, Init PROVE ValueInv
  OBVIOUS
<1>1. store \in Graphs /\ pc = "idle" /\ out = <<>>
  BY DEF Init
<1>2. Consistent(store)
  BY <1>1 DEF ValuesAgree, Consistent
<1> QED BY <1>1, <1>2 DEF ValueInv, WalkNames

\* A query starts with nothing named.
LEMMA CompileValues ==
  ASSUME ValueInv, NEW q \in Query, Compile(q), query' = q, UNCHANGED store
  PROVE  ValueInv'
<1>1. q.cl \in Seq(Clause) /\ Len(q.cl) \in Nat
  BY QueryAssumption
<1>2. {m \in Creates(q.cl) : m > Len(q.cl)} = {}
  BY <1>1 DEF Creates
<1>3. NewAfter(q.cl, Len(q.cl)) = {} /\ Touched(q.cl, Len(q.cl)) = {}
  BY <1>2 DEF NewAfter, Touched
<1>4. at' = Len(q.cl) /\ out' = <<>> /\ bmap' = NoNodes /\ counter' = 0
  BY DEF Compile
<1>5. WalkNames'
  BY <1>3, <1>4, FS_EmptySet DEF WalkNames, NoNodes
<1> QED BY <1>4, <1>5 DEF ValueInv

\* Going inside a clause that creates nothing.
LEMMA InwardsNames ==
  ASSUME TypeInv, ValueInv, pc = "walk", at > 0, query.cl[at].c # "create",
         at' \in {0, Below(at)}, UNCHANGED <<store, query, pc, out, bmap, counter>>
  PROVE  ValueInv'
<1>1. at \in DOMAIN query.cl /\ at \in Nat
  BY Walking DEF TypeInv, TypeOK
<1>2. at' = 0 \/ at' = at - 1
  BY DEF Below
<1>3. CASE at' = 0
  BY <1>3 DEF ValueInv, WalkNames
<1>4. CASE at' = at - 1
  <2>0. \A m \in Creates(query.cl) : m \in Nat /\ m # at
    <3>1. query.cl \in Seq(Clause)
      BY Walking, QueryFacts DEF TypeInv
    <3> QED BY <3>1 DEF Creates
  <2>1. {m \in Creates(query.cl) : m > at} = {m \in Creates(query.cl) : m > at - 1}
    BY <1>1, <2>0
  <2>2. NewAfter(query.cl, at) = NewAfter(query.cl, at - 1) /\ Touched(query.cl, at) = Touched(query.cl, at - 1)
    BY <2>1 DEF NewAfter, Touched
  <2>3. {m \in Creates(query.cl) : m >= at + 1 /\ ContextOf(query.cl, m) = NoWhere}
          \subseteq {m \in Creates(query.cl) : m >= at /\ ContextOf(query.cl, m) = NoWhere}
    BY <1>1, <2>0
  <2>4. Names(query.cl, at + 1) \subseteq Names(query.cl, at)
    BY <2>3 DEF Names
  <2>5. (at - 1) + 1 = at
    BY <1>1
  <2> QED BY <1>4, <2>2, <2>4, <2>5 DEF ValueInv, WalkNames
<1> QED BY <1>2, <1>3, <1>4

\* The nodes a CREATE is the first to name are counted once.
LEMMA Counted ==
  ASSUME NEW q \in Seq(Clause), NEW i \in Creates(q)
  PROVE  /\ IsFiniteSet(NewAt(q, i))
         /\ Cardinality(NewAfter(q, i)) + Cardinality(NewAt(q, i)) = Cardinality(NewAfter(q, i - 1))
         /\ Touched(q, i - 1) = Touched(q, i) \cup q[i].g.node
         /\ Names(q, i + 1) \subseteq Names(q, i)
         /\ ContextOf(q, i) = NoWhere => Given(q, i) \subseteq Names(q, i)
<1>1. i \in DOMAIN q /\ i \in Nat /\ Creates(q) \subseteq Nat
  BY DEF Creates
<1>2. {m \in Creates(q) : m > i - 1} = {m \in Creates(q) : m > i} \cup {i}
  BY <1>1
<1>3. NewAfter(q, i - 1) = NewAfter(q, i) \cup NewAt(q, i)
  BY <1>2 DEF NewAfter
<1>4. Touched(q, i - 1) = Touched(q, i) \cup q[i].g.node
  BY <1>2 DEF Touched
<1>5. NewAfter(q, i) \cap NewAt(q, i) = {}
  BY DEF NewAfter, NewAt
<1>6. \A j \in Creates(q) : NewAt(q, j) \subseteq Var
  <2> SUFFICES ASSUME NEW j \in Creates(q) PROVE NewAt(q, j) \subseteq Var
    OBVIOUS
  <2>1. q[j] \in Clause /\ q[j].c = "create"
    BY DEF Creates
  <2>2. q[j].g \in Graph(Var)
    BY <2>1 DEF Clause
  <2> QED BY <2>2 DEF NewAt, Graph
<1>7. NewAfter(q, i) \subseteq Var
  BY <1>6 DEF NewAfter
<1>8. IsFiniteSet(NewAt(q, i)) /\ IsFiniteSet(NewAfter(q, i))
  BY <1>6, <1>7, VarAssumption, FS_Subset
<1>9. Cardinality(NewAfter(q, i)) + Cardinality(NewAt(q, i)) = Cardinality(NewAfter(q, i - 1))
  <2> DEFINE A == NewAfter(q, i)
             B == NewAt(q, i)
  <2>1. IsFiniteSet(A) /\ IsFiniteSet(B) /\ A \cap B = {} /\ NewAfter(q, i - 1) = A \cup B
    BY <1>3, <1>5, <1>8
  <2> HIDE DEF A, B
  <2>2. Cardinality(A \cup B) = Cardinality(A) + Cardinality(B) - Cardinality(A \cap B)
    BY <2>1, FS_Union
  <2>3. Cardinality(A) \in Nat /\ Cardinality(B) \in Nat /\ Cardinality(A \cap B) = 0
    BY <2>1, FS_CardinalityType, FS_EmptySet
  <2>4. Cardinality(A) + Cardinality(B) = Cardinality(A \cup B)
    BY <2>2, <2>3
  <2> QED BY <2>1, <2>4 DEF A, B
<1>10. Names(q, i + 1) \subseteq Names(q, i)
  <2>1. {m \in Creates(q) : m >= i + 1 /\ ContextOf(q, m) = NoWhere}
          \subseteq {m \in Creates(q) : m >= i /\ ContextOf(q, m) = NoWhere}
    BY <1>1
  <2> QED BY <2>1 DEF Names
<1>11. ContextOf(q, i) = NoWhere => Given(q, i) \subseteq Names(q, i)
  <2> SUFFICES ASSUME ContextOf(q, i) = NoWhere PROVE Given(q, i) \subseteq Names(q, i)
    OBVIOUS
  <2>1. i \in {m \in Creates(q) : m >= i /\ ContextOf(q, m) = NoWhere}
    BY <1>1
  <2> QED BY <2>1 DEF Names
<1> QED BY <1>4, <1>8, <1>9, <1>10, <1>11

\* A CREATE names its new nodes with the next IRIs, those of Slot.
LEMMA VisitCreateValues ==
  ASSUME ValuesAgree, TypeInv, ValueInv, VisitCreate
  PROVE  ValueInv'
<1> DEFINE q == query.cl
           cl == q[at]
           ctx == ContextOf(q, at)
           new == NewVars(cl, ctx, bmap)
<1>1. at \in DOMAIN q /\ query # NoQuery /\ at \in Nat /\ at > 0
  BY Walking DEF TypeInv, TypeOK, VisitCreate
<1>2. query \in Query /\ q \in Seq(Clause) /\ \A i \in DOMAIN q : Lowered(q, i)
  BY <1>1, QueryFacts DEF TypeInv, TypeOK
<1>3. cl \in Clause /\ cl.c = "create" /\ Closed(cl.g) /\ at \in Creates(q)
  BY <1>1, <1>2 DEF VisitCreate, Lowered, Creates
<1>4. ctx \in Where /\ SourcesBound(ctx)
  BY <1>1, <1>2, ContextOfFacts
<1>5. bmap \in NodeMap /\ OneName(bmap)
  BY DEF TypeInv, TypeOK
<1>6. PICK num \in [new -> DOMAIN StableIri] :
        Numbering(cl, new, num, counter) /\ bmap' = CreateMap(cl, ctx, bmap, num)
  BY DEF VisitCreate
<1>7. /\ out' = out \o CompileCreate(cl, ctx, bmap')
      /\ counter' = counter + Cardinality(new) /\ at' = Below(at)
      /\ UNCHANGED <<store, query, pc>>
  BY DEF VisitCreate
<1>8. /\ bmap.iri \subseteq Names(q, at + 1)
      /\ counter = Cardinality(NewAfter(q, at))
      /\ bmap.blank \cup bmap.row \cup {t[1] : t \in bmap.iri} = Touched(q, at)
  BY <1>1 DEF ValueInv, WalkNames, VisitCreate
<1>9. new = NewAt(q, at)
  <2>1. NewAt(q, at) = cl.g.node \ (WhereVars(ctx) \cup Touched(q, at))
    BY DEF NewAt, Touched
  <2>2. new = cl.g.node \ (WhereVars(ctx) \cup (bmap.blank \cup bmap.row \cup {t[1] : t \in bmap.iri}))
    BY DEF NewVars
  <2> QED BY <1>8, <2>1, <2>2
<1>10. \A v \in new : num[v] = Slot(q, at, v) /\ num[v] \in DOMAIN StableIri
  BY <1>6, <1>8, <1>9 DEF Numbering, Slot
<1> DEFINE named == IF ctx = NoWhere THEN new \ AnonVar ELSE {}
           known == bmap.blank \cup {t[1] : t \in bmap.iri}
<1>11. /\ bmap'.iri = bmap.iri \cup {<<v, StableIri[num[v]]>> : v \in named}
       /\ bmap'.blank = bmap.blank \cup (new \ named)
       /\ bmap'.row = bmap.row \cup ((cl.g.node \cap WhereVars(ctx)) \ known)
  BY <1>6 DEF CreateMap
<1>12. bmap'.iri \subseteq Names(q, at)
  <2>1. {<<v, StableIri[num[v]]>> : v \in named} \subseteq Names(q, at)
    <3> SUFFICES ASSUME NEW v \in named PROVE <<v, StableIri[num[v]]>> \in Names(q, at)
      OBVIOUS
    <3>1. ctx = NoWhere /\ v \in NewAt(q, at) \ AnonVar
      BY <1>9
    <3>2. num[v] = Slot(q, at, v) /\ Slot(q, at, v) \in DOMAIN StableIri
      BY <1>9, <1>10, <3>1
    <3>3. <<v, StableIri[Slot(q, at, v)]>> \in Given(q, at)
      BY <3>1, <3>2 DEF Given
    <3> QED BY <1>2, <1>3, <3>1, <3>2, <3>3, Counted
  <2> HIDE DEF named
  <2> QED BY <1>2, <1>3, <1>8, <1>11, <2>1, Counted
<1>13. bmap'.blank \cup bmap'.row \cup {t[1] : t \in bmap'.iri} = Touched(q, at) \cup cl.g.node
  <2> DEFINE dom == {t[1] : t \in bmap.iri}
  <2>1. {t[1] : t \in bmap'.iri} = dom \cup named
    <3> DEFINE given == {<<v, StableIri[num[v]]>> : v \in named}
    <3> HIDE DEF named
    <3>1. {t[1] : t \in given} = named
      <4>1. ASSUME NEW v \in named PROVE \E t \in given : t[1] = v
        <5>1. <<v, StableIri[num[v]]>> \in given /\ <<v, StableIri[num[v]]>>[1] = v
          OBVIOUS
        <5> HIDE DEF given
        <5> QED BY <5>1
      <4>2. \A t \in given : t[1] \in named
        OBVIOUS
      <4> HIDE DEF given
      <4> QED BY <4>1, <4>2
    <3>2. bmap'.iri = bmap.iri \cup given
      BY <1>11
    <3> HIDE DEF named, given
    <3> QED BY <3>1, <3>2
  <2>2. named \subseteq new /\ new \subseteq cl.g.node
    BY DEF NewVars
  <2>3. cl.g.node \subseteq WhereVars(ctx) \cup bmap.blank \cup bmap.row \cup dom \cup new
    BY DEF NewVars
  <2> HIDE DEF named, new, dom
  <2>4. Touched(q, at) = bmap.blank \cup bmap.row \cup dom /\ known = bmap.blank \cup dom
    BY <1>8 DEF dom
  <2> HIDE DEF known
  <2> QED BY <1>11, <2>1, <2>2, <2>3, <2>4
<1> HIDE DEF named, known
<1>14. bmap' \in NodeMap /\ OneName(bmap')
  <2> HIDE DEF cl, ctx
  <2> QED BY <1>3, <1>4, <1>5, <1>6, CreateMapFacts
<1>15. \A k \in DOMAIN CompileCreate(cl, ctx, bmap') : OneEach(CompileCreate(cl, ctx, bmap')[k])
  <2>1. ClauseAgrees(cl)
    BY <1>1, <1>2 DEF ValuesAgree
  <2>2. cl.g.node \subseteq bmap'.blank \cup bmap'.row \cup {t[1] : t \in bmap'.iri}
    BY <1>13
  <2> HIDE DEF ctx
  <2> QED BY <1>2, <1>3, <1>12, <1>14, <2>1, <2>2, CreateOne
<1>16. \A k \in DOMAIN out' : OneEach(out'[k])
  <2>1. CompileCreate(cl, ctx, bmap') \in Seq(Shaped)
    BY <1>3, <1>4, <1>14, CompileCreateFacts DEF Emits
  <2>2. out \in Seq(Shaped) /\ Len(out) \in Nat /\ DOMAIN out = 1 .. Len(out)
    BY DEF TypeInv
  <2> HIDE DEF cl, ctx
  <2> QED BY <1>7, <1>15, <2>1, <2>2, ConcatOne DEF ValueInv
<1>17. WalkNames'
  <2>1. at' = 0 \/ at' = at - 1
    BY <1>7 DEF Below
  <2>2. CASE at' = 0
    BY <2>2 DEF WalkNames
  <2>3. CASE at' = at - 1
    <3>1. (at - 1) + 1 = at
      BY <1>1
    <3>2. counter' = Cardinality(NewAfter(q, at - 1))
      BY <1>2, <1>3, <1>7, <1>8, <1>9, Counted
    <3>3. Touched(q, at - 1) = Touched(q, at) \cup cl.g.node
      BY <1>2, <1>3, Counted
    <3> QED BY <1>7, <1>12, <1>13, <2>3, <3>1, <3>2, <3>3 DEF WalkNames
  <2> QED BY <2>1, <2>2, <2>3
<1> QED BY <1>7, <1>16, <1>17 DEF ValueInv

\* A clause adds its statements after those of the clauses inside.
LEMMA EmitValues ==
  ASSUME ValuesAgree, TypeInv, ValueInv, Emit
  PROVE  ValueInv'
<1> DEFINE i == Head(waiting)
           list == OwnStatements(query.cl, i, bmap)
<1>1. i \in DOMAIN query.cl /\ query # NoQuery
  BY Walking DEF TypeInv, Emit
<1>2. query \in Query /\ query.cl \in Seq(Clause) /\ \A j \in DOMAIN query.cl : Lowered(query.cl, j)
  BY <1>1, QueryFacts DEF TypeInv, TypeOK
<1>3. bmap \in NodeMap /\ OwnSupported(query.cl, i, bmap)
  BY DEF TypeInv, TypeOK, Emit
<1>4. out' = out \o list /\ at = 0 /\ UNCHANGED <<store, query, pc, at, bmap, counter>>
  BY DEF Emit
<1> HIDE DEF i
<1>5. \A k \in DOMAIN list : OneEach(list[k])
  <2>1. ClauseAgrees(query.cl[i])
    BY <1>1, <1>2 DEF ValuesAgree
  <2> QED BY <1>1, <1>2, <1>3, <2>1, OwnOne
<1>6. list \in Seq(Shaped)
  BY <1>1, <1>2, <1>3, OwnFacts DEF Emits
<1>7. out \in Seq(Shaped) /\ Len(out) \in Nat /\ DOMAIN out = 1 .. Len(out)
  BY DEF TypeInv
<1> HIDE DEF list
<1>8. \A k \in DOMAIN out' : OneEach(out'[k])
  BY <1>4, <1>5, <1>6, <1>7, ConcatOne DEF ValueInv
<1> QED BY <1>4, <1>8 DEF ValueInv, WalkNames

\* A statement of the list runs.
LEMMA ExecuteValues ==
  ASSUME ValuesAgree, TypeInv, ValueInv, Execute
  PROVE  ValueInv'
<1>1. PICK alloc \in Allocations(out[ip], store) : store' = Apply(out[ip], store, alloc)
  BY DEF Execute
<1>2. ip \in DOMAIN out /\ out[ip] \in Shaped
  BY DEF TypeInv, TypeOK, Execute
<1>3. out[ip] \in Statement /\ EndsBound(out[ip]) /\ OneEach(out[ip])
  BY <1>2 DEF Shaped, ValueInv
<1>4. store \in Graph(Node) /\ Consistent(store)
  BY DEF TypeInv, TypeOK, ValueInv
<1>5. OnePer(NodeValues) /\ OnePer(RelValues)
  BY DEF ValuesAgree
<1>6. Consistent(store')
  BY <1>1, <1>3, <1>4, <1>5, ApplyKeeps
<1> QED BY <1>6 DEF ValueInv, WalkNames, Execute, compile

\* Every step, a failure and the query submitted again among them.
LEMMA NextValues == ValuesAgree /\ TypeInv /\ ValueInv /\ [Next]_vars => ValueInv'
<1> SUFFICES ASSUME ValuesAgree, TypeInv, ValueInv, [Next]_vars PROVE ValueInv'
  OBVIOUS
<1>1. CASE Submit
  BY <1>1, CompileValues DEF Submit
<1>2. CASE VisitCreate
  BY <1>2, VisitCreateValues
<1>3. CASE VisitWrite
  BY <1>3, InwardsNames DEF VisitWrite
<1>4. CASE VisitRead
  <2>1. query.cl[at].c # "create" /\ at' \in {0, Below(at)}
    BY <1>4 DEF VisitRead, IsWrite
  <2> QED BY <1>4, <2>1, InwardsNames DEF VisitRead
<1>5. CASE Emit
  BY <1>5, EmitValues
<1>6. CASE Compiled
  BY <1>6 DEF Compiled, compile, ValueInv, WalkNames
<1>7. CASE Unsupported
  BY <1>7 DEF Unsupported, ValueInv, WalkNames
<1>8. CASE Execute
  BY <1>8, ExecuteValues
<1>9. CASE Finish \/ Fail \/ GiveUp
  BY <1>9 DEF Finish, Fail, GiveUp, compile, ValueInv, WalkNames
<1>10. CASE Retry
  <2>1. query \in Query
    BY <1>10, QueryAssumption DEF Retry
  <2> QED BY <1>10, <2>1, CompileValues DEF Retry
<1>11. CASE UNCHANGED vars
  BY <1>11 DEF vars, compile, ValueInv, WalkNames
<1> QED
  BY <1>1, <1>2, <1>3, <1>4, <1>5, <1>6, <1>7, <1>8, <1>9, <1>10, <1>11 DEF Next

\* Where the values of the queries agree, no node and no relationship ever has
\* two values of one property: compile_set_items deletes the value it replaces
\* in the same statement, compile_create gives a node it names again the same
\* value however often the query runs (stable IRIs start at 0 each time), and
\* compile_merge inserts what the pattern lacks.  It holds after every single
\* statement, wherever a list is cut short and whatever is submitted again.
THEOREM StaysSingle ==
  ASSUME ValuesAgree
  PROVE  Spec => []SingleValued
<1>1. TypeInv /\ ValueInv => SingleValued
  BY SingleFacts DEF TypeInv, TypeOK, ValueInv, Consistent, SingleValued
<1>2. Init => TypeInv /\ ValueInv
  BY InitType, InitValues
<1>3. TypeInv /\ ValueInv /\ [Next]_vars => TypeInv' /\ ValueInv'
  BY NextType, NextValues
<1> QED BY <1>1, <1>2, <1>3, PTL DEF Spec
=============================================================================
