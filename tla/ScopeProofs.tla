----------------------------- MODULE ScopeProofs -----------------------------
(***************************************************************************)
(* For every set of names and every set of clauses, and a query of any     *)
(* length: as long as nothing is wrong, the names and kinds the semantic   *)
(* checks keep are those of the scope openCypher gives the query, a clause *)
(* that is valid there is accepted, and one with a fault is refused.       *)
(***************************************************************************)
EXTENDS ScopeSession, TLAPS

States == [kinds : [Names -> Kinds], bound : SUBSET Names, matched : BOOLEAN]
Scopes == [Names -> Types]

\* What the checks know fits the scope.
Fits(s, sc, read) ==
  /\ s.bound = Present(sc)
  /\ \A n \in Names : s.kinds[n] # "none" => n \in s.bound
  /\ \A n \in Present(sc) : sc[n] \in Means(s.kinds[n], read)

-----------------------------------------------------------------------------
(* One clause. *)

LEMMA FitsKnown ==
  ASSUME NEW s \in States, NEW sc \in Scopes, NEW read, Fits(s, sc, read)
  PROVE  s.bound = Present(sc) /\ Known(s) = Present(sc)
BY DEF Fits, Known, Present, States, Scopes

LEMMA TypedType ==
  ASSUME NEW sc \in Scopes, NEW ns \in SUBSET Names, NEW type \in Types
  PROVE  Typed(sc, ns, type) \in Scopes
BY DEF Typed, Scopes

LEMMA MatchFits ==
  ASSUME NEW c \in Clauses, c.op = "match", NEW s \in States, NEW sc \in Scopes, NEW read
  PROVE  /\ AfterMatch(c, s) \in States /\ ScopeInMatch(c, sc) \in Scopes
         /\ Fits(s, sc, read) => Fits(AfterMatch(c, s), ScopeInMatch(c, sc), read)
<1>1. c.paths \cup c.nodes \cup Links(c) \subseteq Names
  BY ClauseAssumption
<1>2. AfterMatch(c, s) \in States
  BY <1>1 DEF AfterMatch, KindsInMatch, WithPaths, States, Kinds
<1>3. ScopeInMatch(c, sc) \in Scopes
  BY <1>1 DEF ScopeInMatch, Typed, Scopes, Types, Links
<1>4. \A n \in Names :
        /\ ScopeInMatch(c, sc)[n] = IF n \in c.nodes THEN "node" ELSE IF n \in c.rels THEN "rel"
                                    ELSE IF n \in c.walks THEN "rels" ELSE IF n \in c.paths THEN "path" ELSE sc[n]
        /\ AfterMatch(c, s).kinds[n] = IF n \in c.nodes THEN "Node" ELSE IF n \in Links(c) THEN "Rel"
                                       ELSE IF n \in c.paths THEN "Path" ELSE s.kinds[n]
  BY <1>1 DEF ScopeInMatch, Typed, Scopes, AfterMatch, KindsInMatch, WithPaths, States
<1>5. ASSUME Fits(s, sc, read)
      PROVE  Fits(AfterMatch(c, s), ScopeInMatch(c, sc), read)
  <2>1. AfterMatch(c, s).bound = s.bound \cup c.paths \cup c.nodes \cup Links(c)
    BY DEF AfterMatch
  <2>2. Present(ScopeInMatch(c, sc)) = Present(sc) \cup c.paths \cup c.nodes \cup Links(c)
    BY <1>1, <1>4 DEF Present, Links
  <2>3. AfterMatch(c, s).bound = Present(ScopeInMatch(c, sc))
    BY <1>5, <2>1, <2>2 DEF Fits
  <2>4. \A n \in Names : AfterMatch(c, s).kinds[n] # "none" => n \in AfterMatch(c, s).bound
    BY <1>4, <1>5, <2>1 DEF Fits
  <2>5. \A n \in Present(ScopeInMatch(c, sc)) :
          ScopeInMatch(c, sc)[n] \in Means(AfterMatch(c, s).kinds[n], read)
    BY <1>4, <1>5, <2>2 DEF Fits, Means, Present, Links
  <2> QED BY <2>3, <2>4, <2>5 DEF Fits
<1> QED BY <1>2, <1>3, <1>5

LEMMA NameOfOne ==
  ASSUME NEW e, NEW t, e.terms = {t}
  PROVE  TheName(e) = t.name
<1> DEFINE term == CHOOSE x \in e.terms : TRUE
<1>1. term \in e.terms
  OBVIOUS
<1> HIDE DEF term
<1>2. term = t
  BY <1>1
<1> QED BY <1>2 DEF TheName, term

\* A projected name has the type and the kind of the item that makes it.
LEMMA ItemNames ==
  ASSUME NEW c \in Clauses, c.op = "with", NEW i \in DOMAIN c.items, c.items[i].expr.top = "name"
  PROVE  \E t : c.items[i].expr.terms = {t} /\ t.name \in Names
<1>1. c.items[i].expr \in ExprsOf(c)
  BY DEF ExprsOf, Exprs
<1> QED BY <1>1, ExpressionAssumption DEF IsTerm

LEMMA ItemTyped ==
  ASSUME NEW c \in Clauses, c.op = "with", ~c.star, NEW sc \in Scopes, WithFaults(c, sc) = {},
         NEW i \in DOMAIN c.items
  PROVE  ItemType(c.items[i].expr, sc) \in Types \ {"absent"}
<1> DEFINE e == c.items[i].expr
<1>1. \A t \in e.terms : t.name \in Present(sc)
  <2>1. "NotLookedAt" \notin WithFaults(c, sc)
    OBVIOUS
  <2>2. ~ \E x \in Exprs(c) : \E t \in x.terms : t.name \notin Present(sc)
    BY <2>1 DEF WithFaults, Fault
  <2> QED BY <2>2 DEF Exprs
<1>2. CASE e.top = "name"
  <2>1. PICK t : e.terms = {t} /\ t.name \in Names
    BY <1>2, ItemNames
  <2>2. {sc[u.name] : u \in e.terms} = {sc[t.name]} /\ t.name \in Present(sc)
    BY <1>1, <2>1
  <2>3. ItemType(e, sc) = sc[t.name]
    BY <1>2, <2>2 DEF ItemType
  <2> QED BY <2>2, <2>3 DEF Present, Scopes
<1>3. CASE e.top # "name"
  BY <1>3 DEF ItemType, Types
<1> QED BY <1>2, <1>3

LEMMA ItemKinds ==
  ASSUME NEW c \in Clauses, c.op = "with", NEW s \in States, NEW i \in DOMAIN c.items
  PROVE  ItemKind(c.items[i].expr, s) \in Kinds
<1> DEFINE e == c.items[i].expr
<1>1. CASE e.top = "name"
  <2>1. PICK t : e.terms = {t} /\ t.name \in Names
    BY <1>1, ItemNames
  <2>2. TheName(e) = t.name
    BY <2>1, NameOfOne
  <2> QED BY <1>1, <2>1, <2>2 DEF ItemKind, States
<1>2. CASE e.top # "name"
  BY <1>2 DEF ItemKind, Kinds
<1> QED BY <1>1, <1>2

LEMMA ItemFits ==
  ASSUME NEW c \in Clauses, c.op = "with", ~c.star, NEW s \in States, NEW sc \in Scopes, NEW read,
         Fits(s, sc, read), WithFaults(c, sc) = {}, NEW i \in DOMAIN c.items
  PROVE  ItemType(c.items[i].expr, sc) \in Means(ItemKind(c.items[i].expr, s), read)
<1> DEFINE e == c.items[i].expr
<1>1. CASE e.top = "name"
  <2>1. PICK t : e.terms = {t} /\ t.name \in Names
    BY <1>1, ItemNames
  <2>2. t.name \in Present(sc)
    <3>1. ~ \E x \in Exprs(c) : \E u \in x.terms : u.name \notin Present(sc)
      BY DEF WithFaults, Fault
    <3>2. e \in Exprs(c)
      BY DEF Exprs
    <3>3. \A u \in e.terms : u.name \in Present(sc)
      BY <3>1, <3>2
    <3> QED BY <2>1, <3>3
  <2>3. ItemType(e, sc) = sc[t.name]
    <3>1. {sc[u.name] : u \in e.terms} = {sc[t.name]}
      BY <2>1
    <3> QED BY <1>1, <3>1 DEF ItemType
  <2>4. ItemKind(e, s) = s.kinds[t.name]
    <3>1. TheName(e) = t.name
      BY <2>1, NameOfOne
    <3> QED BY <1>1, <3>1 DEF ItemKind
  <2> QED BY <2>2, <2>3, <2>4 DEF Fits
<1>2. CASE e.top = "names"
  BY <1>2 DEF ItemType, ItemKind, Means
<1>3. CASE e.top \in {"literal", "map", "list", "maps"}
  BY <1>3 DEF ItemType, ItemKind, Means
<1>4. CASE e.top \notin {"name", "names", "literal", "map", "list", "maps"}
  BY <1>4 DEF ItemType, ItemKind, Means
<1> QED BY <1>1, <1>2, <1>3, <1>4

\* No two items of a sound WITH have one name.
LEMMA OneItem ==
  ASSUME NEW c \in Clauses, c.op = "with", ~c.star, NEW s \in States, NEW sc \in Scopes, WithFaults(c, sc) = {},
         NEW i \in DOMAIN c.items
  PROVE  /\ (CHOOSE j \in DOMAIN c.items : NameOf(c.items[j]) = NameOf(c.items[i])) = i
         /\ KindAfter(c, s, NameOf(c.items[i])) = ItemKind(c.items[i].expr, s)
<1>1. \A j \in DOMAIN c.items : NameOf(c.items[j]) = NameOf(c.items[i]) => j = i
  BY DEF WithFaults, Fault
<1>2. i \in Nat
  BY ClauseAssumption
<1>3. (CHOOSE j \in DOMAIN c.items : NameOf(c.items[j]) = NameOf(c.items[i])) = i
  BY <1>1
<1> DEFINE of == {j \in DOMAIN c.items : NameOf(c.items[j]) = NameOf(c.items[i]) /\ ItemKind(c.items[j].expr, s) # "none"}
           latest == {j \in of : \A k \in of : k <= j}
<1>4. KindAfter(c, s, NameOf(c.items[i])) =
        IF latest = {} THEN "none" ELSE ItemKind(c.items[CHOOSE j \in latest : TRUE].expr, s)
  BY DEF KindAfter
<1>5. CASE ItemKind(c.items[i].expr, s) = "none"
  <2>1. latest = {}
    BY <1>1, <1>5
  <2> QED BY <1>3, <1>4, <1>5, <2>1
<1>6. CASE ItemKind(c.items[i].expr, s) # "none"
  <2>1. latest = {i}
    BY <1>1, <1>2, <1>6
  <2> QED BY <1>3, <1>4, <2>1
<1> QED BY <1>5, <1>6

\* The kinds after any WITH are kinds, and those of the names it projects.
LEMMA KindsOfWith ==
  ASSUME NEW c \in Clauses, c.op = "with", NEW s \in States, NEW n \in Names
  PROVE  KindAfter(c, s, n) \in Kinds /\ (KindAfter(c, s, n) # "none" => n \in Projected(c))
<1> DEFINE of == {j \in DOMAIN c.items : NameOf(c.items[j]) = n /\ ItemKind(c.items[j].expr, s) # "none"}
           latest == {j \in of : \A k \in of : k <= j}
<1>1. KindAfter(c, s, n) = IF latest = {} THEN "none" ELSE ItemKind(c.items[CHOOSE j \in latest : TRUE].expr, s)
  BY DEF KindAfter
<1>2. CASE latest = {}
  BY <1>1, <1>2 DEF Kinds
<1>3. CASE latest # {}
  <2>1. PICK i : i \in latest /\ KindAfter(c, s, n) = ItemKind(c.items[i].expr, s)
    BY <1>1, <1>3
  <2> QED BY <2>1, ItemKinds DEF Projected
<1> QED BY <1>2, <1>3

LEMMA WithFits ==
  ASSUME NEW c \in Clauses, c.op = "with", NEW s \in States, NEW sc \in Scopes, NEW read
  PROVE  /\ WithErrors(c, s) = {} => AfterWith(c, s) \in States
         /\ WithFaults(c, sc) = {} => ScopeAfterWith(c, sc) \in Scopes
         /\ WithFaults(c, sc) = {} /\ WithErrors(c, s) = {} /\ Fits(s, sc, read) =>
              Fits(AfterWith(c, s), ScopeAfterWith(c, sc), read)
<1>1. CASE c.star
  BY <1>1 DEF AfterWith, ScopeAfterWith
<1>2. CASE ~c.star
  <2>1. ASSUME WithErrors(c, s) = {}
        PROVE  Projected(c) \subseteq Names
    <3>1. NoName \notin Projected(c)
      BY <1>2, <2>1 DEF WithErrors, Refused, Unnamed
    <3> QED BY <3>1, ClauseAssumption
  <2>2. ASSUME WithErrors(c, s) = {}
        PROVE  AfterWith(c, s) \in States
    BY <1>2, <2>1, <2>2, KindsOfWith DEF AfterWith, States
  <2>3. ASSUME WithFaults(c, sc) = {}, NEW n \in Names
        PROVE  /\ n \notin Projected(c) => ScopeAfterWith(c, sc)[n] = "absent"
               /\ n \in Projected(c) =>
                    \E i \in DOMAIN c.items :
                      /\ NameOf(c.items[i]) = n
                      /\ ScopeAfterWith(c, sc)[n] = ItemType(c.items[i].expr, sc)
                      /\ KindAfter(c, s, n) = ItemKind(c.items[i].expr, s)
    <3>1. CASE n \notin Projected(c)
      BY <1>2, <3>1 DEF ScopeAfterWith
    <3>2. CASE n \in Projected(c)
      <4>1. PICK i \in DOMAIN c.items : NameOf(c.items[i]) = n
        BY <3>2 DEF Projected
      <4>2. (CHOOSE j \in DOMAIN c.items : NameOf(c.items[j]) = n) = i /\ KindAfter(c, s, n) = ItemKind(c.items[i].expr, s)
        BY <1>2, <2>3, <4>1, OneItem
      <4>3. ScopeAfterWith(c, sc)[n] = ItemType(c.items[i].expr, sc)
        BY <1>2, <3>2, <4>2 DEF ScopeAfterWith
      <4> QED BY <3>2, <4>1, <4>2, <4>3
    <3> QED BY <3>1, <3>2
  <2>4. ASSUME WithFaults(c, sc) = {}
        PROVE  ScopeAfterWith(c, sc) \in Scopes
    <3>1. \A n \in Names : ScopeAfterWith(c, sc)[n] \in Types
      BY <1>2, <2>3, <2>4, ItemTyped DEF Types
    <3>2. ScopeAfterWith(c, sc) = [n \in Names |-> ScopeAfterWith(c, sc)[n]]
      BY <1>2 DEF ScopeAfterWith
    <3> QED BY <3>1, <3>2 DEF Scopes
  <2>5. ASSUME WithFaults(c, sc) = {}, WithErrors(c, s) = {}, Fits(s, sc, read)
        PROVE  Fits(AfterWith(c, s), ScopeAfterWith(c, sc), read)
    <3>1. Present(ScopeAfterWith(c, sc)) = Projected(c)
      BY <1>2, <2>1, <2>3, <2>5, ItemTyped DEF Present
    <3>2. AfterWith(c, s).bound = Projected(c) /\ \A n \in Names : AfterWith(c, s).kinds[n] = KindAfter(c, s, n)
      BY <1>2 DEF AfterWith, States
    <3>3. \A n \in Projected(c) : ScopeAfterWith(c, sc)[n] \in Means(AfterWith(c, s).kinds[n], read)
      <4> TAKE n \in Projected(c)
      <4>1. n \in Names
        BY <2>1, <2>5
      <4>2. PICK i \in DOMAIN c.items : /\ ScopeAfterWith(c, sc)[n] = ItemType(c.items[i].expr, sc)
                                        /\ KindAfter(c, s, n) = ItemKind(c.items[i].expr, s)
        BY <2>3, <2>5, <4>1
      <4> QED BY <1>2, <2>5, <3>2, <4>1, <4>2, ItemFits
    <3> QED BY <3>1, <3>2, <3>3, KindsOfWith DEF Fits
  <2> QED BY <2>2, <2>4, <2>5
<1> QED BY <1>1, <1>2

LEMMA UnwindFits ==
  ASSUME NEW c \in Clauses, c.op = "unwind", NEW s \in States, NEW sc \in Scopes, NEW read
  PROVE  /\ AfterUnwind(c, s) \in States /\ Typed(sc, {c.name}, "any") \in Scopes
         /\ Fits(s, sc, read) /\ c.name \notin Present(sc) => Fits(AfterUnwind(c, s), Typed(sc, {c.name}, "any"), read)
<1>1. c.name \in Names
  BY ClauseAssumption
<1>2. AfterUnwind(c, s) \in States /\ AfterUnwind(c, s).bound = s.bound \cup {c.name} /\ AfterUnwind(c, s).kinds = s.kinds
  BY <1>1 DEF AfterUnwind, States
<1>3. /\ Typed(sc, {c.name}, "any") \in Scopes
      /\ \A n \in Names : Typed(sc, {c.name}, "any")[n] = IF n = c.name THEN "any" ELSE sc[n]
  BY <1>1 DEF Typed, Scopes, Types
<1>4. ASSUME Fits(s, sc, read), c.name \notin Present(sc)
      PROVE  Fits(AfterUnwind(c, s), Typed(sc, {c.name}, "any"), read)
  <2>1. Present(Typed(sc, {c.name}, "any")) = Present(sc) \cup {c.name}
    BY <1>1, <1>3 DEF Present
  <2>2. s.kinds[c.name] = "none"
    BY <1>1, <1>4 DEF Fits
  <2>3. \A n \in Present(sc) \cup {c.name} : Typed(sc, {c.name}, "any")[n] \in Means(s.kinds[n], read)
    <3> TAKE n \in Present(sc) \cup {c.name}
    <3>1. CASE n = c.name
      BY <1>1, <1>3, <2>2, <3>1 DEF Means
    <3>2. CASE n # c.name
      BY <1>3, <1>4, <3>2 DEF Fits, Present
    <3> QED BY <3>1, <3>2
  <2> QED BY <1>2, <1>4, <2>1, <2>3 DEF Fits
<1> QED BY <1>2, <1>3, <1>4

\* A created name has no kind, and is a node or a relationship.
LEMMA CreateFits ==
  ASSUME NEW c \in Clauses, c.op \in {"create", "merge"}, NEW s \in States, NEW sc \in Scopes, NEW read
  PROVE  /\ AfterCreate(c, s) \in States /\ Made(c, sc) \in Scopes
         /\ Fits(s, sc, read) /\ c.paths = {} /\ "create" \in read => Fits(AfterCreate(c, s), Made(c, sc), read)
<1>1. c.paths \cup Introduced(c) \subseteq Names
  BY ClauseAssumption
<1> DEFINE links == {n \in Introduced(c) \ Present(sc) : \E i \in DOMAIN c.elems : c.elems[i].rel /\ c.elems[i].name = n}
<1>2. AfterCreate(c, s) = [kinds |-> s.kinds, bound |-> s.bound \cup Introduced(c), matched |-> s.matched]
  BY DEF AfterCreate, States
<1>3. AfterCreate(c, s) \in States
  BY <1>1, <1>2 DEF States
<1>4. \A n \in Names :
        Made(c, sc)[n] = IF n \in c.paths THEN "path" ELSE IF n \in links THEN "rel"
                         ELSE IF n \in Introduced(c) \ Present(sc) THEN "node" ELSE sc[n]
  BY DEF Made, Typed, Scopes
<1>5. Made(c, sc) = [n \in Names |-> Made(c, sc)[n]]
  BY DEF Made, Typed
<1>6. Made(c, sc) \in Scopes
  BY <1>4, <1>5 DEF Scopes, Types
<1>7. ASSUME Fits(s, sc, read), c.paths = {}, "create" \in read
      PROVE  Fits(AfterCreate(c, s), Made(c, sc), read)
  <2>1. Present(Made(c, sc)) = Present(sc) \cup Introduced(c)
    BY <1>1, <1>4, <1>7 DEF Present
  <2>2. \A n \in Present(Made(c, sc)) : Made(c, sc)[n] \in Means(s.kinds[n], read)
    BY <1>1, <1>4, <1>7, <2>1 DEF Fits, Means, Present
  <2>3. AfterCreate(c, s).bound = Present(sc) \cup Introduced(c) /\ AfterCreate(c, s).kinds = s.kinds
    BY <1>2, <1>7 DEF Fits
  <2>4. \A n \in Names : s.kinds[n] # "none" => n \in Present(sc)
    BY <1>7 DEF Fits
  <2> QED BY <2>1, <2>2, <2>3, <2>4 DEF Fits
<1> QED BY <1>3, <1>6, <1>7

\* In a sound pattern a name that is a relationship is one where it is first met.
LEMMA FirstOfSound ==
  ASSUME NEW c \in Clauses, c.op \in {"create", "merge"}, NEW sc \in Scopes, PatternFaults(c, sc) = {},
         NEW n \in Names
  PROVE  FirstIsRel(c, n) <=> \E i \in DOMAIN c.elems : c.elems[i].rel /\ c.elems[i].name = n
<1>1. ~ \E i \in {j \in DOMAIN c.elems : c.elems[j].rel} : c.elems[i].name \in Present(sc) \cup Earlier(c, i)
  BY DEF PatternFaults, Fault
<1> QED BY <1>1 DEF FirstIsRel

LEMMA MergeFits ==
  ASSUME NEW c \in Clauses, c.op = "merge", NEW s \in States, NEW sc \in Scopes, NEW read
  PROVE  /\ AfterMerge(c, s) \in States /\ Made(c, sc) \in Scopes
         /\ Fits(s, sc, read) /\ MergeFaults(c, sc) = {} => Fits(AfterMerge(c, s), Made(c, sc), read)
<1>1. c.paths \cup Introduced(c) \subseteq Names
  BY ClauseAssumption
<1> DEFINE fresh == Introduced(c) \ Present(sc)
           links == {n \in fresh : \E i \in DOMAIN c.elems : c.elems[i].rel /\ c.elems[i].name = n}
<1>2. /\ AfterMerge(c, s).bound = s.bound \cup Introduced(c) \cup c.paths
      /\ \A n \in Names :
           AfterMerge(c, s).kinds[n] = IF n \in c.paths THEN "Path"
                                       ELSE IF n \in Introduced(c) \ Known(s) THEN (IF FirstIsRel(c, n) THEN "Rel" ELSE "Node")
                                       ELSE s.kinds[n]
  BY DEF AfterMerge, States
<1>3. AfterMerge(c, s) \in States
  BY <1>1 DEF AfterMerge, States, Kinds
<1>4. \A n \in Names :
        Made(c, sc)[n] = IF n \in c.paths THEN "path" ELSE IF n \in links THEN "rel"
                         ELSE IF n \in fresh THEN "node" ELSE sc[n]
  BY DEF Made, Typed, Scopes
<1>5. Made(c, sc) \in Scopes
  BY CreateFits
<1>6. ASSUME Fits(s, sc, read), MergeFaults(c, sc) = {}
      PROVE  Fits(AfterMerge(c, s), Made(c, sc), read)
  <2>1. Present(Made(c, sc)) = Present(sc) \cup Introduced(c) \cup c.paths
    BY <1>1, <1>4 DEF Present
  <2>2. PatternFaults(c, sc) = {}
    BY <1>6 DEF MergeFaults
  <2>3. Known(s) = Present(sc)
    BY <1>6, FitsKnown
  <2>4. \A n \in fresh : n \in links <=> FirstIsRel(c, n)
    BY <1>1, <2>2, FirstOfSound
  <2>5. \A n \in Present(Made(c, sc)) : Made(c, sc)[n] \in Means(AfterMerge(c, s).kinds[n], read)
    <3> TAKE n \in Present(Made(c, sc))
    <3>1. n \in Names
      BY DEF Present
    <3>2. CASE n \in c.paths
      BY <1>2, <1>4, <3>1, <3>2 DEF Means
    <3>3. CASE n \notin c.paths /\ n \in fresh
      BY <1>2, <1>4, <2>3, <2>4, <3>1, <3>3 DEF Means
    <3>4. CASE n \notin c.paths /\ n \notin fresh
      <4>1. n \in Present(sc)
        BY <2>1, <3>4
      <4>2. Made(c, sc)[n] = sc[n] /\ AfterMerge(c, s).kinds[n] = s.kinds[n]
        BY <1>2, <1>4, <2>3, <3>1, <3>4
      <4> QED BY <1>6, <4>1, <4>2 DEF Fits
    <3> QED BY <3>2, <3>3, <3>4
  <2>6. \A n \in Names : AfterMerge(c, s).kinds[n] # "none" => n \in AfterMerge(c, s).bound
    BY <1>2, <1>6 DEF Fits
  <2> QED BY <1>2, <1>6, <2>1, <2>5, <2>6 DEF Fits
<1> QED BY <1>3, <1>5, <1>6

-----------------------------------------------------------------------------
(* Every query. *)

ScopeInv ==
  /\ ScopeTypeOK /\ scope \in Scopes
  /\ Sound => Fits(seen, scope, ops)

\* A clause that is read: what it leaves is a state of the checks and a scope,
\* and the two fit where they did before.
LEMMA ReadOn ==
  ASSUME ScopeInv, NEW c \in Clauses, NEW STATE errors, NEW STATE then, NEW STATE wrong, NEW STATE after,
         Clause(c, errors, then, wrong, after), alls' \subseteq BOOLEAN,
         errors = {} => then \in States, wrong = {} => after \in Scopes,
         ASSUME errors = {}, wrong = {}, Fits(seen, scope, ops'), c.op \notin {"union", "call"},
                "path" \notin ops'
         PROVE  Fits(then, after, ops')
  PROVE  ScopeInv'
<1>1. seen' \in States /\ scope' \in Scopes
  BY DEF Clause, ScopeInv, ScopeTypeOK, States
<1>2. length' \in 0 .. MaxClauses
  BY LengthAssumption DEF Clause, Follows, ScopeInv, ScopeTypeOK
<1>3. ScopeTypeOK'
  BY <1>1, <1>2 DEF ScopeTypeOK, Clause, States
<1>4. ASSUME Sound'
      PROVE  Fits(seen', scope', ops')
  <2>1. errors = {} /\ wrong = {} /\ seen' = then /\ scope' = after
    BY <1>4 DEF Sound, Clause
  <2>2. ops \subseteq ops' /\ c.op \in ops' /\ ops' \cap {"union", "call", "path"} = {}
    BY <1>4 DEF Sound, Followed, Clause
  <2>3. Sound
    BY <2>2 DEF Sound, Followed, Clause, Follows
  <2>4. seen \in States /\ scope \in Scopes
    BY DEF ScopeInv, ScopeTypeOK, States
  <2>5. Fits(seen, scope, ops')
    <3>1. Fits(seen, scope, ops)
      BY <2>3 DEF ScopeInv
    <3> QED BY <2>2, <3>1 DEF Fits, Means
  <2> QED BY <2>1, <2>2, <2>5
<1> QED BY <1>1, <1>3, <1>4 DEF ScopeInv

LEMMA ScopeInit == Init => ScopeInv
<1> SUFFICES ASSUME Init PROVE ScopeInv
  OBVIOUS
<1>1. seen \in States /\ seen.bound = {} /\ \A n \in Names : seen.kinds[n] = "none"
  BY DEF Init, Nothing, States, Kinds
<1>2. scope \in Scopes /\ Present(scope) = {}
  BY DEF Init, Scopes, Types, Present
<1>3. ScopeTypeOK
  BY <1>1, LengthAssumption DEF Init, ScopeTypeOK, States
<1> QED BY <1>1, <1>2, <1>3 DEF ScopeInv, Fits

LEMMA ScopeStep == ScopeInv /\ [Next]_vars => ScopeInv'
<1> SUFFICES ASSUME ScopeInv, [Next]_vars PROVE ScopeInv'
  OBVIOUS
<1>1. seen \in States /\ scope \in Scopes /\ alls \subseteq BOOLEAN
  BY DEF ScopeInv, ScopeTypeOK, States
<1>2. CASE Match
  <2>1. PICK c \in Clauses :
          /\ c.op = "match" /\ alls' = alls
          /\ Clause(c, MatchErrors(c, seen), AfterMatch(c, seen), MatchFaults(c, scope), ScopeInMatch(c, scope))
    BY <1>2 DEF Match, Plain
  <2> QED BY <1>1, <2>1, MatchFits, ReadOn
<1>3. CASE With
  <2>1. PICK c \in Clauses :
          /\ c.op = "with" /\ alls' = alls
          /\ Clause(c, WithErrors(c, seen), AfterWith(c, seen), WithFaults(c, scope), ScopeAfterWith(c, scope))
    BY <1>3 DEF With
  <2> QED BY <1>1, <2>1, WithFits, ReadOn
<1>4. CASE Return
  <2>1. PICK c \in Clauses :
          c.op = "return" /\ alls' = alls /\ Clause(c, ReturnErrors(c, seen), seen, ReturnFaults(c, scope), scope)
    BY <1>4 DEF Return
  <2> QED BY <1>1, <2>1, ReadOn
<1>5. CASE Unwind
  <2>1. PICK c \in Clauses :
          /\ c.op = "unwind" /\ alls' = alls
          /\ Clause(c, {}, AfterUnwind(c, seen), Fault("NotLookedAt", c.name \in Present(scope)), Typed(scope, {c.name}, "any"))
    BY <1>5 DEF Unwind, Plain
  <2>2. Fault("NotLookedAt", c.name \in Present(scope)) = {} => c.name \notin Present(scope)
    BY DEF Fault
  <2> QED BY <1>1, <2>1, <2>2, UnwindFits, ReadOn
<1>6. CASE Delete
  <2>1. PICK c \in Clauses :
          c.op = "delete" /\ alls' = alls /\ Clause(c, DeleteErrors(c, seen), seen, DeleteFaults(c, scope), scope)
    BY <1>6 DEF Delete, Plain
  <2> QED BY <1>1, <2>1, ReadOn
<1>7. CASE Set
  <2>1. PICK c \in Clauses :
          c.op = "set" /\ alls' = alls /\ Clause(c, SetErrors(c, seen), seen, SetFaults(c, scope), scope)
    BY <1>7 DEF Set, Plain
  <2> QED BY <1>1, <2>1, ReadOn
<1>8. CASE Create
  <2>1. PICK c \in Clauses :
          /\ c.op = "create" /\ alls' = alls
          /\ Clause(c, CreateErrors(c, seen), AfterCreate(c, seen), CreateFaults(c, scope), Made(c, scope))
    BY <1>8 DEF Create, Plain
  <2>2. "path" \notin ops' => c.paths = {}
    BY <2>1 DEF Clause
  <2>3. "create" \in ops'
    BY <2>1 DEF Clause
  <2> QED BY <1>1, <2>1, <2>2, <2>3, CreateFits, ReadOn
<1>9. CASE Merge
  <2>1. PICK c \in Clauses :
          /\ c.op = "merge" /\ alls' = alls
          /\ Clause(c, MergeErrors(c, seen), AfterMerge(c, seen), MergeFaults(c, scope), Made(c, scope))
    BY <1>9 DEF Merge, Plain
  <2> QED BY <1>1, <2>1, MergeFits, ReadOn
<1>10. CASE Call
  <2>1. PICK c \in Clauses :
          /\ c.op = "call" /\ alls' = alls
          /\ Clause(c, {}, seen, Fault("NotLookedAt", c.yields \cap Present(scope) # {}), Typed(scope, c.yields, "any"))
    BY <1>10 DEF Call, Plain
  <2>2. Typed(scope, c.yields, "any") \in Scopes
    BY <1>1, <2>1, ClauseAssumption DEF Typed, Scopes, Types
  <2> QED BY <1>1, <2>1, <2>2, ReadOn
<1>11. CASE Union
  <2>1. PICK c \in Clauses :
          /\ c.op = "union" /\ alls' = alls \cup {c.all}
          /\ Clause(c, {}, seen, {}, [n \in Names |-> "absent"])
    BY <1>11 DEF Union
  <2>2. alls' \subseteq BOOLEAN
    BY <1>1, <2>1, ClauseAssumption
  <2>3. [n \in Names |-> "absent"] \in Scopes
    BY DEF Scopes, Types
  <2> QED BY <1>1, <2>1, <2>2, <2>3, ReadOn
<1>12. CASE Finish
  <2>1. ScopeTypeOK'
    BY <1>12 DEF Finish, ScopeInv, ScopeTypeOK
  <2>2. Sound' => Sound
    BY <1>12 DEF Finish, Sound, Followed
  <2>3. seen' = seen /\ scope' = scope /\ ops' = ops
    BY <1>12 DEF Finish
  <2> QED BY <2>1, <2>2, <2>3 DEF ScopeInv
<1>13. CASE UNCHANGED vars
  BY <1>13 DEF vars, ScopeInv, ScopeTypeOK, Sound, Followed
<1> QED BY <1>2, <1>3, <1>4, <1>5, <1>6, <1>7, <1>8, <1>9, <1>10, <1>11, <1>12, <1>13 DEF Next

LEMMA ScopeInvariant == Spec => []ScopeInv
<1>1. Init => ScopeInv
  BY ScopeInit
<1>2. ScopeInv /\ [Next]_vars => ScopeInv'
  BY ScopeStep
<1> QED BY <1>1, <1>2, PTL DEF Spec

-----------------------------------------------------------------------------
\* What validate_semantics keeps is well typed whatever the clauses are.
THEOREM ScopeTyped == Spec => []ScopeTypeOK
<1>1. ScopeInv => ScopeTypeOK
  BY DEF ScopeInv
<1> QED BY <1>1, ScopeInvariant, PTL

\* kinds and bound_vars hold the names in scope, and no others, after any number
\* of clauses without a fault.
THEOREM NamesInScope == Spec => []ScopeAgrees
<1>1. ScopeInv => ScopeAgrees
  <2> SUFFICES ASSUME ScopeInv, Sound PROVE seen.bound = Present(scope) /\ Known(seen) = Present(scope)
    BY DEF ScopeAgrees
  <2>1. seen \in States /\ scope \in Scopes
    BY DEF ScopeInv, ScopeTypeOK, States
  <2> QED BY <2>1 DEF ScopeInv, Fits, Known, Present, States, Scopes
<1> QED BY <1>1, ScopeInvariant, PTL

\* The kind of a name is the type of what the name stands for now.
THEOREM KindsInScope == Spec => []KindsAgree
<1>1. ScopeInv => KindsAgree
  BY DEF ScopeInv, KindsAgree, Fits
<1> QED BY <1>1, ScopeInvariant, PTL

-----------------------------------------------------------------------------
(* Refusals.  What a check finds in a clause next to what is wrong with it:
   nothing without a fault, and something when a fault is one it looks for. *)

Firm ==
  {"UndefinedVariable", "UnexpectedSyntax", "NoExpressionAlias", "NoVariablesInScope", "NestedAggregation",
   "AmbiguousAggregation", "InvalidAggregation", "RelationshipUniquenessViolation", "InvalidDelete",
   "InvalidPropertyType", "NoSingleRelationshipType", "CreatingVarLength",
   "RequiresDirectedRelationship", "SemanticError"}
Kindred == {"VariableTypeConflict", "VariableAlreadyBound", "InvalidArgumentType"}
OfUnion == {"InvalidClauseComposition", "DifferentColumnsInUnion"}
Judged(errors, wrong, read) ==
  /\ wrong = {} => errors = {}
  /\ errors = {} => wrong \cap Firm = {} /\ ("create" \notin read => wrong \cap Kindred = {})

LEMMA Walks ==
  /\ Usual \subseteq OrderByWalk /\ Usual \cup {"map", "label"} \subseteq ReturnWalk
  /\ Usual \cup {"pattern"} \subseteq WhereWalk /\ {"arith", "cmp", "not", "fn"} \subseteq SetWalk
  /\ {"arith", "fn"} \subseteq CreateWalk /\ {"arith"} = MergeWalk
  /\ Usual \cup {"neg", "size"} = SizeWalk /\ Usual \cup {"neg", "list", "comp"} \subseteq CompWalk
  /\ Usual \cup {"list", "map", "comp", "pattern"} \subseteq PatternWalk
  /\ AtomWalk \subseteq FreeWalk /\ "agg" \notin FreeWalk
BY DEF Usual, Common, OrderByWalk, ReturnWalk, WhereWalk, SetWalk, CreateWalk, MergeWalk, SizeWalk, CompWalk,
       PatternWalk, AtomWalk, FreeWalk

LEMMA UndefinedNames ==
  ASSUME NEW e, NEW names, NEW places
  PROVE  /\ Undefined(e, names, places) \subseteq {"UndefinedVariable", "NotLookedAt"}
         /\ Undefined(e, names, places) = {} <=> \A t \in e.terms : t.name \in names
         /\ "UndefinedVariable" \in Undefined(e, names, places) <=>
              \E t \in e.terms : t.name \notin names /\ t.through \subseteq places
BY DEF Undefined, FaultIn

\* The names a walk sees are known unless one is undefined there.
LEMMA SeenNames ==
  ASSUME NEW e, NEW walk, NEW names
  PROVE  /\ Seen(e, walk) \subseteq names <=> \A t \in e.terms : t.through \subseteq walk => t.name \in names
         /\ \A n \in Seen(e, walk) : \E t \in e.terms : t.name = n /\ t.through \subseteq walk
BY DEF Seen, Under

\* An aggregate is one the checks find, and so is what stands next to it.
LEMMA AggregatesFound ==
  ASSUME NEW c \in Clauses, NEW e \in ExprsOf(c)
  PROVE  /\ ContainsAggregate(e) <=> e.aggs # {}
         /\ e.aggs # {} =>
              /\ AtomicTerms(e) = OutsideAggregates(e)
              /\ HasFreeVar(e) <=> OutsideAggregates(e) # {}
              /\ e.top = "agg" => OutsideAggregates(e) = {}
<1>1. ContainsAggregate(e) <=> e.aggs # {}
  BY ExpressionAssumption DEF ContainsAggregate
<1>2. ASSUME e.aggs # {}
      PROVE  /\ AtomicTerms(e) = OutsideAggregates(e)
             /\ HasFreeVar(e) <=> OutsideAggregates(e) # {}
             /\ e.top = "agg" => OutsideAggregates(e) = {}
  <2>1. \A t \in e.terms : "agg" \in t.through \/ (e.top # "agg" /\ t.through \subseteq AtomWalk)
    BY <1>2, ExpressionAssumption
  <2>2. \A t \in e.terms : "agg" \notin t.through <=> t.through \subseteq AtomWalk
    BY <2>1, Walks
  <2>3. \A t \in e.terms : "agg" \notin t.through <=> t.through \subseteq FreeWalk
    BY <2>1, Walks
  <2>4. {u \in e.terms : "agg" \notin u.through} = Under(e, AtomWalk)
    BY <2>2 DEF Under
  <2>5. {u \in e.terms : "agg" \notin u.through} = Under(e, FreeWalk)
    BY <2>3 DEF Under
  <2>6. AtomicTerms(e) = OutsideAggregates(e)
    BY <2>4 DEF AtomicTerms, OutsideAggregates
  <2>7. HasFreeVar(e) <=> OutsideAggregates(e) # {}
    BY <2>5 DEF HasFreeVar, OutsideAggregates
  <2>8. e.top = "agg" => OutsideAggregates(e) = {}
    BY <2>1 DEF OutsideAggregates
  <2> QED BY <2>6, <2>7, <2>8
<1> QED BY <1>1, <1>2

\* The rows are grouped by what openCypher groups them by.
LEMMA GroupedAlike ==
  ASSUME NEW c \in Clauses, c.op \in {"with", "return"}
  PROVE  /\ TermsOf(Grouping(c)) = GroupTerms(c)
         /\ Grouping(c) = {} => GroupTerms(c) = {}
         /\ Aggregating(c) <=> \E e \in Exprs(c) : e.aggs # {}
<1>1. Exprs(c) \subseteq ExprsOf(c)
  BY DEF ExprsOf
<1>2. \A e \in Exprs(c) : ContainsAggregate(e) <=> e.aggs # {}
  BY <1>1, AggregatesFound
<1>3. {x \in Grouping(c) : IsTerm(x)} = {x \in Exprs(c) : x.aggs = {} /\ IsTerm(x)}
  BY <1>2 DEF Grouping
<1>4. ASSUME NEW e \in Exprs(c), IsTerm(e)
      PROVE  AtomicTerms(e) = OutsideAggregates(e)
  <2>1. \A t \in e.terms : t.through = {}
    BY <1>1, <1>4, ExpressionAssumption
  <2>2. Under(e, AtomWalk) = e.terms /\ {u \in e.terms : "agg" \notin u.through} = e.terms
    BY <2>1 DEF Under
  <2> QED BY <2>2 DEF AtomicTerms, OutsideAggregates
<1>5. TermsOf(Grouping(c)) = GroupTerms(c)
  <2>1. {AtomicTerms(e) : e \in {x \in Grouping(c) : IsTerm(x)}}
          = {OutsideAggregates(e) : e \in {x \in Exprs(c) : x.aggs = {} /\ IsTerm(x)}}
    BY <1>3, <1>4
  <2> QED BY <2>1 DEF TermsOf, GroupTerms
<1>6. Grouping(c) = {} => GroupTerms(c) = {}
  BY <1>5 DEF TermsOf
<1>7. Aggregating(c) <=> \E e \in Exprs(c) : e.aggs # {}
  BY <1>2 DEF Aggregating, Grouping
<1> QED BY <1>5, <1>6, <1>7

LEMMA AggregatesAlike ==
  ASSUME NEW c \in Clauses, c.op \in {"with", "return"}
  PROVE  AggregateErrors(c) = {} <=>
           "AmbiguousAggregation" \notin AggregateFaults(c) /\ "InvalidAggregation" \notin AggregateFaults(c)
<1> DEFINE mixed == \E e \in Exprs(c) : e.aggs # {} /\ ~(OutsideAggregates(e) \subseteq GroupTerms(c))
           columns == {[name |-> n, key |-> NoKey] : n \in Aliases(c)}
           mixedSort == \E e \in c.orderBy : e.aggs # {} /\ ~(OutsideAggregates(e) \subseteq GroupTerms(c) \cup columns)
           ungrouped == (\A e \in Exprs(c) : e.aggs = {}) /\ \E e \in c.orderBy : e.aggs # {}
<1>1. \A e \in Exprs(c) \cup c.orderBy : e \in ExprsOf(c)
  BY DEF ExprsOf
<1>2. (\E e \in Exprs(c) : Ambiguous(c, e)) <=> mixed
  <2>1. ASSUME NEW e \in Exprs(c)
        PROVE  Ambiguous(c, e) <=> e.aggs # {} /\ ~(OutsideAggregates(e) \subseteq GroupTerms(c))
    <3>1. CASE e.aggs = {}
      BY <1>1, <3>1, AggregatesFound DEF Ambiguous
    <3>2. CASE e.aggs # {} /\ OutsideAggregates(e) = {}
      BY <1>1, <3>2, AggregatesFound DEF Ambiguous
    <3>3. CASE e.aggs # {} /\ OutsideAggregates(e) # {}
      <4>1. e.top # "agg" /\ ContainsAggregate(e) /\ HasFreeVar(e) /\ AtomicTerms(e) = OutsideAggregates(e)
        BY <1>1, <3>3, AggregatesFound
      <4> QED BY <3>3, <4>1, GroupedAlike DEF Ambiguous
    <3> QED BY <3>1, <3>2, <3>3
  <2> QED BY <2>1
<1>3. (~Aggregating(c) /\ \E e \in c.orderBy : ContainsAggregate(e)) <=> ungrouped
  BY <1>1, AggregatesFound, GroupedAlike
<1>4. (\E e \in c.orderBy : AmbiguousSort(c, e)) <=> mixedSort
  <2>1. ASSUME NEW e \in c.orderBy
        PROVE  AmbiguousSort(c, e) <=> e.aggs # {} /\ ~(OutsideAggregates(e) \subseteq GroupTerms(c) \cup columns)
    <3>1. CASE e.aggs = {}
      BY <1>1, <3>1, AggregatesFound DEF AmbiguousSort
    <3>2. CASE e.aggs # {} /\ OutsideAggregates(e) = {}
      BY <1>1, <3>2, AggregatesFound DEF AmbiguousSort
    <3>3. CASE e.aggs # {} /\ OutsideAggregates(e) # {}
      <4>1. ContainsAggregate(e) /\ HasFreeVar(e) /\ AtomicTerms(e) = OutsideAggregates(e)
        BY <1>1, <3>3, AggregatesFound
      <4>2. \A t \in OutsideAggregates(e) : t \in columns <=> t.key = NoKey /\ t.name \in Aliases(c)
        BY DEF OutsideAggregates
      <4> QED BY <3>3, <4>1, <4>2, GroupedAlike DEF AmbiguousSort
    <3> QED BY <3>1, <3>2, <3>3
  <2> QED BY <2>1
<1>5. "AmbiguousAggregation" \in AggregateFaults(c) <=> mixed \/ mixedSort
  BY DEF AggregateFaults, Fault
<1>6. "InvalidAggregation" \in AggregateFaults(c) <=> ungrouped
  BY DEF AggregateFaults, Fault
<1>7. AggregateErrors(c) = {} <=>
        /\ ~ \E e \in Exprs(c) : Ambiguous(c, e)
        /\ ~(~Aggregating(c) /\ \E e \in c.orderBy : ContainsAggregate(e))
        /\ ~(Aggregating(c) /\ \E e \in c.orderBy : AmbiguousSort(c, e))
  BY DEF AggregateErrors, Refused
<1>8. (\E e \in c.orderBy : AmbiguousSort(c, e)) => \E e \in c.orderBy : ContainsAggregate(e)
  BY DEF AmbiguousSort
<1> HIDE DEF mixed, mixedSort, ungrouped
<1> QED BY <1>2, <1>3, <1>4, <1>5, <1>6, <1>7, <1>8

\* A MATCH makes its names known, whatever is wrong with it.
LEMMA MatchKnown ==
  ASSUME NEW c \in Clauses, c.op = "match", NEW s \in States, NEW sc \in Scopes, NEW read, Fits(s, sc, read)
  PROVE  /\ Known(AfterMatch(c, s)) = Present(ScopeInMatch(c, sc))
         /\ \A n \in Names :
              /\ ScopeInMatch(c, sc)[n] = IF n \in c.nodes THEN "node" ELSE IF n \in c.rels THEN "rel"
                                          ELSE IF n \in c.walks THEN "rels" ELSE IF n \in c.paths THEN "path" ELSE sc[n]
              /\ AfterMatch(c, s).kinds[n] = IF n \in c.nodes THEN "Node" ELSE IF n \in Links(c) THEN "Rel"
                                             ELSE WithPaths(c, s)[n]
              /\ WithPaths(c, s)[n] = IF n \in c.paths THEN "Path" ELSE s.kinds[n]
<1>1. c.paths \cup c.nodes \cup Links(c) \subseteq Names
  BY ClauseAssumption
<1>2. \A n \in Names :
        /\ ScopeInMatch(c, sc)[n] = IF n \in c.nodes THEN "node" ELSE IF n \in c.rels THEN "rel"
                                    ELSE IF n \in c.walks THEN "rels" ELSE IF n \in c.paths THEN "path" ELSE sc[n]
        /\ AfterMatch(c, s).kinds[n] = IF n \in c.nodes THEN "Node" ELSE IF n \in Links(c) THEN "Rel"
                                       ELSE WithPaths(c, s)[n]
        /\ WithPaths(c, s)[n] = IF n \in c.paths THEN "Path" ELSE s.kinds[n]
  BY <1>1 DEF ScopeInMatch, Typed, Scopes, AfterMatch, KindsInMatch, WithPaths, States
<1>3. Present(ScopeInMatch(c, sc)) = Present(sc) \cup c.paths \cup c.nodes \cup Links(c)
  BY <1>1, <1>2 DEF Present, Links
<1>4. AfterMatch(c, s).bound = s.bound \cup c.paths \cup c.nodes \cup Links(c)
  BY DEF AfterMatch
<1>5. {n \in Names : AfterMatch(c, s).kinds[n] # "none"} \subseteq AfterMatch(c, s).bound
  BY <1>2, <1>4 DEF Fits
<1>6. Known(AfterMatch(c, s)) = AfterMatch(c, s).bound
  BY <1>5 DEF Known
<1> QED BY <1>2, <1>3, <1>4, <1>6 DEF Fits

\* What a kind says of a type, as long as the query creates nothing.
LEMMA MeansKind ==
  ASSUME NEW kind, NEW read, NEW type, type \in Means(kind, read)
  PROVE  /\ kind = "Node" => type = "node"
         /\ kind = "Rel" => type \in {"rel", "rels"}
         /\ kind = "Path" => type = "path"
         /\ kind = "Scalar" => type = "value"
         /\ kind = "VarList" => type \in {"rels", "list"}
         /\ "create" \notin read =>
              /\ type = "node" => kind = "Node"
              /\ type = "rel" => kind = "Rel"
              /\ type = "path" => kind = "Path"
              /\ type = "value" => kind = "Scalar"
              /\ type \notin {"absent", "any"} => kind # "none"
              /\ type \notin {"absent", "any", "node"} => kind \notin {"none", "Node"}
BY DEF Means

LEMMA WhereJudged ==
  ASSUME NEW c \in Clauses, c.op = "match", NEW s \in States, NEW sc \in Scopes, NEW read, Fits(s, sc, read)
  PROVE  /\ MatchFaults(c, sc) = {} => WhereErrors(c, s) = {}
         /\ WhereErrors(c, s) = {} =>
              /\ WhereFaults(c, sc) \cap Firm = {}
              /\ "create" \notin read => WhereFaults(c, sc) \cap Kindred = {}
<1> DEFINE e == c.where
           after == ScopeInMatch(c, sc)
           kinds == AfterMatch(c, s).kinds
           bare(t) == t.key = NoKey /\ t.through \subseteq PredicateWalk
           single(t) == "node" \in t.through /\ t.through \subseteq PredicateWalk \cup {"node"}
           property(t) == t.key # NoKey /\ t.through \subseteq PathWalk
           unknown == ~(Seen(e, WhereWalk) \subseteq Known(AfterMatch(c, s)))
<1>1. e \in ExprsOf(c) /\ \A t \in e.terms : t.name \in Names
  <2>1. e \in ExprsOf(c)
    BY DEF ExprsOf
  <2> QED BY <2>1, ExpressionAssumption
<1>2. ContainsAggregate(e) <=> e.aggs # {}
  BY <1>1, AggregatesFound
<1>3. Known(AfterMatch(c, s)) = Present(after)
  BY MatchKnown
<1>0. unknown <=> \E t \in e.terms : t.through \subseteq WhereWalk /\ t.name \notin Known(AfterMatch(c, s))
  BY SeenNames
<1>4. unknown => Undefined(e, Present(after), Usual \cup {"pattern"}) # {}
  BY <1>0, <1>3, UndefinedNames
<1>5. "UndefinedVariable" \in Undefined(e, Present(after), Usual \cup {"pattern"}) => unknown
  <2>1. ASSUME NEW t \in e.terms, t.name \notin Present(after), t.through \subseteq Usual \cup {"pattern"}
        PROVE  unknown
    BY <1>0, <1>3, <2>1, Walks
  <2> QED BY <2>1, UndefinedNames
<1>6. WhereErrors(c, s) = {} <=>
        /\ ~ContainsAggregate(e)
        /\ \A t \in e.terms : /\ property(t) => WithPaths(c, s)[t.name] # "Path"
                              /\ bare(t) => kinds[t.name] \notin {"Node", "Rel"}
                              /\ ~single(t)
        /\ ~unknown
  BY DEF WhereErrors, Refused, Under
<1>7. PredicateWalk = {"bool", "not"} /\ PathWalk = {"bool", "cmp", "not", "null"} /\ PredicateWalk \cup {"node"} = {"bool", "not", "node"}
  BY DEF PredicateWalk, PathWalk
<1>8. "InvalidArgumentType" \in WhereFaults(c, sc) <=>
        \E t \in e.terms : \/ bare(t) /\ after[t.name] \in {"node", "rel"}
                           \/ property(t) /\ after[t.name] = "path"
                           \/ single(t)
  BY <1>7, UndefinedNames DEF WhereFaults, Fault
<1>9. /\ "InvalidAggregation" \in WhereFaults(c, sc) <=> e.aggs # {}
      /\ "UndefinedVariable" \in WhereFaults(c, sc) <=> "UndefinedVariable" \in Undefined(e, Present(after), Usual \cup {"pattern"})
      /\ Undefined(e, Present(after), Usual \cup {"pattern"}) \subseteq WhereFaults(c, sc)
      /\ WhereFaults(c, sc) \subseteq {"UndefinedVariable", "NotLookedAt", "InvalidAggregation", "InvalidArgumentType"}
  BY UndefinedNames DEF WhereFaults, Fault
<1>10. (\E t \in e.terms : bare(t) /\ after[t.name] = "rels") => "NotLookedAt" \in WhereFaults(c, sc)
  BY <1>7 DEF WhereFaults, Fault
<1>11. ASSUME MatchFaults(c, sc) = {}
       PROVE  WhereErrors(c, s) = {}
  <2>1. WhereFaults(c, sc) = {}
    BY <1>11 DEF MatchFaults
  <2>2. ~ContainsAggregate(e) /\ ~unknown
    BY <1>2, <1>4, <1>9, <2>1
  <2>3. Fits(AfterMatch(c, s), after, read)
    BY <1>11, MatchFits
  <2>4. ASSUME NEW t \in e.terms, bare(t)
        PROVE  kinds[t.name] \notin {"Node", "Rel"}
    <3>1. after[t.name] \notin {"node", "rel", "rels"}
      BY <1>8, <1>10, <2>1, <2>4
    <3>2. kinds[t.name] # "none" => after[t.name] \in Means(kinds[t.name], read)
      <4>1. kinds[t.name] # "none" => t.name \in Present(after)
        BY <1>1, <2>3 DEF Fits
      <4> QED BY <2>3, <4>1 DEF Fits
    <3> QED BY <3>1, <3>2, MeansKind
  <2>5. ASSUME NEW t \in e.terms, property(t)
        PROVE  WithPaths(c, s)[t.name] # "Path"
    <3>1. after[t.name] # "path"
      BY <1>8, <2>1, <2>5
    <3>2. ~ \E n \in c.nodes : sc[n] \notin {"absent", "any", "node"} \/ n \in Links(c) \cup c.paths
      BY <1>11 DEF MatchFaults, Fault
    <3>3. ~ \E n \in Links(c) : sc[n] \in {"node", "path", "value"} \/ n \in c.paths
      BY <1>11 DEF MatchFaults, Fault
    <3>4. s.kinds[t.name] = "Path" => sc[t.name] = "path"
      BY <1>1, MeansKind DEF Fits
    <3>5. /\ after[t.name] = IF t.name \in c.nodes THEN "node" ELSE IF t.name \in c.rels THEN "rel"
                             ELSE IF t.name \in c.walks THEN "rels" ELSE IF t.name \in c.paths THEN "path" ELSE sc[t.name]
          /\ WithPaths(c, s)[t.name] = IF t.name \in c.paths THEN "Path" ELSE s.kinds[t.name]
      BY <1>1, MatchKnown
    <3>6. CASE t.name \in c.nodes
      BY <3>2, <3>4, <3>5, <3>6
    <3>7. CASE t.name \in Links(c)
      BY <3>3, <3>4, <3>5, <3>7
    <3>8. CASE t.name \notin c.nodes \cup Links(c)
      BY <3>1, <3>4, <3>5, <3>8 DEF Links
    <3> QED BY <3>6, <3>7, <3>8
  <2>6. \A t \in e.terms : ~single(t)
    BY <1>8, <2>1
  <2> QED BY <1>6, <2>2, <2>4, <2>5, <2>6
<1>12. ASSUME WhereErrors(c, s) = {}
       PROVE  /\ WhereFaults(c, sc) \cap Firm = {}
              /\ "create" \notin read => WhereFaults(c, sc) \cap Kindred = {}
  <2>1. "InvalidAggregation" \notin WhereFaults(c, sc) /\ "UndefinedVariable" \notin WhereFaults(c, sc)
    BY <1>2, <1>5, <1>6, <1>9, <1>12
  <2>2. ASSUME "create" \notin read, NEW t \in e.terms
        PROVE  /\ bare(t) => after[t.name] \notin {"node", "rel"}
               /\ property(t) => after[t.name] # "path"
    <3>1. /\ after[t.name] = IF t.name \in c.nodes THEN "node" ELSE IF t.name \in c.rels THEN "rel"
                             ELSE IF t.name \in c.walks THEN "rels" ELSE IF t.name \in c.paths THEN "path" ELSE sc[t.name]
          /\ kinds[t.name] = IF t.name \in c.nodes THEN "Node" ELSE IF t.name \in Links(c) THEN "Rel" ELSE WithPaths(c, s)[t.name]
          /\ WithPaths(c, s)[t.name] = IF t.name \in c.paths THEN "Path" ELSE s.kinds[t.name]
      BY <1>1, MatchKnown
    <3>2. /\ sc[t.name] = "node" => s.kinds[t.name] = "Node"
          /\ sc[t.name] = "rel" => s.kinds[t.name] = "Rel"
          /\ sc[t.name] = "path" => s.kinds[t.name] = "Path"
      BY <1>1, <2>2, MeansKind DEF Fits, Present
    <3>3. /\ property(t) => WithPaths(c, s)[t.name] # "Path"
          /\ bare(t) => kinds[t.name] \notin {"Node", "Rel"}
      BY <1>6, <1>12
    <3> HIDE DEF property, bare, kinds, after
    <3> QED BY <3>1, <3>2, <3>3 DEF Links
  <2>3. "create" \notin read => "InvalidArgumentType" \notin WhereFaults(c, sc)
    BY <1>6, <1>8, <1>12, <2>2
  <2> QED BY <1>9, <2>1, <2>3 DEF Firm, Kindred
<1> QED BY <1>11, <1>12

LEMMA MatchJudged ==
  ASSUME NEW c \in Clauses, c.op = "match", NEW s \in States, NEW sc \in Scopes, NEW read, Fits(s, sc, read)
  PROVE  Judged(MatchErrors(c, s), MatchFaults(c, sc), read)
<1> DEFINE twice == "path" \in c.twice \/ \E n \in c.paths : s.kinds[n] # "none"
           known == "path" \in c.twice \/ \E n \in c.paths : sc[n] \notin {"absent", "any"}
           clash == \/ \E n \in c.nodes : WithPaths(c, s)[n] \in {"Rel", "Path", "Scalar", "VarList"} \/ n \in Links(c)
                    \/ \E n \in Links(c) : WithPaths(c, s)[n] \in {"Node", "Path", "Scalar"}
           mixed == \/ \E n \in c.nodes : sc[n] \notin {"absent", "any", "node"} \/ n \in Links(c) \cup c.paths
                    \/ \E n \in Links(c) : sc[n] \in {"node", "path", "value"} \/ n \in c.paths
           unseen == \/ \E n \in c.paths : sc[n] = "any"
                     \/ c.rels \cap c.walks # {}
                     \/ \E n \in c.rels : sc[n] \in {"rels", "list"}
                     \/ \E n \in c.walks : sc[n] \in {"rel", "list"}
<1>1. c.paths \cup c.nodes \cup Links(c) \subseteq Names
  BY ClauseAssumption
<1>2. MatchErrors(c, s) = {} <=> ~twice /\ "rel" \notin c.twice /\ ~clash /\ WhereErrors(c, s) = {}
  BY DEF MatchErrors, Refused
<1>3. /\ "VariableAlreadyBound" \in MatchFaults(c, sc) <=> known \/ "VariableAlreadyBound" \in WhereFaults(c, sc)
      /\ "VariableTypeConflict" \in MatchFaults(c, sc) <=> mixed \/ "VariableTypeConflict" \in WhereFaults(c, sc)
      /\ "RelationshipUniquenessViolation" \in MatchFaults(c, sc)
           <=> "rel" \in c.twice \/ "RelationshipUniquenessViolation" \in WhereFaults(c, sc)
      /\ WhereFaults(c, sc) \subseteq MatchFaults(c, sc)
      /\ MatchFaults(c, sc) \subseteq {"VariableAlreadyBound", "VariableTypeConflict", "RelationshipUniquenessViolation", "NotLookedAt"}
                                      \cup WhereFaults(c, sc)
      /\ unseen => "NotLookedAt" \in MatchFaults(c, sc)
  BY DEF MatchFaults, Fault
<1>4. WhereFaults(c, sc) \subseteq {"UndefinedVariable", "NotLookedAt", "InvalidAggregation", "InvalidArgumentType"}
  BY UndefinedNames DEF WhereFaults, Fault
<1>5. \A n \in Names : /\ WithPaths(c, s)[n] = IF n \in c.paths THEN "Path" ELSE s.kinds[n]
                       /\ s.kinds[n] # "none" => sc[n] \in Means(s.kinds[n], read) /\ sc[n] # "absent"
                       /\ sc[n] # "absent" => sc[n] \in Means(s.kinds[n], read)
  <2>1. \A n \in Names : n \in Present(sc) <=> sc[n] # "absent"
    BY DEF Present
  <2>2. \A n \in Names : s.kinds[n] # "none" => n \in Present(sc)
    BY DEF Fits
  <2>3. \A n \in Present(sc) : sc[n] \in Means(s.kinds[n], read)
    BY DEF Fits
  <2>4. \A n \in Names : WithPaths(c, s)[n] = IF n \in c.paths THEN "Path" ELSE s.kinds[n]
    BY DEF WithPaths
  <2> QED BY <2>1, <2>2, <2>3, <2>4
<1> HIDE DEF twice, known, clash, mixed, unseen
<1>6. ASSUME MatchFaults(c, sc) = {}
      PROVE  MatchErrors(c, s) = {}
  <2>1. ~known /\ "rel" \notin c.twice /\ ~mixed /\ ~unseen
    BY <1>3, <1>6
  <2>2. ~twice
    <3>1. ASSUME NEW n \in c.paths, s.kinds[n] # "none" PROVE FALSE
      BY <1>1, <1>5, <2>1, <3>1 DEF known, unseen
    <3> QED BY <2>1, <3>1 DEF twice, known
  <2>3. ~clash
    <3>1. ASSUME NEW n \in c.nodes
          PROVE  WithPaths(c, s)[n] \notin {"Rel", "Path", "Scalar", "VarList"} /\ n \notin Links(c)
      <4>1. sc[n] \in {"absent", "any", "node"} /\ n \notin Links(c) \cup c.paths
        BY <2>1 DEF mixed
      <4>2. s.kinds[n] # "none" => sc[n] \in Means(s.kinds[n], read)
        BY <1>1, <1>5
      <4> QED BY <1>1, <1>5, <4>1, <4>2, MeansKind
    <3>2. ASSUME NEW n \in Links(c)
          PROVE  WithPaths(c, s)[n] \notin {"Node", "Path", "Scalar"}
      <4>1. sc[n] \notin {"node", "path", "value"} /\ n \notin c.paths
        BY <2>1 DEF mixed
      <4>2. s.kinds[n] # "none" => sc[n] \in Means(s.kinds[n], read)
        BY <1>1, <1>5
      <4> QED BY <1>1, <1>5, <4>1, <4>2, MeansKind
    <3> QED BY <3>1, <3>2 DEF clash
  <2> QED BY <1>2, <1>6, <2>1, <2>2, <2>3, WhereJudged
<1>7. ASSUME MatchErrors(c, s) = {}
      PROVE  /\ MatchFaults(c, sc) \cap Firm = {}
             /\ "create" \notin read => MatchFaults(c, sc) \cap Kindred = {}
  <2>1. ~twice /\ "rel" \notin c.twice /\ ~clash /\ WhereErrors(c, s) = {}
    BY <1>2, <1>7
  <2>2. /\ WhereFaults(c, sc) \cap Firm = {}
        /\ "create" \notin read => WhereFaults(c, sc) \cap Kindred = {}
    BY <2>1, WhereJudged
  <2>3. ASSUME "create" \notin read
        PROVE  ~known /\ ~mixed
    <3>1. ASSUME NEW n \in c.paths
          PROVE  sc[n] \in {"absent", "any"}
      <4>1. s.kinds[n] = "none" /\ n \in Names
        BY <1>1, <2>1 DEF twice
      <4>2. sc[n] # "absent" => sc[n] \in Means(s.kinds[n], read)
        BY <1>5, <4>1
      <4> QED BY <2>3, <4>1, <4>2, MeansKind
    <3>2. ASSUME NEW n \in c.nodes
          PROVE  sc[n] \in {"absent", "any", "node"} /\ n \notin Links(c) \cup c.paths
      <4>1. WithPaths(c, s)[n] \notin {"Rel", "Path", "Scalar", "VarList"} /\ n \notin Links(c) /\ n \in Names
        BY <1>1, <2>1 DEF clash
      <4>2. n \notin c.paths /\ s.kinds[n] \notin {"Rel", "Path", "Scalar", "VarList"}
        BY <1>5, <4>1
      <4>3. s.kinds[n] \in {"none", "Node"}
        BY <4>1, <4>2 DEF States, Kinds
      <4>4. sc[n] # "absent" => sc[n] \in Means(s.kinds[n], read)
        BY <1>5, <4>1
      <4> QED BY <2>3, <4>1, <4>2, <4>3, <4>4, MeansKind
    <3>3. ASSUME NEW n \in Links(c)
          PROVE  sc[n] \notin {"node", "path", "value"} /\ n \notin c.paths
      <4>1. WithPaths(c, s)[n] \notin {"Node", "Path", "Scalar"} /\ n \in Names
        BY <1>1, <2>1 DEF clash
      <4>2. n \notin c.paths /\ s.kinds[n] \notin {"Node", "Path", "Scalar"}
        BY <1>5, <4>1
      <4>3. sc[n] # "absent" => sc[n] \in Means(s.kinds[n], read)
        BY <1>5, <4>1
      <4> QED BY <2>3, <4>2, <4>3, MeansKind
    <3> QED BY <2>1, <3>1, <3>2, <3>3 DEF known, mixed, twice
  <2> QED BY <1>3, <1>4, <2>1, <2>2, <2>3 DEF Firm, Kindred
<1> QED BY <1>6, <1>7 DEF Judged

LEMMA DeleteJudged ==
  ASSUME NEW c \in Clauses, c.op = "delete", NEW s \in States, NEW sc \in Scopes, NEW read, Fits(s, sc, read)
  PROVE  Judged(DeleteErrors(c, s), DeleteFaults(c, sc), read)
<1> DEFINE unknown == \E e \in c.exprs : e.top = "name" /\ \E t \in e.terms : t.name \notin Present(sc)
<1>1. Known(s) = Present(sc) /\ (Checked(s) \/ Present(sc) = {})
  BY FitsKnown DEF Checked
<1>2. DeleteErrors(c, s) = {} <=>
        /\ ~ \E e \in c.exprs : e.top = "label"
        /\ ~ \E e \in c.exprs : e.top \in {"literal", "arith"}
        /\ ~(Checked(s) /\ unknown)
  BY <1>1 DEF DeleteErrors, Refused
<1> HIDE DEF unknown
<1>3. DeleteFaults(c, sc) =
        Fault("InvalidDelete", \E e \in c.exprs : e.top = "label")
        \cup Fault("InvalidArgumentType", \E e \in c.exprs : e.top \in {"literal", "arith"})
        \cup Fault(IF Present(sc) = {} THEN "NotLookedAt" ELSE "UndefinedVariable", unknown)
  BY DEF DeleteFaults, unknown
<1> QED BY <1>1, <1>2, <1>3 DEF Judged, Fault, Firm, Kindred

\* The values of a SET, or of the SET of a MERGE.
LEMMA ValuesJudged ==
  ASSUME NEW items, NEW names, NEW places, NEW walk, places \subseteq walk
  PROVE  /\ ValueFaults(items, names, places) \subseteq {"UndefinedVariable", "NotLookedAt"}
         /\ (\E i \in Valued(items) : ~(Seen(i.value, walk) \subseteq names)) => ValueFaults(items, names, places) # {}
         /\ "UndefinedVariable" \in ValueFaults(items, names, places) =>
              \E i \in Valued(items) : ~(Seen(i.value, walk) \subseteq names)
<1> DEFINE all == UNION {Undefined(i.value, names, places) : i \in Valued(items)}
           unread == \E i \in items : \E t \in i.value.terms : i \notin Valued(items) /\ t.name \notin names
<1>0. /\ ValueFaults(items, names, places) \subseteq all \cup {"NotLookedAt"}
      /\ all \subseteq ValueFaults(items, names, places)
  <2>1. ValueFaults(items, names, places) = all \cup Fault("NotLookedAt", unread)
    BY DEF ValueFaults
  <2>2. Fault("NotLookedAt", unread) \subseteq {"NotLookedAt"}
    BY DEF Fault
  <2> QED BY <2>1, <2>2
<1>1. ValueFaults(items, names, places) \subseteq {"UndefinedVariable", "NotLookedAt"}
  <2>1. \A i : Undefined(i.value, names, places) \subseteq {"UndefinedVariable", "NotLookedAt"}
    BY UndefinedNames
  <2>2. all \subseteq {"UndefinedVariable", "NotLookedAt"}
    BY <2>1
  <2> QED BY <1>0, <2>2
<1>2. ASSUME NEW i \in Valued(items), ~(Seen(i.value, walk) \subseteq names)
      PROVE  ValueFaults(items, names, places) # {}
  <2>1. \E t \in i.value.terms : t.name \notin names
    BY <1>2, SeenNames
  <2>2. Undefined(i.value, names, places) # {}
    BY <2>1, UndefinedNames
  <2> QED BY <1>0, <2>2
<1>3. ASSUME "UndefinedVariable" \in ValueFaults(items, names, places)
      PROVE  \E i \in Valued(items) : ~(Seen(i.value, walk) \subseteq names)
  <2>1. PICK i \in Valued(items) : "UndefinedVariable" \in Undefined(i.value, names, places)
    <3>1. "UndefinedVariable" \in all
      BY <1>0, <1>3
    <3> QED BY <3>1
  <2>2. PICK t \in i.value.terms : t.name \notin names /\ t.through \subseteq places
    BY <2>1, UndefinedNames
  <2>3. ~(Seen(i.value, walk) \subseteq names)
    BY <2>2, SeenNames
  <2> QED BY <2>3
<1> QED BY <1>1, <1>2, <1>3

LEMMA SetJudged ==
  ASSUME NEW c \in Clauses, c.op = "set", NEW s \in States, NEW sc \in Scopes, NEW read, Fits(s, sc, read)
  PROVE  Judged(SetErrors(c, s), SetFaults(c, sc), read)
<1> DEFINE written == {j \in c.items : j.form = "property"}
           maps == \E i \in written : i.value.top \in {"map", "maps"}
           unknown == \E i \in Valued(c.items) : ~(Seen(i.value, SetWalk) \subseteq Present(sc))
           pattern == \E i \in written : \E t \in Under(i.value, PatternWalk) : "pattern" \in t.through
           patterns == {FaultIn(t, Usual \cup {"list", "map", "comp", "pattern"}, "UnexpectedSyntax") :
                          t \in {u \in UNION {i.value.terms : i \in written} : "pattern" \in u.through}}
           values == ValueFaults(c.items, Present(sc), {"arith", "cmp", "not", "fn"})
<1>1. Known(s) = Present(sc) /\ (Checked(s) \/ Present(sc) = {})
  BY FitsKnown DEF Checked
<1>2. SetErrors(c, s) = {} <=> ~maps /\ ~pattern /\ ~(Checked(s) /\ unknown)
  BY <1>1 DEF SetErrors, Refused
<1>3. SetFaults(c, sc) =
        Fault("InvalidPropertyType", maps)
        \cup patterns
        \cup Fault("NotLookedAt", \E i \in c.items : i.name \notin Present(sc))
        \cup IF Present(sc) = {} THEN Fault("NotLookedAt", \E i \in c.items : i.value.terms # {}) ELSE values
  BY DEF SetFaults, Fault
<1>4. /\ patterns \subseteq {"UnexpectedSyntax", "NotLookedAt"}
      /\ pattern => patterns # {}
      /\ "UnexpectedSyntax" \in patterns => pattern
  <2>1. patterns \subseteq {"UnexpectedSyntax", "NotLookedAt"}
    BY DEF FaultIn
  <2>2. pattern => patterns # {}
    BY DEF Under
  <2>3. ASSUME "UnexpectedSyntax" \in patterns PROVE pattern
    <3>1. PICK i \in written : \E t \in i.value.terms :
                "pattern" \in t.through /\ "UnexpectedSyntax" = FaultIn(t, Usual \cup {"list", "map", "comp", "pattern"}, "UnexpectedSyntax")
      BY <2>3
    <3>2. PICK t \in i.value.terms : "pattern" \in t.through /\ t.through \subseteq Usual \cup {"list", "map", "comp", "pattern"}
      BY <3>1 DEF FaultIn
    <3>3. t \in Under(i.value, PatternWalk)
      BY <3>2, Walks DEF Under
    <3> QED BY <3>2, <3>3
  <2> QED BY <2>1, <2>2, <2>3
<1>5. /\ values \subseteq {"UndefinedVariable", "NotLookedAt"}
      /\ unknown => values # {}
      /\ "UndefinedVariable" \in values => unknown
  BY Walks, ValuesJudged
<1>6. unknown => \E i \in c.items : i.value.terms # {}
  BY SeenNames DEF Valued
<1> HIDE DEF maps, unknown, pattern, patterns, values
<1>7. SetFaults(c, sc) = {} => SetErrors(c, s) = {}
  BY <1>1, <1>2, <1>3, <1>4, <1>5, <1>6 DEF Fault
<1>8. SetErrors(c, s) = {} => SetFaults(c, sc) \subseteq {"NotLookedAt"}
  BY <1>1, <1>2, <1>3, <1>4, <1>5 DEF Fault
<1> QED BY <1>7, <1>8 DEF Judged, Firm, Kindred

LEMMA AggregateNames ==
  ASSUME NEW c
  PROVE  /\ AggregateFaults(c) \subseteq {"AmbiguousAggregation", "InvalidAggregation", "NestedAggregation", "NotLookedAt"}
         /\ "NestedAggregation" \in AggregateFaults(c) <=>
              c.op = "return" /\ \E e \in Exprs(c) : e.top = "agg" /\ \E g \in e.aggs : g.nested
<1> DEFINE inner == UNION {IF e.top = "agg" /\ c.op = "return" THEN {"NestedAggregation"} ELSE {"NotLookedAt"} :
                             e \in {x \in Exprs(c) : \E g \in x.aggs : g.nested}}
<1>1. /\ inner \subseteq {"NestedAggregation", "NotLookedAt"}
      /\ "NestedAggregation" \in inner <=>
           c.op = "return" /\ \E e \in Exprs(c) : e.top = "agg" /\ \E g \in e.aggs : g.nested
  OBVIOUS
<1>2. /\ inner \subseteq AggregateFaults(c)
      /\ AggregateFaults(c) \subseteq inner \cup {"AmbiguousAggregation", "InvalidAggregation"}
  BY DEF AggregateFaults, Fault
<1> HIDE DEF inner
<1> QED BY <1>1, <1>2

LEMMA WithJudged ==
  ASSUME NEW c \in Clauses, c.op = "with", NEW s \in States, NEW sc \in Scopes, NEW read, Fits(s, sc, read)
  PROVE  Judged(WithErrors(c, s), WithFaults(c, sc), read)
<1> DEFINE sortable == IF Aggregating(c) THEN GroupedNames(c) ELSE s.bound \cup Projected(c)
           plain == {x \in c.orderBy : x.aggs = {}}
           pattern == \E e \in Exprs(c) : e.top = "pattern"
           unnamed == NoName \in Projected(c)
           unsorted == s.bound # {} /\ \E e \in c.orderBy : ~ContainsAggregate(e) /\ ~(Seen(e, OrderByWalk) \subseteq sortable)
           apart == Aggregating(c) /\ \E e \in c.orderBy : ContainsAggregate(e) /\ ~HasFreeVar(e) /\ e \notin Exprs(c)
           aside == \E e \in c.orderBy : e.aggs # {} /\ OutsideAggregates(e) = {} /\ e \notin Exprs(c)
           sorts == UNION {IF Present(sc) = {} THEN Fault("NotLookedAt", e.terms # {}) ELSE Undefined(e, Sortable(c, sc), Usual) :
                             e \in plain}
<1>1. \A e \in Exprs(c) \cup c.orderBy : e \in ExprsOf(c)
  BY DEF ExprsOf
<1>2. s.bound = Present(sc) /\ sortable = Sortable(c, sc)
  BY FitsKnown, GroupedAlike DEF Sortable, GroupedNames
<1>3. CASE c.star
  BY <1>3 DEF WithErrors, WithFaults, Judged
<1>4. CASE ~c.star
  <2>1. WithErrors(c, s) = {} <=> ~pattern /\ ~unnamed /\ ~unsorted /\ ~apart /\ AggregateErrors(c) = {}
    BY <1>4 DEF WithErrors, Refused, Unnamed
  <2>2. WithFaults(c, sc) =
          Fault("UnexpectedSyntax", pattern)
          \cup Fault("NoExpressionAlias", unnamed)
          \cup Fault("NotLookedAt", \E i, j \in DOMAIN c.items : i # j /\ NameOf(c.items[i]) = NameOf(c.items[j]))
          \cup Fault("NotLookedAt", \E e \in Exprs(c) : \E t \in e.terms : t.name \notin Present(sc))
          \cup sorts
          \cup Fault("UndefinedVariable", aside)
          \cup AggregateFaults(c)
    BY <1>4 DEF WithFaults
  <2>3. /\ sorts \subseteq {"UndefinedVariable", "NotLookedAt"}
        /\ unsorted => sorts # {}
        /\ "UndefinedVariable" \in sorts => unsorted
    <3>1. sorts \subseteq {"UndefinedVariable", "NotLookedAt"}
      <4>1. \A e : Undefined(e, Sortable(c, sc), Usual) \subseteq {"UndefinedVariable", "NotLookedAt"}
        BY UndefinedNames
      <4>2. \A e : Fault("NotLookedAt", e.terms # {}) \subseteq {"NotLookedAt"}
        BY DEF Fault
      <4> QED BY <4>1, <4>2
    <3>2. ASSUME unsorted PROVE sorts # {}
      <4>1. PICK e \in c.orderBy : ~ContainsAggregate(e) /\ ~(Seen(e, OrderByWalk) \subseteq sortable)
        BY <3>2
      <4>2. e \in plain /\ Present(sc) # {}
        BY <1>1, <1>2, <3>2, <4>1, AggregatesFound
      <4>3. \E t \in e.terms : t.name \notin Sortable(c, sc)
        BY <1>2, <4>1, SeenNames
      <4>4. Undefined(e, Sortable(c, sc), Usual) # {}
        BY <4>3, UndefinedNames
      <4> QED BY <4>2, <4>4
    <3>3. ASSUME "UndefinedVariable" \in sorts PROVE unsorted
      <4>1. PICK e \in plain : Present(sc) # {} /\ "UndefinedVariable" \in Undefined(e, Sortable(c, sc), Usual)
        BY <3>3 DEF Fault
      <4>2. PICK t \in e.terms : t.name \notin Sortable(c, sc) /\ t.through \subseteq Usual
        BY <4>1, UndefinedNames
      <4>3. t.through \subseteq OrderByWalk
        BY <4>2, Walks
      <4>4. ~(Seen(e, OrderByWalk) \subseteq sortable)
        BY <1>2, <4>2, <4>3, SeenNames
      <4>5. ~ContainsAggregate(e)
        BY <1>1, AggregatesFound
      <4> QED BY <1>2, <4>1, <4>4, <4>5
    <3> QED BY <3>1, <3>2, <3>3
  <2>4. apart => aside
    BY <1>1, AggregatesFound
  <2>5. aside => apart \/ AggregateErrors(c) # {}
    <3>1. ASSUME NEW e \in c.orderBy, e.aggs # {}, OutsideAggregates(e) = {}, e \notin Exprs(c), ~Aggregating(c)
          PROVE  AggregateErrors(c) # {}
      BY <1>1, <3>1, AggregatesFound DEF AggregateErrors, Refused
    <3> QED BY <1>1, <3>1, AggregatesFound
  <2>6. /\ "NestedAggregation" \notin AggregateFaults(c)
        /\ AggregateFaults(c) \subseteq {"AmbiguousAggregation", "InvalidAggregation", "NestedAggregation", "NotLookedAt"}
        /\ AggregateErrors(c) = {} <=>
             "AmbiguousAggregation" \notin AggregateFaults(c) /\ "InvalidAggregation" \notin AggregateFaults(c)
    BY AggregateNames, AggregatesAlike
  <2> HIDE DEF pattern, unnamed, unsorted, apart, aside, sorts
  <2>7. WithFaults(c, sc) = {} => WithErrors(c, s) = {}
    BY <2>1, <2>2, <2>3, <2>4, <2>6 DEF Fault
  <2>8. WithErrors(c, s) = {} => WithFaults(c, sc) \subseteq {"NotLookedAt"}
    BY <2>1, <2>2, <2>3, <2>5, <2>6 DEF Fault
  <2> QED BY <2>7, <2>8 DEF Judged, Firm, Kindred
<1> QED BY <1>3, <1>4

\* The elements of a pattern that is created.
LEMMA ShapeJudged ==
  ASSUME NEW c, NEW s \in States, NEW sc \in Scopes, NEW read, Fits(s, sc, read)
  PROVE  /\ PatternFaults(c, sc) = {} => ShapeErrors(c, s) = {}
         /\ ShapeErrors(c, s) = {} => PatternFaults(c, sc) \subseteq {"NotLookedAt"}
         /\ PatternFaults(c, sc) \subseteq {"VariableAlreadyBound", "NoSingleRelationshipType", "CreatingVarLength", "NotLookedAt"}
<1> DEFINE rels == {i \in DOMAIN c.elems : c.elems[i].rel}
           new(i) == Present(sc) \cup Earlier(c, i)
           again == \E i \in DOMAIN c.elems : Again(c, s, i)
           twice == \/ \E i \in rels : c.elems[i].name \in new(i)
                    \/ \E i \in DOMAIN c.elems \ rels : c.elems[i].name \in new(i) /\ (c.elems[i].extra \/ c.elems[i].alone)
           typed == \E i \in rels : c.elems[i].types # 1
           range == \E i \in rels : c.elems[i].range
<1>1. Known(s) = Present(sc)
  BY FitsKnown
<1>2. again <=> twice
  BY <1>1 DEF Again
<1>3. ShapeErrors(c, s) = {} <=> ~again /\ ~typed /\ ~range
  BY DEF ShapeErrors, Refused
<1>4. /\ "VariableAlreadyBound" \in PatternFaults(c, sc) <=> twice
      /\ "NoSingleRelationshipType" \in PatternFaults(c, sc) <=> typed
      /\ "CreatingVarLength" \in PatternFaults(c, sc) <=> range
      /\ PatternFaults(c, sc) \subseteq {"VariableAlreadyBound", "NoSingleRelationshipType", "CreatingVarLength", "NotLookedAt"}
  BY DEF PatternFaults, Fault
<1> HIDE DEF again, twice, typed, range
<1> QED BY <1>2, <1>3, <1>4

LEMMA CreateJudged ==
  ASSUME NEW c \in Clauses, c.op = "create", NEW s \in States, NEW sc \in Scopes, NEW read, Fits(s, sc, read)
  PROVE  Judged(CreateErrors(c, s), CreateFaults(c, sc), read)
<1> DEFINE both == \E i \in DOMAIN c.elems : c.elems[i].rel /\ c.elems[i].both
           known(i) == Present(sc) \cup Earlier(c, i)
           unknown == \E i \in DOMAIN c.elems :
                        /\ ~c.elems[i].rel
                        /\ ~(Seen(c.elems[i].uses, CreateWalk) \subseteq Known(s) \cup Earlier(c, i + 1))
           wrong(i) == LET x == c.elems[i] IN
                       IF x.rel THEN {}
                       ELSE Undefined(x.uses, known(i) \cup {x.name}, {"arith", "fn"})
                            \cup Fault("NotLookedAt", \E t \in x.uses.terms : t.name = x.name /\ x.name \notin known(i))
           all == UNION {wrong(i) : i \in DOMAIN c.elems}
<1>1. Known(s) = Present(sc)
  BY FitsKnown
<1>2. \A i \in DOMAIN c.elems : \A t \in c.elems[i].uses.terms : t.name \in Names
  <2>1. \A i \in DOMAIN c.elems : c.elems[i].uses \in ExprsOf(c)
    BY DEF ExprsOf
  <2> QED BY <2>1, ExpressionAssumption
<1>3. \A i \in DOMAIN c.elems : \A n \in Names : n \in Earlier(c, i + 1) <=> n \in Earlier(c, i) \cup {c.elems[i].name}
  <2>1. \A i \in DOMAIN c.elems : i \in Nat /\ 1 .. (i + 1) - 1 = (1 .. i - 1) \cup {i}
    BY ClauseAssumption
  <2> QED BY <2>1, NameAssumption DEF Earlier
<1>4. CreateErrors(c, s) = {} <=> ShapeErrors(c, s) = {} /\ ~both /\ ~unknown
  BY DEF CreateErrors, Refused
<1>5. CreateFaults(c, sc) = PatternFaults(c, sc) \cup Fault("RequiresDirectedRelationship", both) \cup all
  BY DEF CreateFaults
<1>6. /\ all \subseteq {"UndefinedVariable", "NotLookedAt"}
      /\ unknown => all # {}
      /\ "UndefinedVariable" \in all => unknown
  <2>1. all \subseteq {"UndefinedVariable", "NotLookedAt"}
    <3>1. \A i : wrong(i) \subseteq {"UndefinedVariable", "NotLookedAt"}
      BY UndefinedNames DEF Fault
    <3> HIDE DEF wrong
    <3> QED BY <3>1
  <2>2. ASSUME unknown PROVE all # {}
    <3>1. PICK i \in DOMAIN c.elems :
            ~c.elems[i].rel /\ ~(Seen(c.elems[i].uses, CreateWalk) \subseteq Known(s) \cup Earlier(c, i + 1))
      BY <2>2
    <3>2. PICK t \in c.elems[i].uses.terms : t.name \notin Known(s) \cup Earlier(c, i + 1)
      BY <3>1, SeenNames
    <3>3. t.name \notin known(i) \cup {c.elems[i].name}
      BY <1>1, <1>2, <1>3, <3>2
    <3>4. Undefined(c.elems[i].uses, known(i) \cup {c.elems[i].name}, {"arith", "fn"}) # {}
      BY <3>3, UndefinedNames
    <3>5. wrong(i) # {}
      BY <3>1, <3>4
    <3> HIDE DEF wrong
    <3> QED BY <3>5
  <2>3. ASSUME "UndefinedVariable" \in all PROVE unknown
    <3>1. PICK i \in DOMAIN c.elems : "UndefinedVariable" \in wrong(i)
      BY <2>3
    <3>2. ~c.elems[i].rel /\ "UndefinedVariable" \in Undefined(c.elems[i].uses, known(i) \cup {c.elems[i].name}, {"arith", "fn"})
      BY <3>1 DEF Fault
    <3>3. PICK t \in c.elems[i].uses.terms : t.name \notin known(i) \cup {c.elems[i].name} /\ t.through \subseteq {"arith", "fn"}
      BY <3>2, UndefinedNames
    <3>4. t.name \notin Known(s) \cup Earlier(c, i + 1) /\ t.through \subseteq CreateWalk
      BY <1>1, <1>2, <1>3, <3>3, Walks
    <3>5. ~(Seen(c.elems[i].uses, CreateWalk) \subseteq Known(s) \cup Earlier(c, i + 1))
      BY <3>4, SeenNames
    <3> QED BY <3>2, <3>5
  <2> QED BY <2>1, <2>2, <2>3
<1> HIDE DEF both, unknown, all
<1>7. CreateFaults(c, sc) = {} => CreateErrors(c, s) = {}
  BY <1>4, <1>5, <1>6, ShapeJudged DEF Fault
<1>8. CreateErrors(c, s) = {} => CreateFaults(c, sc) \subseteq {"NotLookedAt"}
  BY <1>4, <1>5, <1>6, ShapeJudged DEF Fault
<1> QED BY <1>7, <1>8 DEF Judged, Firm, Kindred

LEMMA MergeJudged ==
  ASSUME NEW c \in Clauses, c.op = "merge", NEW s \in States, NEW sc \in Scopes, NEW read, Fits(s, sc, read)
  PROVE  Judged(MergeErrors(c, s), MergeFaults(c, sc), read)
<1> DEFINE names == Present(Made(c, sc))
           null == \E i \in DOMAIN c.elems : c.elems[i].null
           unnamed == \E i \in c.sets : i.name \notin names
           unknown == \E i \in Valued(c.sets) : ~(Seen(i.value, MergeWalk) \subseteq names)
           values == ValueFaults(c.sets, names, {"arith"})
<1>1. Known(AfterMerge(c, s)) = names
  <2>1. c.paths \cup Introduced(c) \subseteq Names
    BY ClauseAssumption
  <2>2. \A n \in Names : Made(c, sc)[n] # "absent" <=> sc[n] # "absent" \/ n \in Introduced(c) \cup c.paths
    BY DEF Made, Typed, Present
  <2>3. names = Present(sc) \cup Introduced(c) \cup c.paths
    BY <2>1, <2>2 DEF Present
  <2>4. /\ AfterMerge(c, s).bound = s.bound \cup Introduced(c) \cup c.paths
        /\ \A n \in Names : AfterMerge(c, s).kinds[n] # "none" => n \in c.paths \cup Introduced(c) \/ s.kinds[n] # "none"
    BY DEF AfterMerge, States
  <2>5. {n \in Names : AfterMerge(c, s).kinds[n] # "none"} \subseteq AfterMerge(c, s).bound
    BY <2>4 DEF Fits
  <2> QED BY <2>3, <2>4, <2>5 DEF Known, Fits
<1>2. MergeErrors(c, s) = {} <=> ShapeErrors(c, s) = {} /\ ~null /\ ~unnamed /\ ~unknown
  BY <1>1 DEF MergeErrors, Refused
<1>3. MergeFaults(c, sc) =
        PatternFaults(c, sc) \cup Fault("SemanticError", null) \cup Fault("UndefinedVariable", unnamed) \cup values
  BY DEF MergeFaults
<1>4. /\ values \subseteq {"UndefinedVariable", "NotLookedAt"}
      /\ unknown => values # {}
      /\ "UndefinedVariable" \in values => unknown
  BY Walks, ValuesJudged
<1> HIDE DEF null, unnamed, unknown, values
<1>5. MergeFaults(c, sc) = {} => MergeErrors(c, s) = {}
  BY <1>2, <1>3, <1>4, ShapeJudged DEF Fault
<1>6. MergeErrors(c, s) = {} => MergeFaults(c, sc) \subseteq {"NotLookedAt"}
  BY <1>2, <1>3, <1>4, ShapeJudged DEF Fault
<1> QED BY <1>5, <1>6 DEF Judged, Firm, Kindred

\* A DISTINCT that sorts by what it does not return.
LEMMA DistinctJudged ==
  ASSUME NEW c \in Clauses, c.op = "return", NEW s \in States, NEW sc \in Scopes, NEW read, Fits(s, sc, read)
  PROVE  /\ DistinctErrors(c, s) = {} <=> "UndefinedVariable" \notin DistinctFaults(c, sc)
         /\ DistinctFaults(c, sc) \subseteq {"UndefinedVariable", "NotLookedAt"}
<1> DEFINE shown == Aliases(c) \cup {t.name : t \in {u \in TermsOf(Exprs(c)) : u.key = NoKey}}
           named == {t.name : t \in UNION {e.terms : e \in {x \in Exprs(c) : x.top = "name"}}}
           columns == Projected(c) \cup named
           hidden == {e \in c.orderBy : e \notin Exprs(c) /\ \E t \in e.terms : t.name \notin columns}
<1>1. \A e \in Exprs(c) \cup c.orderBy : e \in ExprsOf(c)
  BY DEF ExprsOf
<1>2. \A e \in Exprs(c) : e.top = "name" => \E t : e.terms = {t} /\ t.through = {} /\ t.key = NoKey
  BY <1>1, ExpressionAssumption DEF IsTerm
<1>3. \A e \in Exprs(c) : e.top = "property" => \E t : e.terms = {t} /\ t.key # NoKey
  BY <1>1, ExpressionAssumption DEF IsTerm
<1>4. {t.name : t \in {u \in TermsOf(Exprs(c)) : u.key = NoKey}} = named
  <2>1. ASSUME NEW u \in TermsOf(Exprs(c)), u.key = NoKey
        PROVE  u.name \in named
    <3>1. PICK e \in Exprs(c) : IsTerm(e) /\ u \in AtomicTerms(e)
      BY DEF TermsOf
    <3>2. PICK t \in e.terms : u = [name |-> t.name, key |-> t.key]
      BY <3>1 DEF AtomicTerms, Under
    <3>3. e.top = "name" /\ u.name = t.name
      BY <1>3, <2>1, <3>1, <3>2 DEF IsTerm
    <3> QED BY <3>2, <3>3
  <2>2. ASSUME NEW e \in Exprs(c), e.top = "name", NEW t \in e.terms
        PROVE  \E u \in TermsOf(Exprs(c)) : u.key = NoKey /\ u.name = t.name
    <3>1. t.through = {} /\ t.key = NoKey
      BY <1>2, <2>2
    <3>2. t \in Under(e, AtomWalk)
      BY <3>1 DEF Under
    <3>3. [name |-> t.name, key |-> t.key] \in AtomicTerms(e)
      BY <3>2 DEF AtomicTerms
    <3>4. [name |-> t.name, key |-> t.key] \in TermsOf(Exprs(c))
      BY <2>2, <3>3 DEF TermsOf, IsTerm
    <3>5. [name |-> t.name, key |-> t.key].key = NoKey /\ [name |-> t.name, key |-> t.key].name = t.name
      BY <3>1
    <3> QED BY <3>4, <3>5
  <2>3. \A n \in {t.name : t \in {u \in TermsOf(Exprs(c)) : u.key = NoKey}} : n \in named
    BY <2>1
  <2>4. \A n \in named : n \in {t.name : t \in {u \in TermsOf(Exprs(c)) : u.key = NoKey}}
    BY <2>2
  <2> QED BY <2>3, <2>4
<1>5. \A n \in Names : n \in columns <=> n \in shown
  <2> DEFINE a(i) == c.items[i].alias
             x(i) == c.items[i].expr
  <2>1. \A i \in DOMAIN c.items : NameOf(c.items[i]) = IF a(i) # NoName \/ x(i).top # "name" THEN a(i) ELSE TheName(x(i))
    BY DEF NameOf
  <2>2. \A i \in DOMAIN c.items : x(i).top = "name" => TheName(x(i)) \in named
    <3> TAKE i \in DOMAIN c.items
    <3> HAVE x(i).top = "name"
    <3>1. x(i) \in Exprs(c)
      BY DEF Exprs
    <3>2. PICK t : x(i).terms = {t}
      BY <1>2, <3>1
    <3>3. TheName(x(i)) = t.name
      BY <3>2, NameOfOne
    <3>4. t \in UNION {e.terms : e \in {y \in Exprs(c) : y.top = "name"}}
      BY <3>1, <3>2
    <3> QED BY <3>3, <3>4
  <2> HIDE DEF x, named
  <2>3. \A n \in Names : n \in Projected(c) => n \in Aliases(c) \cup named
    BY <2>1, <2>2, NameAssumption DEF Projected, Aliases
  <2>4. Aliases(c) \subseteq Projected(c)
    BY <2>1 DEF Projected, Aliases
  <2> QED BY <1>4, <2>3, <2>4
<1>6. \A e \in c.orderBy : e.top = "property" => \E t : e.terms = {t} /\ t.name \in Names
  BY <1>1, ExpressionAssumption DEF IsTerm
<1>7. Known(s) = Present(sc)
  BY FitsKnown
<1> DEFINE unreturned == c.distinct /\ \E e \in c.orderBy : /\ e.top = "property" /\ e \notin Exprs(c)
                                                         /\ \E t \in e.terms : t.name \in Known(s) \ shown
           sought == c.distinct /\ \E e \in hidden : e.top = "property" /\ \A t \in e.terms : t.name \in Present(sc)
<1>8. DistinctErrors(c, s) = {} <=> ~unreturned
  BY DEF DistinctErrors, Refused
<1>9. /\ "UndefinedVariable" \in DistinctFaults(c, sc) <=> sought
      /\ DistinctFaults(c, sc) \subseteq {"UndefinedVariable", "NotLookedAt"}
  BY DEF DistinctFaults, Fault
<1> HIDE DEF shown, columns, named
<1>10. unreturned <=> sought
  <2>1. ASSUME NEW e \in c.orderBy, e.top = "property", e \notin Exprs(c)
        PROVE  (\E t \in e.terms : t.name \in Known(s) \ shown)
                 <=> (\E t \in e.terms : t.name \notin columns) /\ \A t \in e.terms : t.name \in Present(sc)
    <3>1. PICK t : e.terms = {t} /\ t.name \in Names
      BY <1>6, <2>1
    <3> QED BY <1>5, <1>7, <3>1
  <2> QED BY <2>1
<1> QED BY <1>8, <1>9, <1>10

\* The arguments of size().
LEMMA SizeJudged ==
  ASSUME NEW c \in Clauses, c.op = "return", NEW s \in States, NEW sc \in Scopes, NEW read, Fits(s, sc, read)
  PROVE  LET patterns == {FaultIn(t, Usual \cup {"neg", "size", "pattern"}, "UnexpectedSyntax") :
                            t \in {u \in Inner(c) : {"size", "pattern"} \subseteq u.through}}
             paths == {FaultIn(t, Usual \cup {"neg", "size"}, "InvalidArgumentType") :
                         t \in {u \in Inner(c) : "size" \in u.through /\ u.key = NoKey /\ sc[u.name] = "path"}}
         IN  /\ patterns \subseteq {"UnexpectedSyntax", "NotLookedAt"} /\ paths \subseteq {"InvalidArgumentType", "NotLookedAt"}
             /\ patterns \cup paths = {} => \A e \in Exprs(c) : SizeErrors(e, s) = {}
             /\ (\A e \in Exprs(c) : SizeErrors(e, s) = {}) =>
                  "UnexpectedSyntax" \notin patterns /\ ("create" \notin read => "InvalidArgumentType" \notin paths)
<1> DEFINE patterns == {FaultIn(t, Usual \cup {"neg", "size", "pattern"}, "UnexpectedSyntax") :
                          t \in {u \in Inner(c) : {"size", "pattern"} \subseteq u.through}}
           paths == {FaultIn(t, Usual \cup {"neg", "size"}, "InvalidArgumentType") :
                       t \in {u \in Inner(c) : "size" \in u.through /\ u.key = NoKey /\ sc[u.name] = "path"}}
           onPath(t) == t.through \subseteq SizeWalk /\ t.key = NoKey /\ "size" \in t.through
           onPattern(t) == t.through \subseteq SizeWalk \cup {"pattern"} /\ {"size", "pattern"} \subseteq t.through
<1>1. \A t \in Inner(c) : t.name \in Names
  <2>1. \A e \in Exprs(c) : e \in ExprsOf(c)
    BY DEF ExprsOf
  <2>2. \A e \in Exprs(c) : \A t \in e.terms : t.name \in Names
    BY <2>1, ExpressionAssumption
  <2> QED BY <2>2 DEF Inner
<1>2. \A t : t \in Inner(c) <=> \E e \in Exprs(c) : t \in e.terms
  BY DEF Inner
<1>3. (\A e \in Exprs(c) : SizeErrors(e, s) = {}) <=>
        \A t \in Inner(c) : ~onPattern(t) /\ (onPath(t) => s.kinds[t.name] # "Path")
  <2>1. ASSUME NEW e
        PROVE  SizeErrors(e, s) = {} <=> \A t \in e.terms : ~onPattern(t) /\ (onPath(t) => s.kinds[t.name] # "Path")
    BY DEF SizeErrors, Refused, Under
  <2> HIDE DEF onPath, onPattern
  <2> QED BY <1>2, <2>1
<1>4. patterns \subseteq {"UnexpectedSyntax", "NotLookedAt"} /\ paths \subseteq {"InvalidArgumentType", "NotLookedAt"}
  BY DEF FaultIn
<1>5. "UnexpectedSyntax" \in patterns => \E t \in Inner(c) : onPattern(t)
  BY Walks DEF FaultIn
<1>6. "InvalidArgumentType" \in paths => \E t \in Inner(c) : onPath(t) /\ sc[t.name] = "path"
  BY Walks DEF FaultIn
<1>7. patterns = {} => \A t \in Inner(c) : ~onPattern(t)
  OBVIOUS
<1>8. paths = {} => \A t \in Inner(c) : onPath(t) => sc[t.name] # "path"
  OBVIOUS
<1>9. \A n \in Names : s.kinds[n] = "Path" => sc[n] = "path"
  BY MeansKind DEF Fits
<1>10. "create" \notin read => \A n \in Names : sc[n] = "path" => s.kinds[n] = "Path"
  BY MeansKind DEF Fits, Present
<1> HIDE DEF patterns, paths, onPath, onPattern
<1>11. patterns \cup paths = {} => \A e \in Exprs(c) : SizeErrors(e, s) = {}
  BY <1>1, <1>3, <1>7, <1>8, <1>9
<1>12. (\A e \in Exprs(c) : SizeErrors(e, s) = {}) =>
         "UnexpectedSyntax" \notin patterns /\ ("create" \notin read => "InvalidArgumentType" \notin paths)
  BY <1>1, <1>3, <1>5, <1>6, <1>10
<1> QED BY <1>4, <1>11, <1>12 DEF patterns, paths

LEMMA ReturnJudged ==
  ASSUME NEW c \in Clauses, c.op = "return", NEW s \in States, NEW sc \in Scopes, NEW read, Fits(s, sc, read),
         "match" \in ops => s.matched
  PROVE  Judged(ReturnErrors(c, s), ReturnFaults(c, sc), read)
<1> DEFINE patterns == {FaultIn(t, Usual \cup {"neg", "size", "pattern"}, "UnexpectedSyntax") :
                          t \in {u \in Inner(c) : {"size", "pattern"} \subseteq u.through}}
           paths == {FaultIn(t, Usual \cup {"neg", "size"}, "InvalidArgumentType") :
                       t \in {u \in Inner(c) : "size" \in u.through /\ u.key = NoKey /\ sc[u.name] = "path"}}
           pattern == \E e \in Exprs(c) : e.top = "pattern"
           nested == \E e \in Exprs(c) : e.top = "agg" /\ \E g \in e.aggs : g.nested
           sized == \E e \in Exprs(c) : SizeErrors(e, s) # {}
           unknown == \E e \in Exprs(c) : ~(Seen(e, ReturnWalk) \subseteq Known(s))
           undefined == UNION {Undefined(e, Present(sc), Usual \cup {"map", "label"}) : e \in Exprs(c)}
           inner == {h \in UNION {e.aggs : e \in Exprs(c)} : "comp" \in h.through}
           comps == {FaultIn(g, Usual \cup {"neg", "list", "comp"}, "InvalidAggregation") : g \in inner}
           comp == \E g \in inner : g.through \subseteq CompWalk
<1>1. s.bound = Present(sc) /\ Known(s) = Present(sc)
  BY FitsKnown
<1>2. ReturnErrors(c, s) = {} <=>
        /\ ~(c.star /\ s.matched /\ s.bound = {})
        /\ ~pattern /\ ~sized /\ ~nested /\ ~unknown /\ DistinctErrors(c, s) = {} /\ ~comp /\ AggregateErrors(c) = {}
  <2>1. comp <=> \E e \in Exprs(c) : \E g \in e.aggs : "comp" \in g.through /\ g.through \subseteq CompWalk
    OBVIOUS
  <2>2. ~sized <=> (UNION {SizeErrors(e, s) : e \in Exprs(c)}) = {}
    OBVIOUS
  <2> HIDE DEF comp, sized
  <2> QED BY <2>1, <2>2 DEF ReturnErrors, Refused
<1>3. ReturnFaults(c, sc) =
        Fault(IF "match" \in ops THEN "NoVariablesInScope" ELSE "NotLookedAt", c.star /\ Present(sc) = {})
        \cup Fault("UnexpectedSyntax", pattern)
        \cup patterns \cup paths \cup undefined \cup comps
        \cup DistinctFaults(c, sc)
        \cup AggregateFaults(c)
  BY DEF ReturnFaults
<1>4. /\ undefined \subseteq {"UndefinedVariable", "NotLookedAt"}
      /\ unknown => undefined # {}
      /\ "UndefinedVariable" \in undefined => unknown
  <2>1. \A e : Undefined(e, Present(sc), Usual \cup {"map", "label"}) \subseteq {"UndefinedVariable", "NotLookedAt"}
    BY UndefinedNames
  <2>2. ASSUME NEW e \in Exprs(c), ~(Seen(e, ReturnWalk) \subseteq Known(s))
        PROVE  undefined # {}
    <3>1. \E t \in e.terms : t.name \notin Present(sc)
      BY <1>1, <2>2, SeenNames
    <3>2. Undefined(e, Present(sc), Usual \cup {"map", "label"}) # {}
      BY <3>1, UndefinedNames
    <3> QED BY <3>2
  <2>3. ASSUME NEW e \in Exprs(c), "UndefinedVariable" \in Undefined(e, Present(sc), Usual \cup {"map", "label"})
        PROVE  unknown
    <3>1. PICK t \in e.terms : t.name \notin Present(sc) /\ t.through \subseteq Usual \cup {"map", "label"}
      BY <2>3, UndefinedNames
    <3>2. t.through \subseteq ReturnWalk
      BY <3>1, Walks
    <3>3. ~(Seen(e, ReturnWalk) \subseteq Known(s))
      BY <1>1, <3>1, <3>2, SeenNames
    <3> QED BY <3>3
  <2> QED BY <2>1, <2>2, <2>3
<1>5. /\ comps \subseteq {"InvalidAggregation", "NotLookedAt"}
      /\ comp => comps # {}
      /\ "InvalidAggregation" \in comps => comp
  BY Walks DEF FaultIn
<1>6. /\ patterns \subseteq {"UnexpectedSyntax", "NotLookedAt"} /\ paths \subseteq {"InvalidArgumentType", "NotLookedAt"}
      /\ patterns \cup paths = {} => ~sized
      /\ ~sized => "UnexpectedSyntax" \notin patterns /\ ("create" \notin read => "InvalidArgumentType" \notin paths)
  <2>1. ~sized <=> \A e \in Exprs(c) : SizeErrors(e, s) = {}
    OBVIOUS
  <2> HIDE DEF pattern, nested, sized, unknown, undefined, inner, comps, comp
  <2>2. /\ patterns \subseteq {"UnexpectedSyntax", "NotLookedAt"} /\ paths \subseteq {"InvalidArgumentType", "NotLookedAt"}
        /\ patterns \cup paths = {} => \A e \in Exprs(c) : SizeErrors(e, s) = {}
        /\ (\A e \in Exprs(c) : SizeErrors(e, s) = {}) =>
             "UnexpectedSyntax" \notin patterns /\ ("create" \notin read => "InvalidArgumentType" \notin paths)
    BY SizeJudged, Zenon
  <2> HIDE DEF patterns, paths
  <2> QED BY <2>1, <2>2
<1>7. /\ "NestedAggregation" \in AggregateFaults(c) <=> nested
      /\ AggregateFaults(c) \subseteq {"AmbiguousAggregation", "InvalidAggregation", "NestedAggregation", "NotLookedAt"}
      /\ AggregateErrors(c) = {} <=>
           "AmbiguousAggregation" \notin AggregateFaults(c) /\ "InvalidAggregation" \notin AggregateFaults(c)
  BY AggregateNames, AggregatesAlike
<1>8. /\ DistinctErrors(c, s) = {} <=> "UndefinedVariable" \notin DistinctFaults(c, sc)
      /\ DistinctFaults(c, sc) \subseteq {"UndefinedVariable", "NotLookedAt"}
  BY DistinctJudged
<1> HIDE DEF patterns, paths, pattern, nested, sized, unknown, undefined, comps, comp
<1>9. ReturnFaults(c, sc) = {} => ReturnErrors(c, s) = {}
  BY <1>1, <1>2, <1>3, <1>4, <1>5, <1>6, <1>7, <1>8 DEF Fault
<1>10. ReturnErrors(c, s) = {} =>
         ReturnFaults(c, sc) \subseteq {"NotLookedAt"} \cup (IF "create" \in read THEN {"InvalidArgumentType"} ELSE {})
  BY <1>1, <1>2, <1>3, <1>4, <1>5, <1>6, <1>7, <1>8 DEF Fault
<1> QED BY <1>9, <1>10 DEF Judged, Firm, Kindred

\* What is wrong with a clause is never what is wrong with a UNION.
LEMMA PatternNames ==
  ASSUME NEW c, NEW sc
  PROVE  PatternFaults(c, sc) \cap OfUnion = {}
BY DEF PatternFaults, Fault, OfUnion

LEMMA ValueNames ==
  ASSUME NEW items, NEW names, NEW places
  PROVE  ValueFaults(items, names, places) \cap OfUnion = {}
BY ValuesJudged DEF OfUnion

LEMMA ClauseNames ==
  ASSUME NEW c, NEW sc
  PROVE  /\ MatchFaults(c, sc) \cap OfUnion = {} /\ WithFaults(c, sc) \cap OfUnion = {}
         /\ ReturnFaults(c, sc) \cap OfUnion = {} /\ DeleteFaults(c, sc) \cap OfUnion = {}
         /\ SetFaults(c, sc) \cap OfUnion = {} /\ CreateFaults(c, sc) \cap OfUnion = {}
         /\ MergeFaults(c, sc) \cap OfUnion = {}
<1>1. \A e, names, places : Undefined(e, names, places) \cap OfUnion = {}
  BY UndefinedNames DEF OfUnion
<1>2. AggregateFaults(c) \cap OfUnion = {}
  BY AggregateNames DEF OfUnion
<1>3. \A what, here : what \notin OfUnion => Fault(what, here) \cap OfUnion = {}
  BY DEF Fault
<1>4. \A t, places, what : what \notin OfUnion => FaultIn(t, places, what) \notin OfUnion
  BY DEF FaultIn, OfUnion
<1>5. MatchFaults(c, sc) \cap OfUnion = {}
  BY UndefinedNames DEF MatchFaults, WhereFaults, Fault, OfUnion
<1>6. WithFaults(c, sc) \cap OfUnion = {}
  <2> DEFINE sorts == UNION {IF Present(sc) = {} THEN Fault("NotLookedAt", e.terms # {}) ELSE Undefined(e, Sortable(c, sc), Usual) :
                               e \in {x \in c.orderBy : x.aggs = {}}}
  <2>1. \A e : Fault("NotLookedAt", e.terms # {}) \cap OfUnion = {}
    BY DEF Fault, OfUnion
  <2>2. sorts \cap OfUnion = {}
    BY <1>1, <2>1
  <2> HIDE DEF sorts
  <2>3. CASE c.star
    BY <2>3 DEF WithFaults
  <2>4. CASE ~c.star
    <3>1. WithFaults(c, sc) =
            Fault("UnexpectedSyntax", \E e \in Exprs(c) : e.top = "pattern")
            \cup Fault("NoExpressionAlias", NoName \in Projected(c))
            \cup Fault("NotLookedAt", \E i, j \in DOMAIN c.items : i # j /\ NameOf(c.items[i]) = NameOf(c.items[j]))
            \cup Fault("NotLookedAt", \E e \in Exprs(c) : \E t \in e.terms : t.name \notin Present(sc))
            \cup sorts
            \cup Fault("UndefinedVariable", \E e \in c.orderBy : e.aggs # {} /\ OutsideAggregates(e) = {} /\ e \notin Exprs(c))
            \cup AggregateFaults(c)
      BY <2>4 DEF WithFaults, sorts
    <3> QED BY <1>2, <2>2, <3>1 DEF Fault, OfUnion
  <2> QED BY <2>3, <2>4
<1>7. ReturnFaults(c, sc) \cap OfUnion = {}
  <2> DEFINE patterns == {FaultIn(t, Usual \cup {"neg", "size", "pattern"}, "UnexpectedSyntax") :
                            t \in {u \in Inner(c) : {"size", "pattern"} \subseteq u.through}}
             paths == {FaultIn(t, Usual \cup {"neg", "size"}, "InvalidArgumentType") :
                         t \in {u \in Inner(c) : "size" \in u.through /\ u.key = NoKey /\ sc[u.name] = "path"}}
             undefined == UNION {Undefined(e, Present(sc), Usual \cup {"map", "label"}) : e \in Exprs(c)}
             comps == {FaultIn(g, Usual \cup {"neg", "list", "comp"}, "InvalidAggregation") :
                         g \in {h \in UNION {e.aggs : e \in Exprs(c)} : "comp" \in h.through}}
  <2>1. undefined \cap OfUnion = {}
    BY <1>1
  <2>2. patterns \cap OfUnion = {} /\ paths \cap OfUnion = {} /\ comps \cap OfUnion = {}
    BY DEF FaultIn, OfUnion
  <2>3. DistinctFaults(c, sc) \cap OfUnion = {}
    BY DEF DistinctFaults, Fault, OfUnion
  <2>4. ReturnFaults(c, sc) =
          Fault(IF "match" \in ops THEN "NoVariablesInScope" ELSE "NotLookedAt", c.star /\ Present(sc) = {})
          \cup Fault("UnexpectedSyntax", \E e \in Exprs(c) : e.top = "pattern")
          \cup patterns \cup paths \cup undefined \cup comps
          \cup DistinctFaults(c, sc)
          \cup AggregateFaults(c)
    BY DEF ReturnFaults
  <2> HIDE DEF patterns, paths, undefined, comps
  <2> QED BY <1>2, <2>1, <2>2, <2>3, <2>4 DEF Fault, OfUnion
<1>8. DeleteFaults(c, sc) \cap OfUnion = {}
  BY DEF DeleteFaults, Fault, OfUnion
<1>9. SetFaults(c, sc) \cap OfUnion = {}
  <2> DEFINE patterns == {FaultIn(t, Usual \cup {"list", "map", "comp", "pattern"}, "UnexpectedSyntax") :
                            t \in {u \in UNION {i.value.terms : i \in {j \in c.items : j.form = "property"}} : "pattern" \in u.through}}
             values == ValueFaults(c.items, Present(sc), {"arith", "cmp", "not", "fn"})
  <2>1. patterns \cap OfUnion = {}
    BY DEF FaultIn, OfUnion
  <2>2. values \cap OfUnion = {}
    BY ValueNames
  <2>3. SetFaults(c, sc) =
          Fault("InvalidPropertyType", \E i \in c.items : i.form = "property" /\ i.value.top \in {"map", "maps"})
          \cup patterns
          \cup Fault("NotLookedAt", \E i \in c.items : i.name \notin Present(sc))
          \cup IF Present(sc) = {} THEN Fault("NotLookedAt", \E i \in c.items : i.value.terms # {}) ELSE values
    BY DEF SetFaults
  <2> HIDE DEF patterns, values
  <2> QED BY <2>1, <2>2, <2>3 DEF Fault, OfUnion
<1>10. CreateFaults(c, sc) \cap OfUnion = {}
  <2> DEFINE known(i) == Present(sc) \cup Earlier(c, i)
             wrong(i) == LET x == c.elems[i] IN
                         IF x.rel THEN {}
                         ELSE Undefined(x.uses, known(i) \cup {x.name}, {"arith", "fn"})
                              \cup Fault("NotLookedAt", \E t \in x.uses.terms : t.name = x.name /\ x.name \notin known(i))
             all == UNION {wrong(i) : i \in DOMAIN c.elems}
  <2>1. \A i : wrong(i) \cap OfUnion = {}
    BY <1>1 DEF Fault, OfUnion
  <2> HIDE DEF wrong
  <2>2. all \cap OfUnion = {}
    BY <2>1
  <2>3. CreateFaults(c, sc) =
          PatternFaults(c, sc)
          \cup Fault("RequiresDirectedRelationship", \E i \in DOMAIN c.elems : c.elems[i].rel /\ c.elems[i].both)
          \cup all
    BY DEF CreateFaults, wrong
  <2> HIDE DEF all
  <2> QED BY <2>2, <2>3, PatternNames DEF Fault, OfUnion
<1>11. MergeFaults(c, sc) \cap OfUnion = {}
  <2>1. ValueFaults(c.sets, Present(Made(c, sc)), {"arith"}) \cap OfUnion = {}
    BY ValueNames
  <2> QED BY <2>1, PatternNames DEF MergeFaults, Fault, OfUnion
<1> QED BY <1>5, <1>6, <1>7, <1>8, <1>9, <1>10, <1>11

-----------------------------------------------------------------------------
(* The verdict on every query. *)

ColumnLists == {NoColumns} \cup {Columns(c) : c \in Clauses}
VerdictInv ==
  /\ ScopeInv
  /\ arm \in ColumnLists /\ arms \in Seq(ColumnLists)
  /\ Sound /\ "match" \in ops => seen.matched
  /\ ValidAccepted /\ WrongRefused

\* A clause that is read and judged.
LEMMA JudgedOn ==
  ASSUME VerdictInv, ScopeInv', NEW c \in Clauses, NEW STATE errors, NEW STATE then, NEW STATE wrong, NEW STATE after,
         Clause(c, errors, then, wrong, after), arm' \in ColumnLists, arms' \in Seq(ColumnLists),
         errors = {} /\ ("match" \in ops => seen.matched) /\ ("match" \in ops' => "match" \in ops \/ c.op = "match")
           => ("match" \in ops' => then.matched),
         wrong \cap OfUnion = {},
         ASSUME Fits(seen, scope, ops), "match" \in ops => seen.matched, c.op \notin {"union", "call"}
         PROVE  Judged(errors, wrong, ops)
  PROVE  VerdictInv'
<1>1. verdict = "open" /\ faults = {} /\ faults' = wrong /\ verdict' = IF errors = {} THEN "open" ELSE "refused"
  BY DEF Clause, Follows
<1>2. ops \subseteq ops' /\ c.op \in ops' /\ ("match" \in ops' => "match" \in ops \/ c.op = "match")
  BY DEF Clause
<1>3. ASSUME Followed'
      PROVE  Judged(errors, wrong, ops) /\ ("match" \in ops => seen.matched)
  <2>1. Sound /\ c.op \notin {"union", "call"}
    BY <1>1, <1>2, <1>3 DEF Sound, Followed
  <2> QED BY <2>1 DEF VerdictInv, ScopeInv
<1>4. ValidAccepted'
  BY <1>1, <1>3 DEF ValidAccepted, Judged
<1>5. WrongRefused'
  <2> SUFFICES ASSUME errors = {} PROVE wrong \cap Promised' = {}
    BY <1>1 DEF WrongRefused
  <2>1. Promised' = OfUnion \cup IF ~Followed' THEN {} ELSE Firm \cup IF "create" \in ops' THEN {} ELSE Kindred
    BY DEF Promised, Followed, OfUnion, Firm, Kindred
  <2> QED BY <1>2, <1>3, <2>1 DEF Judged
<1>6. Sound' /\ "match" \in ops' => seen'.matched
  <2> SUFFICES ASSUME Sound', "match" \in ops' PROVE seen'.matched
    OBVIOUS
  <2>1. errors = {} /\ seen' = then
    BY <1>1 DEF Sound, Clause
  <2> QED BY <1>2, <1>3, <2>1 DEF Sound
<1> QED BY <1>4, <1>5, <1>6 DEF VerdictInv

LEMMA VerdictInit == Init => VerdictInv
<1> SUFFICES ASSUME Init PROVE VerdictInv
  OBVIOUS
<1>1. arm \in ColumnLists /\ arms \in Seq(ColumnLists) /\ faults = {} /\ verdict = "open" /\ ops = {}
  BY DEF Init, ColumnLists
<1> QED BY <1>1, ScopeInit DEF VerdictInv, ValidAccepted, WrongRefused

\* UNION: the arms differ from the first when two of them differ.
LEMMA FinishJudged == VerdictInv /\ Finish => ValidAccepted' /\ WrongRefused'
<1> SUFFICES ASSUME VerdictInv, Finish PROVE ValidAccepted' /\ WrongRefused'
  OBVIOUS
<1> DEFINE all == Append(arms, arm)
           differ == \E i, j \in DOMAIN all : all[i] # all[j]
<1>1. all \in Seq(ColumnLists) /\ DOMAIN all = 1 .. Len(all) /\ Len(all) = Len(arms) + 1 /\ Len(arms) \in Nat
  BY DEF VerdictInv
<1>2. 1 \in DOMAIN all
  BY <1>1
<1> HIDE DEF all
<1>3. differ <=> \E i \in DOMAIN all : all[i] # all[1]
  BY <1>2
<1> HIDE DEF differ
<1>4. UnionErrors(alls, all) = {} <=> alls # BOOLEAN /\ ~differ
  BY <1>3 DEF UnionErrors, Refused
<1>5. /\ verdict = "open" /\ ops' = ops
      /\ verdict' = IF UnionErrors(alls, all) = {} THEN "accepted" ELSE "refused"
      /\ faults' = faults \cup Fault("InvalidClauseComposition", alls = BOOLEAN) \cup Fault("DifferentColumnsInUnion", differ)
  BY DEF Finish, all, differ
<1>6. ValidAccepted'
  BY <1>4, <1>5 DEF ValidAccepted, Fault
<1>7. WrongRefused'
  <2>1. faults \cap Promised = {}
    BY <1>5 DEF VerdictInv, WrongRefused
  <2>2. Promised' = Promised
    BY <1>5 DEF Promised, Followed
  <2> QED BY <1>4, <1>5, <2>1, <2>2 DEF WrongRefused, Fault
<1> QED BY <1>6, <1>7

LEMMA VerdictStep == VerdictInv /\ [Next]_vars => VerdictInv'
<1> SUFFICES ASSUME VerdictInv, [Next]_vars PROVE VerdictInv'
  OBVIOUS
<1>1. ScopeInv /\ ScopeInv'
  BY ScopeStep DEF VerdictInv
<1>2. seen \in States /\ scope \in Scopes /\ arm \in ColumnLists /\ arms \in Seq(ColumnLists)
  BY <1>1 DEF VerdictInv, ScopeInv, ScopeTypeOK, States
<1>3. \A c \in Clauses : Columns(c) \in ColumnLists
  BY DEF ColumnLists
<1>4. CASE Match
  <2>1. PICK c \in Clauses :
          /\ c.op = "match" /\ arm' = arm /\ arms' = arms
          /\ Clause(c, MatchErrors(c, seen), AfterMatch(c, seen), MatchFaults(c, scope), ScopeInMatch(c, scope))
    BY <1>4 DEF Match, Plain
  <2>2. AfterMatch(c, seen).matched
    BY DEF AfterMatch
  <2> QED BY <1>1, <1>2, <2>1, <2>2, ClauseNames, MatchJudged, JudgedOn
<1>5. CASE With
  <2>1. PICK c \in Clauses :
          /\ c.op = "with" /\ arm' = Columns(c) /\ arms' = arms
          /\ Clause(c, WithErrors(c, seen), AfterWith(c, seen), WithFaults(c, scope), ScopeAfterWith(c, scope))
    BY <1>5 DEF With
  <2>2. AfterWith(c, seen).matched = seen.matched
    BY <1>2 DEF AfterWith, States
  <2> QED BY <1>1, <1>2, <1>3, <2>1, <2>2, ClauseNames, WithJudged, JudgedOn
<1>6. CASE Return
  <2>1. PICK c \in Clauses :
          /\ c.op = "return" /\ arm' = Columns(c) /\ arms' = arms
          /\ Clause(c, ReturnErrors(c, seen), seen, ReturnFaults(c, scope), scope)
    BY <1>6 DEF Return
  <2> QED BY <1>1, <1>2, <1>3, <2>1, ClauseNames, ReturnJudged, JudgedOn
<1>7. CASE Unwind
  <2>1. PICK c \in Clauses :
          /\ c.op = "unwind" /\ arm' = arm /\ arms' = arms
          /\ Clause(c, {}, AfterUnwind(c, seen), Fault("NotLookedAt", c.name \in Present(scope)), Typed(scope, {c.name}, "any"))
    BY <1>7 DEF Unwind, Plain
  <2>2. AfterUnwind(c, seen).matched = seen.matched
    BY <1>2 DEF AfterUnwind, States
  <2>3. Fault("NotLookedAt", c.name \in Present(scope)) \subseteq {"NotLookedAt"}
    BY DEF Fault
  <2>4. /\ Fault("NotLookedAt", c.name \in Present(scope)) \cap OfUnion = {}
        /\ Judged({}, Fault("NotLookedAt", c.name \in Present(scope)), ops)
    BY <2>3 DEF OfUnion, Judged, Firm, Kindred
  <2> QED BY <1>1, <1>2, <2>1, <2>2, <2>4, JudgedOn
<1>8. CASE Delete
  <2>1. PICK c \in Clauses :
          /\ c.op = "delete" /\ arm' = arm /\ arms' = arms
          /\ Clause(c, DeleteErrors(c, seen), seen, DeleteFaults(c, scope), scope)
    BY <1>8 DEF Delete, Plain
  <2> QED BY <1>1, <1>2, <2>1, ClauseNames, DeleteJudged, JudgedOn
<1>9. CASE Set
  <2>1. PICK c \in Clauses :
          /\ c.op = "set" /\ arm' = arm /\ arms' = arms
          /\ Clause(c, SetErrors(c, seen), seen, SetFaults(c, scope), scope)
    BY <1>9 DEF Set, Plain
  <2> QED BY <1>1, <1>2, <2>1, ClauseNames, SetJudged, JudgedOn
<1>10. CASE Create
  <2>1. PICK c \in Clauses :
          /\ c.op = "create" /\ arm' = arm /\ arms' = arms
          /\ Clause(c, CreateErrors(c, seen), AfterCreate(c, seen), CreateFaults(c, scope), Made(c, scope))
    BY <1>10 DEF Create, Plain
  <2>2. AfterCreate(c, seen).matched = seen.matched
    BY <1>2 DEF AfterCreate, States
  <2> QED BY <1>1, <1>2, <2>1, <2>2, ClauseNames, CreateJudged, JudgedOn
<1>11. CASE Merge
  <2>1. PICK c \in Clauses :
          /\ c.op = "merge" /\ arm' = arm /\ arms' = arms
          /\ Clause(c, MergeErrors(c, seen), AfterMerge(c, seen), MergeFaults(c, scope), Made(c, scope))
    BY <1>11 DEF Merge, Plain
  <2>2. AfterMerge(c, seen).matched = seen.matched
    BY <1>2 DEF AfterMerge, States
  <2> QED BY <1>1, <1>2, <2>1, <2>2, ClauseNames, MergeJudged, JudgedOn
<1>12. CASE Call
  <2>1. PICK c \in Clauses :
          /\ c.op = "call" /\ arm' = arm /\ arms' = arms
          /\ Clause(c, {}, seen, Fault("NotLookedAt", c.yields \cap Present(scope) # {}), Typed(scope, c.yields, "any"))
    BY <1>12 DEF Call, Plain
  <2>2. Fault("NotLookedAt", c.yields \cap Present(scope) # {}) \cap OfUnion = {}
    BY DEF Fault, OfUnion
  <2> QED BY <1>1, <1>2, <2>1, <2>2, JudgedOn
<1>13. CASE Union
  <2>1. PICK c \in Clauses :
          /\ c.op = "union" /\ arm' = NoColumns /\ arms' = Append(arms, arm)
          /\ Clause(c, {}, seen, {}, [n \in Names |-> "absent"])
    BY <1>13 DEF Union
  <2>2. arm' \in ColumnLists /\ arms' \in Seq(ColumnLists)
    BY <1>2, <2>1 DEF ColumnLists
  <2>3. {} \cap OfUnion = {} /\ c.op # "match" /\ c.op = "union"
    BY <2>1
  <2> QED BY <1>1, <2>1, <2>2, <2>3, JudgedOn
<1>14. CASE Finish
  <2>1. seen' = seen /\ ops' = ops /\ arm' = arm /\ arms' = arms
    BY <1>14 DEF Finish
  <2>2. Sound' => Sound
    BY <1>14 DEF Finish, Sound, Followed
  <2> QED BY <1>1, <1>14, <2>1, <2>2, FinishJudged DEF VerdictInv
<1>15. CASE UNCHANGED vars
  BY <1>1, <1>15 DEF vars, VerdictInv, Sound, Followed, ValidAccepted, WrongRefused, Promised
<1> QED BY <1>4, <1>5, <1>6, <1>7, <1>8, <1>9, <1>10, <1>11, <1>12, <1>13, <1>14, <1>15 DEF Next

LEMMA VerdictInvariant == Spec => []VerdictInv
<1>1. Init => VerdictInv
  BY VerdictInit
<1>2. VerdictInv /\ [Next]_vars => VerdictInv'
  BY VerdictStep
<1> QED BY <1>1, <1>2, PTL DEF Spec

\* validate_semantics never refuses a query in which nothing is wrong.
THEOREM NoneRefused == Spec => []ValidAccepted
<1>1. VerdictInv => ValidAccepted
  BY DEF VerdictInv
<1> QED BY <1>1, VerdictInvariant, PTL

\* validate_semantics refuses every query with a fault it looks for.
THEOREM FaultyRefused == Spec => []WrongRefused
<1>1. VerdictInv => WrongRefused
  BY DEF VerdictInv
<1> QED BY <1>1, VerdictInvariant, PTL
=============================================================================
