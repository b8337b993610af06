------------------------------ MODULE MCWrite -------------------------------
(* Small stores and clauses for the runs of the write path. *)
EXTENDS WriteClaims, TLC

CONSTANTS n1, n2, s1, s2, b1, b2, b3, b4

MCNode == {n1, n2, s1, s2, b1, b2, b3, b4}
MCStableIri == <<s1, s2>>
MCVar == {"n", "m", "r", "x"}
MCAnonVar == {"x"}
SpareSymmetry == Permutations({b1, b2, b3, b4})

\* Pattern and clause shorthands.
Node1(v) == [EmptyGraph EXCEPT !.node = {v}]
Labelled(v, l) == [EmptyGraph EXCEPT !.node = {v}, !.label = {<<v, l>>}]
Valued(v, k, x) == [EmptyGraph EXCEPT !.node = {v}, !.prop = {<<v, k, x>>}]
Edge1(a, t, b) == [EmptyGraph EXCEPT !.edge = {<<a, t, b>>}]

MatchC(p) == [c |-> "match", p |-> p, rels |-> {}]
MatchRel(p, r, a, t, b) == [c |-> "match", p |-> Both(p, Edge1(a, t, b)), rels |-> {<<r, a, t, b>>}]
OptionalC(p) == [c |-> "optional", p |-> p, rels |-> {}]
WithC == [c |-> "with", rename |-> {}, limit |-> FALSE]
WithLimit == [c |-> "with", rename |-> {}, limit |-> TRUE]
WithAs(a, b) == [c |-> "with", rename |-> {<<a, b>>}, limit |-> FALSE]
CreateC(g, order) == [c |-> "create", g |-> g, order |-> order]
SetC(items) == [c |-> "set", items |-> items]
DeleteC(what) == [c |-> "delete", detach |-> FALSE, what |-> what]
DetachC(what) == [c |-> "delete", detach |-> TRUE, what |-> what]
MergeC(v, p, onMatch, onCreate) == [c |-> "mergeNode", v |-> v, p |-> p, onMatch |-> onMatch, onCreate |-> onCreate]
MergeRelC(a, t, b, props, scan, onMatch, onCreate) ==
  [c |-> "mergeRel", from |-> a, rel |-> t, to |-> b, props |-> props, scan |-> scan,
   onMatch |-> onMatch, onCreate |-> onCreate]

PropItem(v, k, x) == [i |-> "prop", v |-> v, k |-> k, x |-> x]
MapItem(v, k, x) == [i |-> "mergeMap", v |-> v, k |-> k, x |-> x]
UnpropItem(v, k) == [i |-> "unprop", v |-> v, k |-> k]
LabelItem(v, l) == [i |-> "label", v |-> v, l |-> l]
UnlabelItem(v, l) == [i |-> "unlabel", v |-> v, l |-> l]
ReplaceItem(v, map) == [i |-> "replace", v |-> v, map |-> map]

Run(clauses) == [cl |-> clauses, ret |-> FALSE]

\* Stores of two nodes: n1 is an A, and the rest is free.
MCGraphs ==
  {[node |-> {n1, n2}, label |-> {<<n1, "A">>} \cup L, prop |-> P, edge |-> E, eprop |-> {}] :
     L \in SUBSET {<<n2, "A">>, <<n2, "B">>}, P \in SUBSET {<<n1, "k", 1>>},
     E \in SUBSET {<<n1, "R", n2>>, <<n2, "R", n2>>}}

-----------------------------------------------------------------------------
(* Queries whose statements mean together what the query means. *)

\* MATCH (n:A) SET n.k = 2, n:B
SetTwice == Run(<<MatchC(Labelled("n", "A")), SetC(<<PropItem("n", "k", Lit(2)), LabelItem("n", "B")>>)>>)
\* MATCH (n:A)-[r:R]->(m) DELETE r CREATE (n)-[:S]->(m)
ReplaceEdge ==
  Run(<<MatchRel(Labelled("n", "A"), "r", "n", "R", "m"), DeleteC(<<"r">>),
        CreateC([Edge1("n", "S", "m") EXCEPT !.node = {"n", "m"}], <<"n", "m">>)>>)
\* MATCH (n:B) CREATE (n)-[:S]->(m:A {k: 1})
Attach ==
  Run(<<MatchC(Labelled("n", "B")),
        CreateC([node |-> {"n", "m"}, label |-> {<<"m", "A">>}, prop |-> {<<"m", "k", 1>>},
                 edge |-> {<<"n", "S", "m">>}, eprop |-> {}], <<"n", "m">>)>>)
\* MATCH (n:A) MATCH (m:B) MERGE (n)-[r:R {k: 1}]->(m) ON CREATE SET r.j = 2
MergeEdge ==
  Run(<<MatchC(Labelled("n", "A")), MatchC(Labelled("m", "B")),
        MergeRelC("n", "R", "m", {<<"k", 1>>}, EmptyGraph, <<>>, <<PropItem("r", "j", Lit(2))>>)>>)
\* MATCH (n {k: 1}) SET n.k = 2 WITH n CREATE (m)-[:S]->(n)
Consume ==
  Run(<<MatchC(Valued("n", "k", 1)), SetC(<<PropItem("n", "k", Lit(2))>>), WithC,
        CreateC([Edge1("m", "S", "n") EXCEPT !.node = {"n", "m"}], <<"m", "n">>)>>)
\* MERGE (n:B) ON CREATE SET n.k = 2
MergeOne == Run(<<MergeC("n", Labelled("n", "B"), <<>>, <<PropItem("n", "k", Lit(2))>>)>>)
\* MATCH (n:A) REMOVE n:B, n.j SET n += {k: null}
Strip == Run(<<MatchC(Labelled("n", "A")), SetC(<<UnlabelItem("n", "B"), UnpropItem("n", "j")>>), SetC(<<MapItem("n", "k", Null)>>)>>)
\* MATCH (n:A) WITH n AS m SET m.j = 1
Rename == Run(<<MatchC(Labelled("n", "A")), WithAs("n", "m"), SetC(<<PropItem("m", "j", Lit(1))>>)>>)
\* MATCH (n)-[r:S]->(m:B) DELETE r
Unlink == Run(<<MatchRel(Labelled("m", "B"), "r", "n", "S", "m"), DeleteC(<<"r">>)>>)

ExactQueries == {SetTwice, ReplaceEdge, Attach, MergeEdge, Consume, MergeOne, Strip, Rename}

\* CREATE (n:B {k: 1}) CREATE (n)-[:R]->(m:A)
CreatePair ==
  Run(<<CreateC([Labelled("n", "B") EXCEPT !.prop = {<<"n", "k", 1>>}], <<"n">>),
        CreateC([node |-> {"n", "m"}, label |-> {<<"m", "A">>}, prop |-> {},
                 edge |-> {<<"n", "R", "m">>}, eprop |-> {}], <<"n", "m">>)>>)
\* CREATE (n:A), (m:B) MERGE (n)-[:S]->(m)
CreateMerge ==
  Run(<<CreateC([EmptyGraph EXCEPT !.node = {"n", "m"}, !.label = {<<"n", "A">>, <<"m", "B">>}], <<"n", "m">>),
        MergeRelC("n", "S", "m", {}, Node1("n"), <<>>, <<>>)>>)

RepeatableQueries == {SetTwice, ReplaceEdge, MergeEdge, MergeOne, Strip, Rename, CreatePair, CreateMerge}

\* MATCH (n:A) CALL f() CREATE (m:B), which is refused
Called == Run(<<MatchC(Labelled("n", "A")), [c |-> "call"], CreateC(Labelled("m", "B"), <<"m">>)>>)

\* The sessions that are checked.  Stable IRIs start again with every query, so no
\* second query makes nodes by them; and a query that must not run twice is the
\* last one if it fails.
SessionQueries == ExactQueries \cup RepeatableQueries \cup {Called}
Sessions ==
  /\ served > 0 /\ query \in {CreatePair, CreateMerge} => s1 \notin base.node
  /\ pc = "failed" => query \in Retried \/ served + 1 = MaxQueries

-----------------------------------------------------------------------------
(* Queries whose statements may mean something else, and queries the write
   compiler refuses; none of them deletes a node. *)

\* OPTIONAL MATCH (n:B) SET n.k = 2
OptionalSet == Run(<<OptionalC(Labelled("n", "B")), SetC(<<PropItem("n", "k", Lit(2))>>)>>)
\* OPTIONAL MATCH (n:B) REMOVE n:A SET n = {j: 1}
OptionalStrip ==
  Run(<<OptionalC(Labelled("n", "B")), SetC(<<UnlabelItem("n", "A")>>), SetC(<<ReplaceItem("n", {<<"j", 1>>})>>)>>)
\* CREATE (n:B) SET n.j = 1
CreateSet == Run(<<CreateC(Labelled("n", "B"), <<"n">>), SetC(<<PropItem("n", "j", Lit(1))>>)>>)
\* MERGE (n:B {k: 1}) ON MATCH SET n.j = 1, n:A ON CREATE SET n.j = 2
MergeOn ==
  Run(<<MergeC("n", [Labelled("n", "B") EXCEPT !.prop = {<<"n", "k", 1>>}],
               <<PropItem("n", "j", Lit(1)), LabelItem("n", "A")>>, <<PropItem("n", "j", Lit(2))>>)>>)
\* MERGE (n)-[r:R]->(m) ON MATCH SET r.k = 2 CREATE (n)-[:S]->(m)
MergeThenCreate ==
  Run(<<MergeRelC("n", "R", "m", {}, Node1("n"), <<PropItem("r", "k", Lit(2))>>, <<>>),
        CreateC([Edge1("n", "S", "m") EXCEPT !.node = {"n", "m"}], <<"n", "m">>)>>)
\* CREATE (n:A) WITH n MATCH (m:B) CREATE (n)-[:R]->(m)
CreateMatchCreate ==
  Run(<<CreateC(Labelled("n", "A"), <<"n">>), WithC, MatchC(Labelled("m", "B")),
        CreateC([Edge1("n", "R", "m") EXCEPT !.node = {"n", "m"}], <<"n", "m">>)>>)
\* CREATE (n:B) WITH n CREATE (n)-[:R]->(x:A)
CreateWithCreate ==
  Run(<<CreateC(Labelled("n", "B"), <<"n">>), WithC,
        CreateC([node |-> {"n", "x"}, label |-> {<<"x", "A">>}, prop |-> {},
                 edge |-> {<<"n", "R", "x">>}, eprop |-> {}], <<"n", "x">>)>>)
\* MATCH ()-[r:S]->(m:B) CREATE (n:A) CREATE (n)-[:R]->(m)
ChainUnderMatch ==
  Run(<<MatchRel(Labelled("m", "B"), "r", "x", "S", "m"), CreateC(Labelled("n", "A"), <<"n">>),
        CreateC([Edge1("n", "R", "m") EXCEPT !.node = {"n", "m"}], <<"n", "m">>)>>)
\* MATCH (n)-[r:R]->(m) SET r.j = 1, n.k = m.k
RelSet ==
  Run(<<MatchRel(EmptyGraph, "r", "n", "R", "m"),
        SetC(<<PropItem("r", "j", Lit(1)), PropItem("n", "k", [e |-> "prop", v |-> "m", k |-> "k"])>>)>>)
\* MATCH (n:A)-[r:R]->(m) DELETE r RETURN n
DeleteReturn ==
  [Run(<<MatchRel(Labelled("n", "A"), "r", "n", "R", "m"), DeleteC(<<"r">>)>>) EXCEPT !.ret = TRUE]
\* MATCH (n:A) WITH n LIMIT 1 SET n.k = 2
Limited == Run(<<MatchC(Labelled("n", "A")), WithLimit, SetC(<<PropItem("n", "k", Lit(2))>>)>>)
\* MATCH (n:A) WITH n AS m CREATE (x:B)
RenameCreate == Run(<<MatchC(Labelled("n", "A")), WithAs("n", "m"), CreateC(Labelled("x", "B"), <<"x">>)>>)
\* MATCH (n:A) MERGE (m:B)
MatchMerge == Run(<<MatchC(Labelled("n", "A")), MergeC("m", Labelled("m", "B"), <<>>, <<>>)>>)

RefusedQueries == {Limited, Called, RenameCreate, MatchMerge}
OneByOneQueries ==
  {OptionalSet, OptionalStrip, CreateSet, MergeOn, MergeThenCreate, CreateMatchCreate, CreateWithCreate,
   ChainUnderMatch, RelSet, DeleteReturn}
KeepingQueries == ExactQueries \cup RepeatableQueries \cup OneByOneQueries \cup RefusedQueries
KeepingRetried == {CreateMerge, MergeOn, MergeThenCreate, RelSet, OptionalStrip}

-----------------------------------------------------------------------------
(* The queries of the claims. *)

\* OPTIONAL MATCH (n:B) DETACH DELETE n
NullDelete == {Run(<<OptionalC(Labelled("n", "B")), DetachC(<<"n">>)>>)}
\* MATCH (n:B) DETACH DELETE n
Detaching == {Run(<<MatchC(Labelled("n", "B")), DetachC(<<"n">>)>>)}
\* MATCH (n:A)-[r:R]->(m) DELETE r CREATE (n)-[:R]->(m)
Recreate ==
  {Run(<<MatchRel(Labelled("n", "A"), "r", "n", "R", "m"), DeleteC(<<"r">>),
         CreateC([Edge1("n", "R", "m") EXCEPT !.node = {"n", "m"}], <<"n", "m">>)>>)}
OnMatch == {MergeThenCreate}

ASSUME ExactAssumption ==
  /\ \A q \in ExactQueries : Exact(q)
  /\ \A q \in RepeatableQueries : Repeatable(q)
  /\ \A q \in {Attach, Unlink} :
       OneWriteEach({q, MergeEdge, MergeOne, Rename} \cup {p \in {SetTwice} : p \in Retried \/ MaxFailures = 0})
  /\ \A g \in Graphs : Visible(g) = g

\* The values of these queries agree, alone or with the others of a group; those
\* of SET n.k = m.k do not, which gives n a value of every m.
Among(Q) == INSTANCE GivenValues WITH Query <- Q
SettingQueries ==
  {SetTwice, ReplaceEdge, Consume, MergeOne, Strip, CreateMerge, MergeThenCreate, CreateMatchCreate,
   CreateWithCreate, ChainUnderMatch, OptionalSet, DeleteReturn} \cup RefusedQueries \cup NullDelete
NamingQueries == {CreatePair, ReplaceEdge, CreateSet, MergeOn, OptionalStrip, CreateMatchCreate}

ASSUME ValuesAssumption ==
  /\ \A q \in KeepingQueries : Among({q})!ValuesAgree <=> q # RelSet
  /\ Among(SettingQueries)!ValuesAgree /\ Among(NamingQueries)!ValuesAgree
=============================================================================
