------------------------------ MODULE MCUpdate ------------------------------
(* Queries for cypher_to_sparql_update, on the stores of MCWrite, and a caller
   that uses it or has cypher_to_sparql compile the query (WriteSession). *)
EXTENDS MCWrite, UpdateApi

VARIABLE asked   \* the function the caller uses

\* The stores in which n2 is an A as well, or a B.
ApiGraphs == {g \in MCGraphs : (<<n2, "A">> \in g.label) # (<<n2, "B">> \in g.label)}

\* MATCH (n:A) MATCH (m:B) WITH n AS r, m CREATE (r)-[:S]->(m)
AliasCreate ==
  Run(<<MatchC(Labelled("n", "A")), MatchC(Labelled("m", "B")), WithAs("n", "r"),
        CreateC([Edge1("r", "S", "m") EXCEPT !.node = {"r", "m"}], <<"r", "m">>)>>)
\* MATCH (n) SET n.k = 2, n:B
SetEvery == Run(<<MatchC(Node1("n")), SetC(<<PropItem("n", "k", Lit(2)), LabelItem("n", "B")>>)>>)
\* MATCH (n:A) CREATE (m:B) SET n.k = 2
CreateAside ==
  Run(<<MatchC(Labelled("n", "A")), CreateC(Labelled("m", "B"), <<"m">>), SetC(<<PropItem("n", "k", Lit(2))>>)>>)
\* MATCH (n)-[r:R]->(m) REMOVE r.k, n:A
RemoveKey ==
  Run(<<MatchRel(EmptyGraph, "r", "n", "R", "m"), SetC(<<UnpropItem("r", "k"), UnlabelItem("n", "A")>>)>>)
\* MATCH (n:A)-[r:R]->(m) WITH r LIMIT 1 DELETE r CREATE (m:B)
LimitedDelete ==
  Run(<<MatchRel(Labelled("n", "A"), "r", "n", "R", "m"), WithLimit, DeleteC(<<"r">>),
        CreateC(Labelled("m", "B"), <<"m">>)>>)
\* MATCH (n:A) WITH n MATCH (n)-[r:R]->(m) DELETE r
LateDelete ==
  Run(<<MatchC(Labelled("n", "A")), WithC, MatchRel(EmptyGraph, "r", "n", "R", "m"), DeleteC(<<"r">>)>>)
\* MATCH (n:A) WITH n MATCH (n)-[r:R]->(m) SET n.k = 2 DELETE r
SetLateDelete ==
  Run(<<MatchC(Labelled("n", "A")), WithC, MatchRel(EmptyGraph, "r", "n", "R", "m"),
        SetC(<<PropItem("n", "k", Lit(2))>>), DeleteC(<<"r">>)>>)
\* MATCH (n:A)-[r:R]->(m) DELETE r WITH n MATCH (n)
DeleteThenMatch ==
  Run(<<MatchRel(Labelled("n", "A"), "r", "n", "R", "m"), DeleteC(<<"r">>), WithC, MatchC(Node1("n"))>>)
\* MATCH (n:A)-[r:R]->(m) WITH n, r, m MATCH (n)-[r:R]->(m) DELETE r
PassedDelete ==
  Run(<<MatchRel(Labelled("n", "A"), "r", "n", "R", "m"), WithC, MatchRel(EmptyGraph, "r", "n", "R", "m"),
        DeleteC(<<"r">>)>>)

ApiQueries ==
  {Attach, MergeEdge, MergeOne, CreatePair, AliasCreate, SetEvery, ReplaceEdge,
   CreateAside, RemoveKey, LimitedDelete, CreateMerge, MergeOn, MergeThenCreate, CreateMatchCreate,
   RelSet, DeleteReturn, OptionalStrip, RenameCreate, MatchMerge, LateDelete, DeleteThenMatch, PassedDelete}
ApiRetried == {MergeEdge, MergeOne, AliasCreate, SetEvery, ReplaceEdge, CreateMerge, MergeOn, DeleteReturn}

EitherQueries == KeepingQueries \cup ApiQueries
EitherRetried == KeepingRetried \cup ApiRetried

\* A session with either function.
InWrite(A) == asked = "cypher_to_sparql" /\ A /\ UNCHANGED <<gen, asked>>
InUpdate(A) == asked = "cypher_to_sparql_update" /\ A /\ UNCHANGED asked
EitherInit ==
  /\ ApiInit
  /\ \/ asked = "cypher_to_sparql"
     \/ asked = "cypher_to_sparql_update" /\ store \in ApiGraphs
EitherNext ==
  \/ InWrite(Next) /\ query' \in KeepingQueries \cup {NoQuery}
  \/ InUpdate(ApiNext) /\ query' \in ApiQueries \cup {NoQuery}
EitherSpec ==
  /\ EitherInit /\ [][EitherNext]_<<apiVars, asked>>
  /\ WF_<<apiVars, asked>>(InWrite(Serve) \/ InUpdate(ApiServe))

\* A session with cypher_to_sparql_update alone.
UpdateSpec ==
  ApiInit /\ asked = "cypher_to_sparql_update" /\ [][ApiNext /\ UNCHANGED asked]_<<apiVars, asked>>

\* n1 is an A, n2 is not, and both have a value and a relationship.
ClaimedSome == {SetLateDelete}
ClaimedGraphs ==
  {[node |-> {n1, n2}, label |-> {<<n1, "A">>}, prop |-> {<<n1, "k", 1>>, <<n2, "k", 1>>},
    edge |-> {<<n1, "R", n2>>}, eprop |-> {}]}

ASSUME ApiAssumption ==
  /\ \A q \in {Attach, MergeEdge, MergeOne, CreatePair, AliasCreate, SetEvery, ReplaceEdge, PassedDelete} : ApiExact(q)
  /\ \A q \in {CreateAside, RemoveKey, LimitedDelete, CreateMerge, CreateMatchCreate, CreateSet} : ~ ApiExact(q)
  /\ Exact(LateDelete) /\ OneClause(LateDelete) /\ ~ ApiExact(LateDelete) /\ ~ TriesLqa(DeleteThenMatch)

\* The sessions whose outcomes are proved, and not only checked, to be exact:
\* those of the run's queries that write once, and of one that deletes.
ASSUME ServedAssumption ==
  /\ OneServedEach({Attach, MergeEdge, MergeOne, SetEvery}) /\ OneServedEach({Unlink, MergeOne, SetEvery})
  /\ \A q \in {CreatePair, AliasCreate, ReplaceEdge} : ~ OneServed(q)
  /\ \A g \in Graphs : Visible(g) = g
=============================================================================
