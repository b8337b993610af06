----------------------------- MODULE AtomicWrite -----------------------------
(***************************************************************************)
(* What a caller of the transpiler is promised for write queries: the      *)
(* store changes by whole queries, each to a graph the query may leave.    *)
(***************************************************************************)
CONSTANTS
  Query, Graphs,    \* the queries, and the graphs to start with
  Outcomes(_, _),   \* the graphs a query may leave, of the graph it finds
  NoQuery

VARIABLES graph, last

Init == graph \in Graphs /\ last = NoQuery

Commit(q) == graph' \in Outcomes(q, graph) /\ last' = q

Next == \E q \in Query : Commit(q)

Spec == Init /\ [][Next]_<<graph, last>>
=============================================================================
