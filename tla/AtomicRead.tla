----------------------------- MODULE AtomicRead -----------------------------
(***************************************************************************)
(* What a caller of the transpiler is promised for a reading query: its    *)
(* rows are the answer Cypher gives on the store as it was at one moment   *)
(* between the request and the reply, whatever other clients write in      *)
(* between; and it fails for a reason only.                                *)
(***************************************************************************)
EXTENDS Naturals

CONSTANTS
  Requests,       \* the queries callers ask
  Permitted(_, _, _),  \* a query, the store of one moment, and a bag of rows
  MayRefuse(_)    \* the queries that need not be answered

VARIABLES
  graph,    \* the store
  status,   \* idle, asked, answered, refused or failed
  query,    \* the query asked
  answer,   \* whether its rows are settled, and the bag of them
  faults    \* failures of the store left

Undecided == [settled |-> FALSE, rows |-> <<>>]

Init == status = "idle" /\ answer = Undecided /\ faults \in Nat

\* Another client writes.
Write == UNCHANGED <<status, query, answer, faults>>

Ask ==
  /\ status = "idle"
  /\ query' \in Requests
  /\ status' = "asked" \/ (status' = "refused" /\ MayRefuse(query'))
  /\ answer' = Undecided
  /\ faults' \in Nat
  /\ UNCHANGED graph

\* The moment of the answer; the reply comes with it or later.
Settle ==
  /\ status = "asked" /\ ~ answer.settled
  /\ answer'.settled /\ Permitted(query, graph, answer'.rows)
  /\ status' \in {"asked", "answered"}
  /\ UNCHANGED <<graph, query, faults>>

Reply ==
  /\ status = "asked" /\ answer.settled
  /\ status' = "answered"
  /\ UNCHANGED <<graph, query, answer, faults>>

Fail ==
  /\ status = "asked"
  /\ \/ faults' = faults - 1
     \/ MayRefuse(query) /\ UNCHANGED faults
  /\ status' = "failed" /\ answer' = Undecided
  /\ UNCHANGED <<graph, query>>

Done ==
  /\ status \in {"answered", "refused", "failed"}
  /\ status' = "idle" /\ answer' = Undecided
  /\ UNCHANGED graph

Next == Write \/ Ask \/ Settle \/ Reply \/ Fail \/ Done

Spec == Init /\ [][Next]_<<graph, status, query, answer, faults>>
=============================================================================
