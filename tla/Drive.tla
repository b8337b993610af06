------------------------------- MODULE Drive -------------------------------
(***************************************************************************)
(* The runtime driver (runtime.rs drive) over any compiler and any store.  *)
(* A caller asks for a reading query and drives the output: its query is   *)
(* executed, and where the output is a continuation its function gives the *)
(* next output from the rows.  Other clients write the store between the   *)
(* executions, and an execution may fail.  drive neither retries nor gives *)
(* partial rows.                                                           *)
(***************************************************************************)
EXTENDS Naturals

CONSTANTS
  Requests,            \* the queries asked
  Graphs,              \* the stores to start with, and to be written
  MaxWrites,           \* writes of other clients during a request
  MaxFaults,           \* executions of a request that may fail
  Compiled,            \* what each query is compiled to
  Solve(_, _),         \* the solutions of a SELECT on a store
  Resume(_, _),        \* continue_fn: the next output, from the rows of the first
  ByColumns(_, _),     \* the rows of an answer, by the columns of an output
  Presented(_, _),     \* the bag of the rows, as the caller of a query sees them
  Allowed(_, _, _),    \* whether a query may have a bag of rows on a store
  Refusable(_),        \* the queries that need not be answered
  NoOutput, NoRequest

ASSUME DriveAssumption == {MaxWrites, MaxFaults} \subseteq Nat

VARIABLES
  store,    \* the graph in the caller's engine
  pc,       \* idle, drive, continue, again, answered, refused or failed
  query,    \* the query asked
  plan,     \* the output being driven
  then,     \* what to do with its rows, or NoOutput
  rows,     \* the rows of the first query
  reply,    \* the rows of the answer
  writes,   \* writes left in this request
  faults,   \* failures left in this request
  due       \* a ghost: whether the rows of the answer are settled, and the bag of them

vars == <<store, pc, query, plan, then, rows, reply, writes, faults, due>>
driving == <<plan, then, rows, reply>>

Open == [settled |-> FALSE, rows |-> <<>>]
Settled(q, some) == [settled |-> TRUE, rows |-> Presented(q, some)]

\* What the continuation's own query gives.
DueAfter(q, next, g) ==
  IF next.kind = "error" THEN Open ELSE Settled(q, ByColumns(next.cols, Solve(g, next.query)))

Init ==
  /\ store \in Graphs /\ due = Open
  /\ pc = "idle" /\ query = NoRequest /\ plan = NoOutput /\ then = NoOutput
  /\ rows = <<>> /\ reply = <<>>
  /\ writes = MaxWrites /\ faults = MaxFaults

\* cypher_to_sparql: what the older translator takes is not followed here.
Ask ==
  /\ pc = "idle"
  /\ \E q \in Requests : \E out \in {Compiled[q]} :
       /\ query' = q
       /\ \/ /\ out.kind \in {"error", "legacy"}
             /\ pc' = "refused" /\ plan' = NoOutput /\ then' = NoOutput
          \/ out.kind = "complete" /\ pc' = "drive" /\ plan' = out /\ then' = NoOutput
          \/ out.kind = "continue" /\ pc' = "drive" /\ plan' = out.first /\ then' = out.then
  /\ writes' = MaxWrites /\ faults' = MaxFaults
  /\ UNCHANGED <<store, rows, reply, due>>

\* The executor runs a query; the rows of the last one are the answer.  The rows
\* of the first one settle it: the ghost is what the continuation gives on the
\* store of this moment.  The executor gives bare values as texts, as that of
\* the TCK harness does.
Execute ==
  /\ pc \in {"drive", "again"}
  /\ \E found \in {Solve(store, plan.query)} :
       \/ /\ then = NoOutput /\ pc' = "answered" /\ UNCHANGED rows
          /\ reply' = ByColumns(plan.cols, found) /\ due' = Settled(query, reply')
       \/ /\ then # NoOutput /\ pc' = "continue" /\ UNCHANGED reply
          /\ rows' = found /\ due' = DueAfter(query, Resume(then, found), store)
  /\ UNCHANGED <<store, query, plan, then, writes, faults>>

ExecutorFails ==
  /\ pc \in {"drive", "again"} /\ faults > 0
  /\ pc' = "failed" /\ faults' = faults - 1 /\ due' = Open
  /\ UNCHANGED <<store, query, driving, writes>>

\* A mutant of CallContinuation: the continuation is called again on the rows of
\* the query it gave.
CallContinuationKept ==
  /\ pc = "continue"
  /\ \E out \in {Resume(then, rows)} :
     IF out.kind = "error" THEN pc' = "failed" /\ UNCHANGED driving
     ELSE pc' = "again" /\ plan' = out /\ UNCHANGED <<then, rows, reply>>
  /\ UNCHANGED <<store, query, writes, faults, due>>

\* A mutant of CallContinuation: the continuation gives itself, phase 1 included.
CallContinuationAnew ==
  /\ pc = "continue" /\ pc' = "drive"
  /\ UNCHANGED <<store, query, driving, writes, faults, due>>

\* The function of the continuation, on the rows of the first query.
CallContinuation ==
  /\ pc = "continue"
  /\ \E out \in {Resume(then, rows)} :
     IF out.kind = "error" THEN pc' = "failed" /\ UNCHANGED driving
     ELSE pc' = "again" /\ plan' = out /\ then' = NoOutput /\ UNCHANGED <<rows, reply>>
  /\ UNCHANGED <<store, query, writes, faults, due>>

Finish ==
  /\ pc \in {"answered", "refused", "failed"}
  /\ pc' = "idle" /\ query' = NoRequest /\ plan' = NoOutput /\ then' = NoOutput
  /\ rows' = <<>> /\ reply' = <<>>
  /\ writes' = MaxWrites /\ faults' = MaxFaults /\ due' = Open /\ UNCHANGED store

\* Another client writes.
Write ==
  /\ pc \in {"drive", "continue", "again"} /\ writes > 0
  /\ store' \in Graphs \ {store} /\ writes' = writes - 1
  /\ UNCHANGED <<pc, query, driving, faults, due>>

Next == Ask \/ Execute \/ ExecutorFails \/ CallContinuation \/ Finish \/ Write

Spec == Init /\ [][Next]_vars

\* drive goes on until it returns: the executor answers or fails each query, and
\* nothing is waited for between the phases.  Only steps of drive change pc so,
\* and one of them is possible wherever this says so.
Driven ==
  /\ pc \in {"drive", "continue", "again"}
  /\ pc' \in {"continue", "again", "answered", "failed"} \ {pc}
FairSpec == Spec /\ WF_pc(Driven)

-----------------------------------------------------------------------------
\* The variables hold what the comments above say of them.
ReadTypeOK ==
  /\ pc \in {"idle", "drive", "continue", "again", "answered", "refused", "failed"}
  /\ store \in Graphs
  /\ query \in Requests \cup {NoRequest}
  /\ plan # NoOutput <=> pc \in {"drive", "continue", "again", "answered", "failed"}
  /\ then # NoOutput => plan.kind = "complete" /\ pc \in {"drive", "continue", "failed"}
  /\ due.settled => pc \in {"continue", "again", "answered"}
  /\ writes \in 0 .. MaxWrites /\ faults \in 0 .. MaxFaults

\* A query whose answer is exact fails only where an execution failed: the rows
\* the executor returns are rows the continuation can read (runtime.rs drive, the
\* emitters).  Of an executor that returns the text of a literal it holds; of one
\* that quotes literals, as runtime.rs SparqlExecutor asks, it does not.
FailsForCause == pc = "failed" /\ ~ Refusable(query) => faults < MaxFaults

\* drive ends, with rows or with an error: it goes on with what a continuation
\* gives, which could be a continuation again for ever (runtime.rs drive).
DriveEnds == pc \in {"drive", "continue", "again"} ~> pc \in {"answered", "failed"}

-----------------------------------------------------------------------------
(* What drive needs of the compiler. *)

Told(q, last, g) == Presented(q, ByColumns(last.cols, Solve(g, last.query)))

\* The second phase: its rows are right on store g, and the same on every other.
AnswersNext(q, g, next) ==
  CASE next.kind = "error" -> next # NoOutput /\ Refusable(q)
    [] next.kind = "complete" ->
         /\ next # NoOutput
         /\ \E told \in {[h \in Graphs |-> Told(q, next, h)]} :
              Allowed(q, g, told[g]) /\ \A h \in Graphs : told[h] = told[g]
    [] OTHER -> FALSE

\* An output drive can take, with the right rows on store g.
AnswersOn(q, g, out) ==
  CASE out.kind \in {"error", "legacy"} -> Refusable(q)
    [] out.kind = "complete" -> out # NoOutput /\ Allowed(q, g, Told(q, out, g))
    [] out.kind = "continue" ->
         /\ out.then # NoOutput /\ out.first # NoOutput /\ out.first.kind = "complete"
         /\ AnswersNext(q, g, Resume(out.then, Solve(g, out.first.query)))
    [] OTHER -> FALSE

CompiledFor(g) == \A q \in Requests : AnswersOn(q, g, Compiled[q])

\* What the proofs about drive take of the compiler: CompiledFor every store.
CompilerAnswers == \A g \in Graphs : CompiledFor(g)

\* The output of every query asked has the rows Cypher gives on the store it was
\* asked on, and a continuation fails for no query whose answer is exact; its second
\* phase answers from the rows of the first alone (compile_output; the emitters,
\* which put them in VALUES).
OutputsAnswer == [][pc = "idle" => AnswersOn(query', store, Compiled[query'])]_vars

-----------------------------------------------------------------------------
\* What the caller sees of pc.
Status == IF pc \in {"drive", "continue", "again"} THEN "asked" ELSE pc

Abstract == INSTANCE AtomicRead WITH
  graph <- store, answer <- due, status <- Status, Permitted <- Allowed, MayRefuse <- Refusable

\* Every reading query gets the rows Cypher gives on the store of one moment
\* between its request and its reply, or as many rows, as ReadClaims says; the
\* writes of others between the phases of a continuation do not show; the query
\* is not refused, and does not fail but with the executor (compile_output, the
\* emitters, drive in runtime.rs).
ImplementsRead == Abstract!Spec
=============================================================================
