---------------------------- MODULE DriveProofs ----------------------------
(***************************************************************************)
(* Theorems about the runtime driver: whatever the compiler, the store and *)
(* the result mapping are, if the compiler's outputs answer on every store *)
(* (CompilerAnswers), then driving them answers a request as AtomicRead    *)
(* says, and fails for a cause only.                                       *)
(***************************************************************************)
EXTENDS Drive, TLAPS

-----------------------------------------------------------------------------
(* The inductive invariant: what is driven is what the query was compiled to,
   and what is settled is what the rest of it will give on any store. *)

\* The first phase, which is the only one of a complete output.
FirstPhase ==
  LET out == Compiled[query]
  IN \/ out.kind = "complete" /\ plan = out /\ then = NoOutput
     \/ out.kind = "continue" /\ plan = out.first /\ then = out.then

\* The rows came from a store of the request, and due is what they settle.
AfterFirst ==
  /\ Compiled[query].kind = "continue" /\ plan = Compiled[query].first /\ then = Compiled[query].then
  /\ \E g \in Graphs :
       rows = Solve(g, plan.query) /\ due = DueAfter(query, Resume(then, rows), g)

\* The query of the continuation gives the rows settled, on any store.
SecondPhase ==
  /\ then = NoOutput /\ due.settled
  /\ \A h \in Graphs : due = Settled(query, ByColumns(plan.cols, Solve(h, plan.query)))

DriveInv ==
  /\ ReadTypeOK
  /\ pc # "idle" => query \in Requests
  /\ pc \in {"idle", "drive", "refused", "failed"} => due = Open
  /\ pc = "drive" => FirstPhase
  /\ pc = "continue" => AfterFirst
  /\ pc = "again" => SecondPhase
  /\ FailsForCause

-----------------------------------------------------------------------------
(* The steps. *)

LEMMA StartInv == CompilerAnswers /\ Init => DriveInv
  BY DriveAssumption DEF Init, DriveInv, ReadTypeOK, Open, FailsForCause

LEMMA AskInv == CompilerAnswers /\ DriveInv /\ Ask => DriveInv'
<1> SUFFICES ASSUME CompilerAnswers, DriveInv, Ask PROVE DriveInv'
  OBVIOUS
<1>1. PICK q \in Requests :
        /\ query' = q
        /\ \/ /\ Compiled[q].kind \in {"error", "legacy"}
              /\ pc' = "refused" /\ plan' = NoOutput /\ then' = NoOutput
           \/ /\ Compiled[q].kind = "complete"
              /\ pc' = "drive" /\ plan' = Compiled[q] /\ then' = NoOutput
           \/ /\ Compiled[q].kind = "continue" /\ pc' = "drive"
              /\ plan' = Compiled[q].first /\ then' = Compiled[q].then
  BY DEF Ask
<1>2. store \in Graphs /\ pc = "idle" /\ due = Open
  BY DEF DriveInv, ReadTypeOK, Ask
<1>3. AnswersOn(q, store, Compiled[q])
  BY <1>2 DEF CompilerAnswers, CompiledFor
<1>4. UNCHANGED <<store, due>> /\ writes' = MaxWrites /\ faults' = MaxFaults
  BY DEF Ask
<1>5. ReadTypeOK'
  BY <1>1, <1>2, <1>3, <1>4, DriveAssumption DEF ReadTypeOK, AnswersOn, Open
<1> QED
  BY <1>1, <1>2, <1>4, <1>5 DEF DriveInv, FirstPhase, FailsForCause

LEMMA ExecuteInv == CompilerAnswers /\ DriveInv /\ Execute => DriveInv'
<1> SUFFICES ASSUME CompilerAnswers, DriveInv, Execute PROVE DriveInv'
  OBVIOUS
<1>1. store \in Graphs /\ query \in Requests /\ pc \in {"drive", "again"}
  BY DEF DriveInv, ReadTypeOK, Execute
<1>2. UNCHANGED <<store, query, plan, then, writes, faults>>
  BY DEF Execute
<1>3. CASE then = NoOutput
  <2>1. pc' = "answered" /\ due'.settled
    BY <1>3 DEF Execute, Settled
  <2>2. ReadTypeOK'
    BY <1>1, <1>2, <1>3, <2>1 DEF DriveInv, ReadTypeOK
  <2> QED
    BY <1>1, <1>2, <2>1, <2>2 DEF DriveInv, FailsForCause
<1>4. CASE then # NoOutput
  <2>1. /\ pc' = "continue" /\ rows' = Solve(store, plan.query)
        /\ due' = DueAfter(query, Resume(then, rows'), store)
    BY <1>4 DEF Execute
  <2>2. pc = "drive" /\ FirstPhase
    BY <1>1, <1>4 DEF DriveInv, SecondPhase
  <2>3. AfterFirst'
    BY <1>1, <1>2, <1>4, <2>1, <2>2 DEF FirstPhase, AfterFirst
  <2>4. ReadTypeOK'
    BY <1>1, <1>2, <1>4, <2>1, <2>2 DEF DriveInv, ReadTypeOK
  <2> QED
    BY <1>1, <1>2, <2>1, <2>3, <2>4 DEF DriveInv, FailsForCause
<1> QED
  BY <1>3, <1>4

LEMMA FailInv == CompilerAnswers /\ DriveInv /\ ExecutorFails => DriveInv'
<1> SUFFICES ASSUME CompilerAnswers, DriveInv, ExecutorFails PROVE DriveInv'
  OBVIOUS
<1>1. /\ pc \in {"drive", "again"} /\ faults > 0 /\ pc' = "failed"
      /\ faults' = faults - 1 /\ due' = Open
      /\ UNCHANGED <<store, query, plan, then, rows, reply, writes>>
  BY DEF ExecutorFails, driving
<1>2. faults' \in 0 .. MaxFaults /\ faults' < MaxFaults
  BY <1>1, DriveAssumption DEF DriveInv, ReadTypeOK
<1>3. ReadTypeOK'
  BY <1>1, <1>2 DEF DriveInv, ReadTypeOK, SecondPhase, Open
<1> QED
  BY <1>1, <1>2, <1>3 DEF DriveInv, FailsForCause

\* What the compiler promises of a continuation, on the rows it is called with.
LEMMA ContinuationFact ==
  ASSUME CompilerAnswers, DriveInv, pc = "continue"
  PROVE  LET next == Resume(then, rows)
         IN /\ next.kind \in {"error", "complete"} /\ next # NoOutput
            /\ next.kind = "error" => due = Open /\ Refusable(query)
            /\ next.kind = "complete" =>
                 /\ due.settled
                 /\ \A h \in Graphs : due = Settled(query, ByColumns(next.cols, Solve(h, next.query)))
<1> DEFINE next == Resume(then, rows)
<1> DEFINE Found(h) == ByColumns(next.cols, Solve(h, next.query))
<1>1. AfterFirst /\ query \in Requests
  BY DEF DriveInv
<1>2. PICK g \in Graphs : rows = Solve(g, plan.query) /\ due = DueAfter(query, next, g)
  BY <1>1 DEF AfterFirst
<1>3. /\ AnswersOn(query, g, Compiled[query])
      /\ Compiled[query].kind = "continue" => AnswersNext(query, g, next)
  <2>1. next = Resume(Compiled[query].then, Solve(g, Compiled[query].first.query))
    BY <1>1, <1>2 DEF AfterFirst
  <2> QED
    BY <1>1, <2>1 DEF CompilerAnswers, CompiledFor, AnswersOn
<1>4. AnswersNext(query, g, next)
  BY <1>1, <1>3 DEF AfterFirst
<1>5. next.kind \in {"error", "complete"} /\ next # NoOutput
  BY <1>4 DEF AnswersNext
<1>6. ASSUME next.kind = "error" PROVE due = Open /\ Refusable(query)
  BY <1>2, <1>4, <1>6 DEF AnswersNext, DueAfter
<1>7. ASSUME next.kind = "complete"
      PROVE  due.settled /\ \A h \in Graphs : due = Settled(query, Found(h))
  <2>1. due = Settled(query, Found(g))
    BY <1>2, <1>7 DEF DueAfter
  <2>2. \A h \in Graphs : Presented(query, Found(h)) = Presented(query, Found(g))
    BY <1>2, <1>4, <1>7 DEF AnswersNext, Told
  <2> QED
    BY <2>1, <2>2 DEF Settled
<1> QED
  BY <1>5, <1>6, <1>7

LEMMA ContinueInv == CompilerAnswers /\ DriveInv /\ CallContinuation => DriveInv'
<1> SUFFICES ASSUME CompilerAnswers, DriveInv, CallContinuation PROVE DriveInv'
  OBVIOUS
<1> DEFINE next == Resume(then, rows)
<1>1. /\ pc = "continue" /\ UNCHANGED <<store, query, rows, reply, writes, faults, due>>
      /\ \/ next.kind = "error" /\ pc' = "failed" /\ UNCHANGED <<plan, then>>
         \/ next.kind # "error" /\ pc' = "again" /\ plan' = next /\ then' = NoOutput
  BY DEF CallContinuation, driving
<1>2. /\ next.kind \in {"error", "complete"} /\ next # NoOutput
      /\ next.kind = "error" => due = Open /\ Refusable(query)
      /\ next.kind = "complete" =>
           /\ due.settled
           /\ \A h \in Graphs : due = Settled(query, ByColumns(next.cols, Solve(h, next.query)))
  BY <1>1, ContinuationFact
<1> HIDE DEF next
<1>3. CASE next.kind = "error"
  <2>1. pc' = "failed" /\ UNCHANGED <<plan, then>>
    BY <1>1, <1>3
  <2> QED
    BY <1>1, <1>2, <1>3, <2>1 DEF DriveInv, ReadTypeOK, FailsForCause, Open
<1>4. CASE next.kind = "complete"
  <2>1. pc' = "again" /\ plan' = next /\ then' = NoOutput
    BY <1>1, <1>4
  <2>2. SecondPhase'
    BY <1>1, <1>2, <1>4, <2>1 DEF SecondPhase
  <2> QED
    BY <1>1, <1>2, <1>4, <2>1, <2>2 DEF DriveInv, ReadTypeOK, FailsForCause
<1> QED
  BY <1>2, <1>3, <1>4

LEMMA FinishInv == CompilerAnswers /\ DriveInv /\ Finish => DriveInv'
  BY DriveAssumption DEF DriveInv, ReadTypeOK, Finish, Open, FailsForCause

LEMMA WriteInv == CompilerAnswers /\ DriveInv /\ Write => DriveInv'
<1> SUFFICES ASSUME CompilerAnswers, DriveInv, Write PROVE DriveInv'
  OBVIOUS
<1>1. /\ pc \in {"drive", "continue", "again"} /\ store' \in Graphs
      /\ writes' \in 0 .. MaxWrites
      /\ UNCHANGED <<pc, query, plan, then, rows, reply, faults, due>>
  BY DriveAssumption DEF DriveInv, ReadTypeOK, Write, driving
<1>2. ReadTypeOK'
  BY <1>1 DEF DriveInv, ReadTypeOK
<1>3. /\ pc = "drive" => FirstPhase'
      /\ pc = "continue" => AfterFirst'
      /\ pc = "again" => SecondPhase'
  BY <1>1 DEF DriveInv, FirstPhase, AfterFirst, SecondPhase
<1> QED
  BY <1>1, <1>2, <1>3 DEF DriveInv, FailsForCause

LEMMA StepInv == CompilerAnswers /\ DriveInv /\ [Next]_vars => DriveInv'
<1> SUFFICES ASSUME CompilerAnswers, DriveInv, [Next]_vars PROVE DriveInv'
  OBVIOUS
<1>1. CASE UNCHANGED vars
  BY <1>1 DEF vars, DriveInv, ReadTypeOK, FirstPhase, AfterFirst, SecondPhase, FailsForCause
<1>2. CASE Next
  BY <1>2, AskInv, ExecuteInv, FailInv, ContinueInv, FinishInv, WriteInv DEF Next
<1> QED
  BY <1>1, <1>2

LEMMA Invariance == CompilerAnswers => (Spec => []DriveInv)
<1> SUFFICES ASSUME CompilerAnswers PROVE Spec => []DriveInv
  OBVIOUS
<1>1. Init => DriveInv
  BY StartInv
<1>2. DriveInv /\ [Next]_vars => DriveInv'
  BY StepInv
<1> QED
  BY <1>1, <1>2, PTL DEF Spec

\* The variables of the driver hold what their comments say, for any compiler
\* whose outputs drive can take (runtime.rs drive).
THEOREM ReadTyping == CompilerAnswers => (Spec => []ReadTypeOK)
<1>1. DriveInv => ReadTypeOK
  BY DEF DriveInv
<1> QED
  BY <1>1, Invariance, PTL

\* A query whose answer is exact fails only where an execution failed: rows that
\* the first phase returned never make its continuation fail (runtime.rs drive,
\* SparqlExecutor).
THEOREM FailingForCause == CompilerAnswers => (Spec => []FailsForCause)
<1>1. DriveInv => FailsForCause
  BY DEF DriveInv
<1> QED
  BY <1>1, Invariance, PTL

-----------------------------------------------------------------------------
(* The refinement: every step is a step of AtomicRead or a stutter. *)

Atomic == <<store, Status, query, due, faults>>

LEMMA StartAtomic == CompilerAnswers /\ Init => Abstract!Init
  BY DriveAssumption DEF Init, Abstract!Init, Abstract!Undecided, Status, Open

LEMMA AskAtomic == CompilerAnswers /\ DriveInv /\ Ask => Abstract!Ask
<1> SUFFICES ASSUME CompilerAnswers, DriveInv, Ask PROVE Abstract!Ask
  OBVIOUS
<1>1. PICK q \in Requests :
        /\ query' = q
        /\ \/ Compiled[q].kind \in {"error", "legacy"} /\ pc' = "refused"
           \/ Compiled[q].kind \in {"complete", "continue"} /\ pc' = "drive"
  BY DEF Ask
<1>2. store \in Graphs /\ pc = "idle" /\ due = Open
  BY DEF DriveInv, ReadTypeOK, Ask
<1>3. AnswersOn(q, store, Compiled[q])
  BY <1>2 DEF CompilerAnswers, CompiledFor
<1>4. Compiled[q].kind \in {"error", "legacy"} => Refusable(q)
  BY <1>3 DEF AnswersOn
<1>5. UNCHANGED <<store, due>> /\ faults' \in Nat
  BY DriveAssumption DEF Ask
<1> QED
  BY <1>1, <1>2, <1>4, <1>5 DEF Abstract!Ask, Abstract!Undecided, Open, Status

LEMMA FirstIsComplete ==
  ASSUME CompilerAnswers, DriveInv, FirstPhase, query \in Requests, then = NoOutput
  PROVE  Compiled[query].kind = "complete" /\ plan = Compiled[query]
<1>1. store \in Graphs
  BY DEF DriveInv, ReadTypeOK
<1>2. AnswersOn(query, store, Compiled[query])
  BY <1>1 DEF CompilerAnswers, CompiledFor
<1> QED
  BY <1>2 DEF FirstPhase, AnswersOn

LEMMA ExecuteAtomic == CompilerAnswers /\ DriveInv /\ Execute => Abstract!Next \/ UNCHANGED Atomic
<1> SUFFICES ASSUME CompilerAnswers, DriveInv, Execute PROVE Abstract!Next \/ UNCHANGED Atomic
  OBVIOUS
<1> DEFINE out == Compiled[query]
<1>1. store \in Graphs /\ query \in Requests /\ pc \in {"drive", "again"}
  BY DEF DriveInv, ReadTypeOK, Execute
<1>2. UNCHANGED <<store, query, faults>>
  BY DEF Execute
<1>3. AnswersOn(query, store, out)
  BY <1>1 DEF CompilerAnswers, CompiledFor
<1>4. CASE then = NoOutput /\ pc = "again"
  <2>1. due.settled /\ due = Settled(query, ByColumns(plan.cols, Solve(store, plan.query)))
    BY <1>1, <1>4 DEF DriveInv, SecondPhase
  <2>2. due' = due /\ pc' = "answered"
    BY <1>4, <2>1 DEF Execute
  <2>3. Abstract!Reply
    BY <1>2, <1>4, <2>1, <2>2 DEF Abstract!Reply, Status
  <2> QED
    BY <2>3 DEF Abstract!Next
<1>5. CASE then = NoOutput /\ pc = "drive"
  <2>1. due = Open /\ FirstPhase
    BY <1>5 DEF DriveInv
  <2>2. out.kind = "complete" /\ plan = out
    BY <1>1, <1>5, <2>1, FirstIsComplete
  <2>3. pc' = "answered" /\ due' = Settled(query, ByColumns(out.cols, Solve(store, out.query)))
    BY <1>5, <2>2 DEF Execute
  <2>4. Allowed(query, store, due'.rows) /\ due'.settled
    BY <1>3, <2>2, <2>3 DEF AnswersOn, Told, Settled
  <2>5. Abstract!Settle
    BY <1>2, <1>5, <2>1, <2>3, <2>4 DEF Abstract!Settle, Status, Open
  <2> QED
    BY <2>5 DEF Abstract!Next
<1>6. CASE then # NoOutput
  <2> DEFINE next == Resume(out.then, Solve(store, out.first.query))
  <2>1. pc = "drive" /\ due = Open /\ FirstPhase
    BY <1>1, <1>6 DEF DriveInv, SecondPhase
  <2>2. out.kind = "continue" /\ plan = out.first /\ then = out.then
    BY <1>6, <2>1 DEF FirstPhase
  <2>3. pc' = "continue" /\ due' = DueAfter(query, next, store)
    BY <1>6, <2>2 DEF Execute
  <2>4. CASE next.kind = "error"
    <3>1. due' = due /\ Status' = Status
      BY <2>1, <2>3, <2>4 DEF DueAfter, Status
    <3> QED
      BY <1>2, <3>1 DEF Atomic
  <2>5. CASE next.kind # "error"
    <3>1. due' = Settled(query, ByColumns(next.cols, Solve(store, next.query)))
      BY <2>3, <2>5 DEF DueAfter
    <3>2. Allowed(query, store, due'.rows) /\ due'.settled
      BY <1>1, <1>3, <2>2, <2>5, <3>1 DEF AnswersOn, AnswersNext, Told, Settled
    <3>3. Abstract!Settle
      BY <1>2, <2>1, <2>3, <3>2 DEF Abstract!Settle, Status, Open
    <3> QED
      BY <3>3 DEF Abstract!Next
  <2> QED
    BY <2>4, <2>5
<1> QED
  BY <1>1, <1>4, <1>5, <1>6

LEMMA FailAtomic == CompilerAnswers /\ DriveInv /\ ExecutorFails => Abstract!Fail
  BY DEF ExecutorFails, Abstract!Fail, Abstract!Undecided, Open, Status

LEMMA ContinueAtomic ==
  CompilerAnswers /\ DriveInv /\ CallContinuation => Abstract!Next \/ UNCHANGED Atomic
<1> SUFFICES ASSUME CompilerAnswers, DriveInv, CallContinuation
             PROVE  Abstract!Next \/ UNCHANGED Atomic
  OBVIOUS
<1> DEFINE next == Resume(then, rows)
<1>1. /\ pc = "continue" /\ UNCHANGED <<store, query, faults, due>>
      /\ \/ next.kind = "error" /\ pc' = "failed"
         \/ next.kind # "error" /\ pc' = "again"
  BY DEF CallContinuation
<1>2. next.kind = "error" => due = Open /\ Refusable(query)
  BY <1>1, ContinuationFact
<1> HIDE DEF next
<1>3. CASE pc' = "failed"
  <2>1. Abstract!Fail
    BY <1>1, <1>2, <1>3 DEF Abstract!Fail, Abstract!Undecided, Open, Status
  <2> QED
    BY <2>1 DEF Abstract!Next
<1>4. CASE pc' = "again"
  BY <1>1, <1>4 DEF Atomic, Status
<1> QED
  BY <1>1, <1>3, <1>4

LEMMA FinishAtomic == CompilerAnswers /\ DriveInv /\ Finish => Abstract!Done
  BY DEF Finish, Abstract!Done, Abstract!Undecided, Open, Status

LEMMA WriteAtomic == CompilerAnswers /\ DriveInv /\ Write => Abstract!Write
  BY DEF Write, Abstract!Write, Status

LEMMA StepAtomic == CompilerAnswers /\ DriveInv /\ [Next]_vars => Abstract!Next \/ UNCHANGED Atomic
<1> SUFFICES ASSUME CompilerAnswers, DriveInv, [Next]_vars
             PROVE  Abstract!Next \/ UNCHANGED Atomic
  OBVIOUS
<1>1. CASE UNCHANGED vars
  BY <1>1 DEF vars, Atomic, Status
<1>2. CASE Next
  BY <1>2, AskAtomic, ExecuteAtomic, FailAtomic, ContinueAtomic, FinishAtomic, WriteAtomic
     DEF Next, Abstract!Next
<1> QED
  BY <1>1, <1>2

\* A request is answered from the store of one moment between request and reply,
\* is refused only where it may be, and fails for a cause; the phases of a
\* continuation and the writes of others between them do not show (runtime.rs
\* drive, L2Output).
THEOREM DriveRefines == CompilerAnswers => (Spec => ImplementsRead)
<1> SUFFICES ASSUME CompilerAnswers PROVE Spec => Abstract!Spec
  BY DEF ImplementsRead
<1>1. Init => Abstract!Init
  BY StartAtomic
<1>2. DriveInv /\ [Next]_vars => [Abstract!Next]_Atomic
  BY StepAtomic
<1> QED
  BY <1>1, <1>2, Invariance, PTL DEF Spec, Abstract!Spec, Atomic, Status
=============================================================================
