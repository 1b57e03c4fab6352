---------------------------- MODULE OutboxProofs ----------------------------
(***************************************************************************)
(* Theorems about Outbox, for every number of jobs and workers and every   *)
(* value of the limits.                                                    *)
(*                                                                         *)
(* The inductive invariant says who may hold a job.  While a job was never *)
(* taken back as stalled, at most one worker holds it, and a worker that   *)
(* is about to run or is running its handler holds a row in 'processing';  *)
(* that is what makes the commit of the effects and the transition of the  *)
(* row one event.  Attempt numbers only grow, so the number a failing      *)
(* worker judges by is at most the row's.                                  *)
(***************************************************************************)
EXTENDS Outbox, FiniteSetTheorems, TLAPS

\* A worker has a job in hand exactly while it runs or fails it, and never one
\* that is still in its batch; between cycles it has no batch.
WorkerShape ==
  \A w \in Workers :
    /\ cur[w] \in Events <=> pc[w] \in {"run", "fail"}
    /\ pc[w] \in {"idle", "poll"} => todo[w] = {}
    /\ cur[w] \notin todo[w]

\* What is true of a job that was never taken back as stalled.
SoleHolder(e) ==
  /\ effects[e] = IF status[e] = "processed" THEN 1 ELSE 0
  /\ \A w \in Workers : e \in todo[w] => status[e] = "processing"
  /\ \A w \in Workers : cur[w] = e /\ pc[w] = "run" => status[e] = "processing"
  /\ \A w \in Workers : cur[w] = e => status[e] \in {"processing", "processed"}
  /\ \A v, w \in Workers :
       (e \in todo[v] \/ cur[v] = e) /\ (e \in todo[w] \/ cur[w] = e) => v = w

HolderInv == \A e \in Events : requeues[e] = 0 => SoleHolder(e)

\* A failing attempt is judged by a number the row has reached.
AttemptsInv ==
  /\ \A w \in Workers : cur[w] \in Events => seen[w] <= attempts[cur[w]]
  /\ DeadLetterExhausted

IInv == TypeOK /\ WorkerShape /\ HolderInv /\ AttemptsInv

-----------------------------------------------------------------------------

\* worker_complete_outbox_event keeps the types of the row.
LEMMA CompleteType ==
  ASSUME TypeOK, NEW e \in Events, NEW o \in Terminal \cup {"retry"},
         NEW d \in Nat, Complete(e, o, d)
  PROVE  /\ status' \in [Events -> Status]
         /\ attempts' = attempts
         /\ wait' \in [Events -> Nat]
         /\ age' \in [Events -> 0 .. Stall + 1]
<1>1. CASE status[e] = "processing"
  <2>1. (IF o = "retry" THEN "pending" ELSE o) \in Status
    BY DEF Status, Terminal
  <2>2. status' \in [Events -> Status]
    BY <1>1, <2>1 DEF TypeOK, Complete
  <2>3. wait' \in [Events -> Nat] /\ attempts' = attempts
    BY <1>1 DEF TypeOK, Complete
  <2>4. age' \in [Events -> 0 .. Stall + 1]
    BY <1>1, OutboxAssumption DEF TypeOK, Complete
  <2> QED
    BY <2>2, <2>3, <2>4
<1>2. CASE status[e] # "processing"
  BY <1>2 DEF TypeOK, Complete, rowVars
<1> QED
  BY <1>1, <1>2

\* The outcome of a failed attempt is one of the three the code can record.
LEMMA FailureOutcomeType ==
  ASSUME TypeOK, NEW w \in Workers
  PROVE  FailureOutcome(w) \in {"failed", "retry", "dead_letter"}
  BY OutboxAssumption DEF TypeOK, FailureOutcome

\* Every initial state satisfies the invariant.
LEMMA InitIInv == Init => IInv
  BY OutboxAssumption
  DEF Init, IInv, TypeOK, WorkerShape, HolderInv, SoleHolder, AttemptsInv,
      DeadLetterExhausted, Status, Terminal

\* Every step keeps the types.
LEMMA NextTypeOK == ASSUME TypeOK, WorkerShape, [Next]_vars PROVE TypeOK'
<1>1. ASSUME NEW e \in Events, Publish(e) PROVE TypeOK'
  BY <1>1 DEF TypeOK, Publish, Status, workerVars, history
<1>2. ASSUME NEW w \in Workers, RequeueStalled(w) PROVE TypeOK'
  BY <1>2, OutboxAssumption DEF TypeOK, RequeueStalled, Status
<1>3. ASSUME NEW w \in Workers, ClaimBatch(w) PROVE TypeOK'
  <2>1. PICK batch \in BatchesOf(Claimable) :
          /\ status' = [e \in Events |-> IF e \in batch THEN "processing" ELSE status[e]]
          /\ attempts' = [e \in Events |-> IF e \in batch THEN attempts[e] + 1
                                                          ELSE attempts[e]]
          /\ age' = [e \in Events |-> IF e \in batch THEN 0 ELSE age[e]]
          /\ todo' = [todo EXCEPT ![w] = batch]
          /\ claim' = [claim EXCEPT ![w] =
                         [e \in Events |-> IF e \in batch THEN attempts[e] + 1 ELSE @[e]]]
    BY <1>3 DEF ClaimBatch
  <2>2. batch \subseteq Events
    BY DEF BatchesOf, Claimable
  <2>3. claim' \in [Workers -> [Events -> Nat]]
    BY <2>1 DEF TypeOK
  <2> QED
    BY <1>3, <2>1, <2>2, <2>3, OutboxAssumption DEF TypeOK, ClaimBatch, Status
<1>4. ASSUME NEW w \in Workers, EndCycle(w) PROVE TypeOK'
  BY <1>4 DEF TypeOK, EndCycle, rowVars, history
<1>5. ASSUME NEW w \in Workers, NEW e \in Events, ReadEvent(w, e) PROVE TypeOK'
  BY <1>5 DEF TypeOK, ReadEvent, rowVars, history
<1>6. ASSUME NEW w \in Workers, Commit(w) PROVE TypeOK'
  <2>1. cur[w] \in Events
    BY <1>6 DEF Commit, WorkerShape
  <2> QED
    BY <1>6, <2>1, CompleteType DEF TypeOK, Commit, Terminal
<1>7. ASSUME NEW w \in Workers, CommitUnconfirmed(w) PROVE TypeOK'
  <2>1. cur[w] \in Events
    BY <1>7 DEF CommitUnconfirmed, WorkerShape
  <2> QED
    BY <1>7, <2>1, CompleteType DEF TypeOK, CommitUnconfirmed, Terminal
<1>8. ASSUME NEW w \in Workers, HandlerFails(w) PROVE TypeOK'
  BY <1>8 DEF TypeOK, HandlerFails, rowVars, history
<1>9. ASSUME NEW w \in Workers, RecordFailure(w) PROVE TypeOK'
  <2>1. cur[w] \in Events
    BY <1>9 DEF RecordFailure, WorkerShape
  <2>2. PICK d \in 0 .. MaxDelay : Complete(cur[w], FailureOutcome(w), d)
    BY <1>9 DEF RecordFailure
  <2>3. d \in Nat /\ FailureOutcome(w) \in Terminal \cup {"retry"}
    BY <2>2, FailureOutcomeType, OutboxAssumption DEF Terminal
  <2> QED
    BY <1>9, <2>1, <2>2, <2>3, CompleteType DEF TypeOK, RecordFailure, history
<1>10. ASSUME NEW w \in Workers, Abandon(w) PROVE TypeOK'
  BY <1>10 DEF TypeOK, Abandon, rowVars
<1>11. ASSUME Tick PROVE TypeOK'
  BY <1>11, OutboxAssumption DEF TypeOK, Tick, workerVars
<1>12. CASE UNCHANGED vars
  BY <1>12 DEF TypeOK, vars
<1> QED
  BY <1>1, <1>2, <1>3, <1>4, <1>5, <1>6, <1>7, <1>8, <1>9, <1>10, <1>11, <1>12
  DEF Next, WorkerStep

-----------------------------------------------------------------------------

\* Every step keeps the shape of the workers.
LEMMA NextWorkerShape ==
  ASSUME TypeOK, WorkerShape, [Next]_vars PROVE WorkerShape'
<1>1. ASSUME NEW e \in Events, Publish(e) PROVE WorkerShape'
  BY <1>1 DEF WorkerShape, Publish, workerVars, history
<1>2. ASSUME NEW w \in Workers, RequeueStalled(w) PROVE WorkerShape'
  BY <1>2 DEF TypeOK, WorkerShape, RequeueStalled
<1>3. ASSUME NEW w \in Workers, ClaimBatch(w) PROVE WorkerShape'
  <2>1. PICK batch \in BatchesOf(Claimable) : todo' = [todo EXCEPT ![w] = batch]
    BY <1>3 DEF ClaimBatch
  <2>2. batch \subseteq Events
    BY DEF BatchesOf, Claimable
  <2>3. cur[w] \notin Events
    BY <1>3 DEF ClaimBatch, WorkerShape
  <2> QED
    BY <1>3, <2>1, <2>2, <2>3 DEF TypeOK, WorkerShape, ClaimBatch
<1>4. ASSUME NEW w \in Workers, EndCycle(w) PROVE WorkerShape'
  BY <1>4 DEF TypeOK, WorkerShape, EndCycle, rowVars, history
<1>5. ASSUME NEW w \in Workers, NEW e \in Events, ReadEvent(w, e) PROVE WorkerShape'
  BY <1>5, OutboxAssumption DEF TypeOK, WorkerShape, ReadEvent, rowVars, history
<1>6. ASSUME NEW w \in Workers, Commit(w) PROVE WorkerShape'
  BY <1>6, OutboxAssumption DEF TypeOK, WorkerShape, Commit
<1>7. ASSUME NEW w \in Workers, CommitUnconfirmed(w) PROVE WorkerShape'
  BY <1>7 DEF TypeOK, WorkerShape, CommitUnconfirmed
<1>8. ASSUME NEW w \in Workers, HandlerFails(w) PROVE WorkerShape'
  BY <1>8 DEF TypeOK, WorkerShape, HandlerFails, rowVars, history
<1>9. ASSUME NEW w \in Workers, RecordFailure(w) PROVE WorkerShape'
  BY <1>9, OutboxAssumption DEF TypeOK, WorkerShape, RecordFailure, history
<1>10. ASSUME NEW w \in Workers, Abandon(w) PROVE WorkerShape'
  BY <1>10, OutboxAssumption DEF TypeOK, WorkerShape, Abandon, rowVars
<1>11. ASSUME Tick PROVE WorkerShape'
  BY <1>11 DEF WorkerShape, Tick, workerVars
<1>12. CASE UNCHANGED vars
  BY <1>12 DEF WorkerShape, vars
<1> QED
  BY <1>1, <1>2, <1>3, <1>4, <1>5, <1>6, <1>7, <1>8, <1>9, <1>10, <1>11, <1>12
  DEF Next, WorkerStep

\* A worker that gives up a failing job does so at MaxAttempts or beyond.
LEMMA GiveUpExhausted ==
  ASSUME TypeOK, AttemptsInv, NEW w \in Workers, cur[w] \in Events,
         FailureOutcome(w) = "dead_letter"
  PROVE  attempts[cur[w]] >= MaxAttempts
  BY OutboxAssumption DEF TypeOK, AttemptsInv, FailureOutcome

\* Every step keeps the bounds on attempt numbers.
LEMMA NextAttemptsInv ==
  ASSUME TypeOK, WorkerShape, AttemptsInv, [Next]_vars PROVE AttemptsInv'
<1> USE DEF AttemptsInv, DeadLetterExhausted
<1>1. ASSUME NEW e \in Events, Publish(e) PROVE AttemptsInv'
  BY <1>1 DEF TypeOK, Publish, workerVars, history
<1>2. ASSUME NEW w \in Workers, RequeueStalled(w) PROVE AttemptsInv'
  BY <1>2 DEF TypeOK, RequeueStalled
<1>3. ASSUME NEW w \in Workers, ClaimBatch(w) PROVE AttemptsInv'
  <2>1. \A e \in Events : attempts'[e] >= attempts[e]
    BY <1>3 DEF TypeOK, ClaimBatch
  <2>2. \A e \in Events : status'[e] = "dead_letter" => status[e] = "dead_letter"
    BY <1>3 DEF TypeOK, ClaimBatch
  <2>3. \A e \in Events : attempts[e] \in Nat /\ attempts'[e] \in Nat
    BY <1>3 DEF TypeOK, ClaimBatch
  <2> QED
    BY <1>3, <2>1, <2>2, <2>3, OutboxAssumption DEF TypeOK, ClaimBatch
<1>4. ASSUME NEW w \in Workers, EndCycle(w) PROVE AttemptsInv'
  BY <1>4 DEF TypeOK, EndCycle, rowVars, history
<1>5. ASSUME NEW w \in Workers, NEW e \in Events, ReadEvent(w, e) PROVE AttemptsInv'
  BY <1>5 DEF TypeOK, ReadEvent, rowVars, history
<1>6. ASSUME NEW w \in Workers, Commit(w) PROVE AttemptsInv'
  BY <1>6, OutboxAssumption DEF TypeOK, WorkerShape, Commit, Complete, rowVars
<1>7. ASSUME NEW w \in Workers, CommitUnconfirmed(w) PROVE AttemptsInv'
  BY <1>7 DEF TypeOK, WorkerShape, CommitUnconfirmed, Complete, rowVars
<1>8. ASSUME NEW w \in Workers, HandlerFails(w) PROVE AttemptsInv'
  BY <1>8 DEF TypeOK, HandlerFails, rowVars, history
<1>9. ASSUME NEW w \in Workers, RecordFailure(w) PROVE AttemptsInv'
  <2>1. cur[w] \in Events
    BY <1>9 DEF RecordFailure, WorkerShape
  <2>2. PICK d \in 0 .. MaxDelay : Complete(cur[w], FailureOutcome(w), d)
    BY <1>9 DEF RecordFailure
  <2>3. attempts' = attempts
    BY <2>2 DEF Complete, rowVars
  <2>4. ASSUME NEW e \in Events, status'[e] = "dead_letter"
        PROVE  attempts[e] >= MaxAttempts
    <3>1. CASE status[e] = "dead_letter"
      BY <3>1
    <3>2. CASE e = cur[w] /\ FailureOutcome(w) = "dead_letter"
      BY <3>2, <2>1, GiveUpExhausted
    <3> QED
      BY <2>1, <2>2, <2>4, <3>1, <3>2 DEF Complete, TypeOK, rowVars
  <2> QED
    BY <1>9, <2>3, <2>4, OutboxAssumption DEF TypeOK, RecordFailure
<1>10. ASSUME NEW w \in Workers, Abandon(w) PROVE AttemptsInv'
  BY <1>10, OutboxAssumption DEF TypeOK, Abandon, rowVars
<1>11. ASSUME Tick PROVE AttemptsInv'
  BY <1>11 DEF Tick, workerVars
<1>12. CASE UNCHANGED vars
  BY <1>12 DEF vars
<1> QED
  BY <1>1, <1>2, <1>3, <1>4, <1>5, <1>6, <1>7, <1>8, <1>9, <1>10, <1>11, <1>12
  DEF Next, WorkerStep

\* Every step keeps the relation between a job, its effects and its holders.
LEMMA NextHolderInv ==
  ASSUME TypeOK, WorkerShape, HolderInv, [Next]_vars PROVE HolderInv'
<1> USE DEF HolderInv, SoleHolder
<1>1. ASSUME NEW e \in Events, Publish(e) PROVE HolderInv'
  BY <1>1 DEF TypeOK, Publish, workerVars, history
<1>2. ASSUME NEW w \in Workers, RequeueStalled(w) PROVE HolderInv'
  <2>1. PICK batch \in BatchesOf(Stalled) :
          /\ status' = [e \in Events |-> IF e \in batch THEN "pending" ELSE status[e]]
          /\ requeues' = [e \in Events |-> IF e \in batch THEN requeues[e] + 1
                                                          ELSE requeues[e]]
    BY <1>2 DEF RequeueStalled
  <2>2. \A e \in Events : requeues'[e] = 0 =>
          status'[e] = status[e] /\ requeues[e] = 0
    BY <2>1 DEF TypeOK
  <2>3. /\ UNCHANGED <<todo, cur, effects>>
        /\ \A v \in Workers : pc'[v] = "run" => pc[v] = "run"
    BY <1>2 DEF RequeueStalled, TypeOK
  <2> QED
    BY <2>2, <2>3
<1>3. ASSUME NEW w \in Workers, ClaimBatch(w) PROVE HolderInv'
  <2>1. PICK batch \in BatchesOf(Claimable) :
          /\ status' = [e \in Events |-> IF e \in batch THEN "processing" ELSE status[e]]
          /\ todo' = [todo EXCEPT ![w] = batch]
    BY <1>3 DEF ClaimBatch
  <2>2. batch \subseteq Events /\ \A e \in batch : status[e] = "pending"
    BY DEF BatchesOf, Claimable
  <2>3. /\ UNCHANGED <<cur, effects, requeues>>
        /\ \A v \in Workers : pc'[v] = "run" => pc[v] = "run"
    BY <1>3 DEF ClaimBatch, TypeOK
  <2>4. todo[w] = {} /\ cur[w] \notin Events
    BY <1>3 DEF ClaimBatch, WorkerShape
  <2>5. \A v \in Workers : todo'[v] = IF v = w THEN batch ELSE todo[v]
    BY <2>1 DEF TypeOK
  <2>6. \A e \in Events :
          status'[e] = IF e \in batch THEN "processing" ELSE status[e]
    BY <2>1
  <2>7. \A e \in batch, v \in Workers :
          requeues[e] = 0 => e \notin todo[v] /\ cur[v] # e
    BY <2>2
  <2> QED
    BY <2>2, <2>3, <2>4, <2>5, <2>6, <2>7
<1>4. ASSUME NEW w \in Workers, EndCycle(w) PROVE HolderInv'
  BY <1>4 DEF TypeOK, EndCycle, rowVars, history
<1>5. ASSUME NEW w \in Workers, NEW e \in Events, ReadEvent(w, e) PROVE HolderInv'
  BY <1>5 DEF TypeOK, WorkerShape, ReadEvent, rowVars, history
<1>6. ASSUME NEW w \in Workers, Commit(w) PROVE HolderInv'
  <2>1. cur[w] \in Events /\ cur[w] \notin todo[w] /\ pc[w] = "run"
    BY <1>6 DEF Commit, WorkerShape
  <2>2. \A e \in Events : e # cur[w] =>
          status'[e] = status[e] /\ effects'[e] = effects[e]
    BY <1>6, <2>1 DEF Commit, Complete, TypeOK, rowVars
  <2>3. \A v \in Workers : /\ v # w => cur'[v] = cur[v] /\ pc'[v] = pc[v]
                           /\ todo'[v] = todo[v]
    BY <1>6 DEF Commit, TypeOK
  <2>4. cur'[w] = NoEvent /\ pc'[w] = "batch" /\ requeues' = requeues
    BY <1>6 DEF Commit, TypeOK
  <2>5. ASSUME requeues[cur[w]] = 0
        PROVE  status'[cur[w]] = "processed" /\ effects'[cur[w]] = 1
    BY <1>6, <2>1, <2>5 DEF Commit, Complete, TypeOK
  <2>6. ASSUME requeues[cur[w]] = 0, NEW v \in Workers, v # w
        PROVE  cur[w] \notin todo[v] /\ cur[v] # cur[w]
    BY <2>1, <2>6
  <2>7. ASSUME NEW e \in Events, requeues[e] = 0 PROVE SoleHolder(e)'
    <3>1. CASE e = cur[w]
      BY <3>1, <2>1, <2>3, <2>4, <2>5, <2>6, <2>7, OutboxAssumption
    <3>2. CASE e # cur[w]
      BY <3>2, <2>2, <2>3, <2>4, <2>7, OutboxAssumption
    <3> QED
      BY <3>1, <3>2
  <2> QED
    BY <2>4, <2>7
<1>7. ASSUME NEW w \in Workers, CommitUnconfirmed(w) PROVE HolderInv'
  <2>1. cur[w] \in Events /\ cur[w] \notin todo[w] /\ pc[w] = "run"
    BY <1>7 DEF CommitUnconfirmed, WorkerShape
  <2>2. \A e \in Events : e # cur[w] =>
          status'[e] = status[e] /\ effects'[e] = effects[e]
    BY <1>7, <2>1 DEF CommitUnconfirmed, Complete, TypeOK, rowVars
  <2>3. /\ UNCHANGED <<cur, todo, requeues>>
        /\ pc'[w] = "fail" /\ \A v \in Workers : v # w => pc'[v] = pc[v]
    BY <1>7 DEF CommitUnconfirmed, TypeOK
  <2>4. ASSUME requeues[cur[w]] = 0
        PROVE  status'[cur[w]] = "processed" /\ effects'[cur[w]] = 1
    BY <1>7, <2>1, <2>4 DEF CommitUnconfirmed, Complete, TypeOK
  <2> QED
    BY <2>1, <2>2, <2>3, <2>4
<1>8. ASSUME NEW w \in Workers, HandlerFails(w) PROVE HolderInv'
  BY <1>8 DEF TypeOK, HandlerFails, rowVars, history
<1>9. ASSUME NEW w \in Workers, RecordFailure(w) PROVE HolderInv'
  <2>1. cur[w] \in Events /\ cur[w] \notin todo[w]
    BY <1>9 DEF RecordFailure, WorkerShape
  <2>2. PICK d \in 0 .. MaxDelay : Complete(cur[w], FailureOutcome(w), d)
    BY <1>9 DEF RecordFailure
  <2>3. \A e \in Events : e # cur[w] => status'[e] = status[e]
    BY <2>1, <2>2 DEF Complete, TypeOK, rowVars
  <2>4. status'[cur[w]] \in {"pending", "failed", "dead_letter", status[cur[w]]}
    BY <2>1, <2>2, FailureOutcomeType DEF Complete, TypeOK, rowVars
  <2>5. status[cur[w]] = "processed" => status'[cur[w]] = "processed"
    BY <2>1, <2>2 DEF Complete, TypeOK, rowVars
  <2>6. \A v \in Workers : /\ v # w => cur'[v] = cur[v] /\ pc'[v] = pc[v]
                           /\ todo'[v] = todo[v]
    BY <1>9 DEF RecordFailure, TypeOK
  <2>7. cur'[w] = NoEvent /\ pc'[w] = "batch" /\ UNCHANGED <<effects, requeues>>
    BY <1>9 DEF RecordFailure, TypeOK, history
  <2>8. ASSUME requeues[cur[w]] = 0, NEW v \in Workers, v # w
        PROVE  cur[w] \notin todo[v] /\ cur[v] # cur[w]
    BY <2>1, <2>8
  <2>9. ASSUME NEW e \in Events, requeues[e] = 0 PROVE SoleHolder(e)'
    <3>1. CASE e = cur[w]
      BY <3>1, <2>1, <2>4, <2>5, <2>6, <2>7, <2>8, <2>9, OutboxAssumption
    <3>2. CASE e # cur[w]
      BY <3>2, <2>3, <2>6, <2>7, <2>9, OutboxAssumption
    <3> QED
      BY <3>1, <3>2
  <2> QED
    BY <2>7, <2>9
<1>10. ASSUME NEW w \in Workers, Abandon(w) PROVE HolderInv'
  BY <1>10, OutboxAssumption DEF TypeOK, Abandon, rowVars
<1>11. ASSUME Tick PROVE HolderInv'
  BY <1>11 DEF Tick, workerVars
<1>12. CASE UNCHANGED vars
  BY <1>12 DEF vars
<1> QED
  BY <1>1, <1>2, <1>3, <1>4, <1>5, <1>6, <1>7, <1>8, <1>9, <1>10, <1>11, <1>12
  DEF Next, WorkerStep

-----------------------------------------------------------------------------

\* The invariant holds in every reachable state.
THEOREM Invariant == Spec => []IInv
<1>1. IInv /\ [Next]_vars => IInv'
  BY NextTypeOK, NextWorkerShape, NextHolderInv, NextAttemptsInv DEF IInv
<1> QED
  BY <1>1, InitIInv, PTL DEF Spec

\* Every variable keeps its type.
THEOREM TypeCorrect == Spec => []TypeOK
  BY Invariant, PTL DEF IInv

\* Handler effects are committed exactly once with 'processed' and not at all
\* otherwise, as long as the job was never taken back as stalled.
THEOREM ExactlyOnce == Spec => []ExactlyOnceWithoutStall
<1>1. IInv => ExactlyOnceWithoutStall
  BY DEF IInv, HolderInv, SoleHolder, ExactlyOnceWithoutStall
<1> QED
  BY <1>1, Invariant, PTL

\* No job is given up as 'dead_letter' before MaxAttempts claims.
THEOREM NoEarlyDeadLetter == Spec => []DeadLetterExhausted
<1>1. IInv => DeadLetterExhausted
  BY DEF IInv, AttemptsInv
<1> QED
  BY <1>1, Invariant, PTL

-----------------------------------------------------------------------------

(* The retry budget.  A worker that reports 'retry' on a row gives up its     *)
(* hold on it, and holds beyond the first come from stall requeues: that      *)
(* bounds what stale workers can add to the attempts.                         *)

Holding(e) == {w \in Workers : e \in todo[w] \/ cur[w] = e}

\* The workers whose failure would be recorded as 'retry'.
Capable(e) == {w \in Workers : cur[w] = e /\ seen[w] < MaxAttempts}

\* One more claim may come.
Waiting(e) == IF status[e] \in {"none", "pending"} THEN 1 ELSE 0

Budget(e) ==
  /\ IsFiniteSet(Holding(e))
  /\ Cardinality(Holding(e)) + Waiting(e) <= requeues[e] + 1
  /\ attempts[e] >= MaxAttempts =>
       attempts[e] + Cardinality(Capable(e)) + Waiting(e) <= MaxAttempts + requeues[e]

BudgetInv == \A e \in Events : Budget(e)

\* Cardinalities are numbers, and the capable are among the holders.
LEMMA HoldersCount ==
  ASSUME NEW e \in Events, Budget(e)
  PROVE  /\ Capable(e) \subseteq Holding(e) /\ IsFiniteSet(Capable(e))
         /\ Cardinality(Holding(e)) \in Nat /\ Cardinality(Capable(e)) \in Nat
         /\ Cardinality(Capable(e)) <= Cardinality(Holding(e))
<1>1. Capable(e) \subseteq Holding(e)
  BY DEF Capable, Holding
<1> QED
  BY <1>1, FS_Subset, FS_CardinalityType DEF Budget

\* Nobody takes hold of the job, and it waits again only if it was requeued.
LEMMA Eased ==
  ASSUME TypeOK, TypeOK', NEW e \in Events, Budget(e),
         Holding(e)' \subseteq Holding(e),
         attempts[e] >= MaxAttempts => Capable(e)' \subseteq Capable(e),
         attempts'[e] = attempts[e],
         Waiting(e)' + requeues[e] <= Waiting(e) + requeues'[e]
  PROVE  Budget(e)'
<1>1. /\ requeues[e] \in Nat /\ requeues'[e] \in Nat /\ attempts[e] \in Nat
      /\ Waiting(e) \in Nat /\ Waiting(e)' \in Nat
  BY DEF TypeOK, Waiting
<1>2. /\ IsFiniteSet(Holding(e)') /\ Cardinality(Holding(e)') \in Nat
      /\ Cardinality(Holding(e)') <= Cardinality(Holding(e))
  BY FS_Subset, FS_CardinalityType DEF Budget
<1>3. /\ Cardinality(Holding(e)) \in Nat /\ Cardinality(Capable(e)) \in Nat
      /\ IsFiniteSet(Capable(e))
  BY HoldersCount
<1>4. attempts[e] >= MaxAttempts => /\ Cardinality(Capable(e)') \in Nat
                                    /\ Cardinality(Capable(e)') <= Cardinality(Capable(e))
  BY <1>3, FS_Subset, FS_CardinalityType
<1>5. Cardinality(Holding(e)') + Waiting(e)' <= requeues'[e] + 1
  BY <1>1, <1>2, <1>3 DEF Budget
<1>6. ASSUME attempts[e] >= MaxAttempts
      PROVE  attempts[e] + Cardinality(Capable(e)') + Waiting(e)' <= MaxAttempts + requeues'[e]
  BY <1>1, <1>3, <1>4, <1>6, OutboxAssumption DEF Budget
<1> QED
  BY <1>2, <1>5, <1>6 DEF Budget

\* A claim ends the wait: the attempt it adds is one the wait stood for.
LEMMA Claimed ==
  ASSUME TypeOK, NEW e \in Events, NEW w \in Workers, Budget(e),
         status[e] = "pending", status'[e] = "processing",
         Holding(e)' = Holding(e) \cup {w}, Capable(e)' = Capable(e),
         attempts'[e] = attempts[e] + 1, requeues'[e] = requeues[e]
  PROVE  Budget(e)'
<1>1. requeues[e] \in Nat /\ attempts[e] \in Nat /\ Waiting(e) = 1 /\ Waiting(e)' = 0
  BY DEF TypeOK, Waiting
<1>2. /\ IsFiniteSet(Holding(e)') /\ Cardinality(Holding(e)') \in Nat
      /\ Cardinality(Holding(e)') <= Cardinality(Holding(e)) + 1
  <2>1. /\ IsFiniteSet(Holding(e) \cup {w})
        /\ Cardinality(Holding(e) \cup {w}) \in {Cardinality(Holding(e)), Cardinality(Holding(e)) + 1}
    BY FS_AddElement DEF Budget
  <2> QED
    BY <2>1, HoldersCount
<1>3. /\ Cardinality(Holding(e)) \in Nat /\ Cardinality(Capable(e)) \in Nat
      /\ Cardinality(Capable(e)) <= Cardinality(Holding(e))
  BY HoldersCount
<1>4. Cardinality(Holding(e)') + Waiting(e)' <= requeues'[e] + 1
  BY <1>1, <1>2, <1>3 DEF Budget
<1>5. ASSUME attempts'[e] >= MaxAttempts
      PROVE  attempts'[e] + Cardinality(Capable(e)') + Waiting(e)' <= MaxAttempts + requeues'[e]
  BY <1>1, <1>3, <1>5, OutboxAssumption DEF Budget
<1> QED
  BY <1>2, <1>4, <1>5 DEF Budget

\* A retry starts a wait and costs its reporter the hold.
LEMMA Retried ==
  ASSUME TypeOK, NEW e \in Events, NEW w \in Capable(e), Budget(e),
         status[e] = "processing", status'[e] = "pending",
         Holding(e)' = Holding(e) \ {w}, Capable(e)' = Capable(e) \ {w},
         attempts'[e] = attempts[e], requeues'[e] = requeues[e]
  PROVE  Budget(e)'
<1>1. requeues[e] \in Nat /\ attempts[e] \in Nat /\ Waiting(e) = 0 /\ Waiting(e)' = 1
  BY DEF TypeOK, Waiting
<1>2. /\ Cardinality(Holding(e)) \in Nat /\ Cardinality(Capable(e)) \in Nat
      /\ IsFiniteSet(Capable(e)) /\ w \in Holding(e)
  BY HoldersCount
<1>3. /\ IsFiniteSet(Holding(e)') /\ Cardinality(Holding(e)') = Cardinality(Holding(e)) - 1
      /\ Cardinality(Capable(e)') = Cardinality(Capable(e)) - 1
  BY <1>2, FS_RemoveElement DEF Budget
<1>4. Cardinality(Holding(e)') + Waiting(e)' <= requeues'[e] + 1
  BY <1>1, <1>2, <1>3 DEF Budget
<1>5. ASSUME attempts'[e] >= MaxAttempts
      PROVE  attempts'[e] + Cardinality(Capable(e)') + Waiting(e)' <= MaxAttempts + requeues'[e]
  BY <1>1, <1>2, <1>3, <1>5, OutboxAssumption DEF Budget
<1> QED
  BY <1>3, <1>4, <1>5 DEF Budget

\* Every step keeps the budget of every job.
LEMMA NextBudget ==
  ASSUME TypeOK, WorkerShape, BudgetInv, [Next]_vars PROVE BudgetInv'
<1> SUFFICES ASSUME NEW e \in Events PROVE Budget(e)'
  BY DEF BudgetInv
<1>0. TypeOK' /\ Budget(e) /\ requeues[e] \in Nat
  BY NextTypeOK DEF BudgetInv, TypeOK
<1>1. ASSUME NEW f \in Events, Publish(f) PROVE Budget(e)'
  <2>1. Holding(e)' = Holding(e) /\ Capable(e)' = Capable(e) /\ attempts'[e] = attempts[e]
    BY <1>1 DEF Publish, Holding, Capable, workerVars
  <2>2. Waiting(e)' = Waiting(e) /\ requeues' = requeues
    BY <1>1 DEF Publish, Waiting, TypeOK, history
  <2> QED
    BY <1>0, <2>1, <2>2, Eased DEF Waiting
<1>2. ASSUME NEW w \in Workers, RequeueStalled(w) PROVE Budget(e)'
  <2>1. Holding(e)' = Holding(e) /\ Capable(e)' = Capable(e) /\ attempts'[e] = attempts[e]
    BY <1>2 DEF RequeueStalled, Holding, Capable
  <2>2. Waiting(e)' + requeues[e] <= Waiting(e) + requeues'[e]
    BY <1>0, <1>2 DEF RequeueStalled, Waiting, TypeOK
  <2> QED
    BY <1>0, <2>1, <2>2, Eased
<1>3. ASSUME NEW w \in Workers, ClaimBatch(w) PROVE Budget(e)'
  <2>1. PICK batch \in BatchesOf(Claimable) :
          /\ status' = [f \in Events |-> IF f \in batch THEN "processing" ELSE status[f]]
          /\ attempts' = [f \in Events |-> IF f \in batch THEN attempts[f] + 1
                                                          ELSE attempts[f]]
          /\ todo' = [todo EXCEPT ![w] = batch]
    BY <1>3 DEF ClaimBatch
  <2>2. UNCHANGED <<cur, seen, requeues>> /\ todo[w] = {} /\ cur[w] \notin Events
    BY <1>3 DEF ClaimBatch, WorkerShape
  <2>3. Capable(e)' = Capable(e)
    BY <2>2 DEF Capable
  <2>4. CASE e \in batch
    <3>1. status[e] = "pending"
      BY <2>4 DEF BatchesOf, Claimable
    <3>2. Holding(e)' = Holding(e) \cup {w}
      BY <2>1, <2>2, <2>4 DEF Holding, TypeOK
    <3> QED
      BY <1>0, <2>1, <2>2, <2>3, <2>4, <3>1, <3>2, Claimed
  <2>5. CASE e \notin batch
    <3>1. Holding(e)' \subseteq Holding(e) /\ Waiting(e)' = Waiting(e)
      BY <2>1, <2>2, <2>5 DEF Holding, Waiting, TypeOK
    <3> QED
      BY <1>0, <2>1, <2>2, <2>3, <2>5, <3>1, Eased DEF Waiting
  <2> QED
    BY <2>4, <2>5
<1>4. ASSUME NEW w \in Workers, EndCycle(w) \/ HandlerFails(w) PROVE Budget(e)'
  <2>1. UNCHANGED <<status, attempts, todo, cur, seen, requeues>>
    BY <1>4 DEF EndCycle, HandlerFails, rowVars, history
  <2> QED
    BY <1>0, <2>1, Eased DEF Holding, Capable, Waiting
<1>5. ASSUME NEW w \in Workers, NEW f \in Events, ReadEvent(w, f) PROVE Budget(e)'
  <2>1. UNCHANGED <<status, attempts, requeues>> /\ cur[w] \notin Events
    BY <1>5 DEF ReadEvent, rowVars, history, WorkerShape
  <2>2. Holding(e)' \subseteq Holding(e)
    BY <1>5 DEF ReadEvent, Holding, TypeOK
  <2>3. attempts[e] >= MaxAttempts => Capable(e)' \subseteq Capable(e)
    BY <1>5, OutboxAssumption DEF ReadEvent, Capable, TypeOK
  <2> QED
    BY <1>0, <2>1, <2>2, <2>3, Eased DEF Waiting
<1>6. ASSUME NEW w \in Workers, Commit(w) \/ CommitUnconfirmed(w) PROVE Budget(e)'
  <2>1. cur[w] \in Events
    BY <1>6 DEF Commit, CommitUnconfirmed, WorkerShape
  <2>2. attempts' = attempts /\ (status[e] \notin {"none", "pending"} => status'[e] \notin {"none", "pending"})
    BY <1>6, <2>1 DEF Commit, CommitUnconfirmed, Complete, TypeOK, rowVars
  <2>3. Holding(e)' \subseteq Holding(e) /\ Capable(e)' \subseteq Capable(e) /\ requeues' = requeues
    BY <1>6, OutboxAssumption DEF Commit, CommitUnconfirmed, Holding, Capable, TypeOK
  <2>4. Waiting(e)' <= Waiting(e)
    BY <2>2 DEF Waiting
  <2> QED
    BY <1>0, <2>2, <2>3, <2>4, Eased DEF Waiting
<1>7. ASSUME NEW w \in Workers, RecordFailure(w) PROVE Budget(e)'
  <2>1. cur[w] \in Events
    BY <1>7 DEF RecordFailure, WorkerShape
  <2>2. PICK d \in 0 .. MaxDelay : Complete(cur[w], FailureOutcome(w), d)
    BY <1>7 DEF RecordFailure
  <2>3. /\ UNCHANGED <<todo, seen, requeues>> /\ cur' = [cur EXCEPT ![w] = NoEvent]
        /\ attempts' = attempts
    BY <1>7, <2>2 DEF RecordFailure, history, Complete, rowVars
  <2>4. Holding(e)' \subseteq Holding(e) /\ Capable(e)' \subseteq Capable(e)
    BY <2>3, OutboxAssumption DEF Holding, Capable, TypeOK
  <2>5. CASE e = cur[w] /\ status[e] = "processing" /\ FailureOutcome(w) = "retry"
    <3>1. status'[e] = "pending"
      BY <2>2, <2>5 DEF Complete, TypeOK
    <3>2. w \in Capable(e)
      BY <2>5 DEF Capable, FailureOutcome
    <3>3. Holding(e)' = Holding(e) \ {w} /\ Capable(e)' = Capable(e) \ {w}
      <4>1. e \notin todo[w]
        BY <2>5 DEF WorkerShape
      <4> QED
        BY <2>3, <2>5, <4>1, OutboxAssumption DEF Holding, Capable, TypeOK
    <3> QED
      BY <1>0, <2>3, <2>5, <3>1, <3>2, <3>3, Retried
  <2>6. CASE ~(e = cur[w] /\ status[e] = "processing" /\ FailureOutcome(w) = "retry")
    <3>1. status[e] \notin {"none", "pending"} => status'[e] \notin {"none", "pending"}
      BY <2>1, <2>2, <2>6, FailureOutcomeType DEF Complete, TypeOK, rowVars
    <3>2. Waiting(e)' <= Waiting(e)
      BY <3>1 DEF Waiting
    <3> QED
      BY <1>0, <2>3, <2>4, <3>2, Eased DEF Waiting
  <2> QED
    BY <2>5, <2>6
<1>8. ASSUME NEW w \in Workers, Abandon(w) PROVE Budget(e)'
  <2>1. UNCHANGED <<status, attempts, requeues>>
    BY <1>8 DEF Abandon, rowVars
  <2>2. Holding(e)' \subseteq Holding(e) /\ Capable(e)' \subseteq Capable(e)
    BY <1>8, OutboxAssumption DEF Abandon, Holding, Capable, TypeOK
  <2> QED
    BY <1>0, <2>1, <2>2, Eased DEF Waiting
<1>9. CASE Tick \/ UNCHANGED vars
  <2>1. UNCHANGED <<status, attempts, todo, cur, seen, requeues>>
    BY <1>9 DEF Tick, vars, workerVars
  <2> QED
    BY <1>0, <2>1, Eased DEF Holding, Capable, Waiting
<1> QED
  BY <1>1, <1>2, <1>3, <1>4, <1>5, <1>6, <1>7, <1>8, <1>9 DEF Next, WorkerStep

\* A job is claimed more than MaxAttempts times only once per stall requeue,
\* whatever stale workers report.
THEOREM RetryBudget == Spec => []AttemptsBudget
<1>1. Init => BudgetInv
  <2> SUFFICES ASSUME Init, NEW e \in Events PROVE Budget(e)
    BY DEF BudgetInv
  <2>1. Holding(e) = {} /\ Waiting(e) = 1
    BY OutboxAssumption DEF Init, Holding, Waiting
  <2> QED
    BY <2>1, FS_EmptySet, OutboxAssumption DEF Init, Budget
<1>2. TypeOK /\ WorkerShape /\ BudgetInv /\ [Next]_vars => BudgetInv'
  BY NextBudget
<1>3. Spec => [](TypeOK /\ WorkerShape)
  BY Invariant, PTL DEF IInv
<1>4. Spec => []BudgetInv
  BY <1>1, <1>2, <1>3, PTL DEF Spec
<1>5. TypeOK /\ BudgetInv => AttemptsBudget
  <2> SUFFICES ASSUME TypeOK, NEW e \in Events, Budget(e)
               PROVE  attempts[e] <= MaxAttempts + requeues[e]
    BY DEF BudgetInv, AttemptsBudget
  <2>1. Cardinality(Capable(e)) \in Nat
    BY HoldersCount
  <2> QED
    BY <2>1, OutboxAssumption DEF TypeOK, Budget, Waiting
<1> QED
  BY <1>3, <1>4, <1>5, PTL

-----------------------------------------------------------------------------

\* The completion of a job in hand closes its phase, and only from "open".
LEMMA CompletePhase ==
  ASSUME TypeOK, NEW e \in Events, NEW o \in Terminal \cup {"retry"},
         NEW d \in Nat, Complete(e, o, d)
  PROVE  \/ Phase' = Phase
         \/ /\ Phase[e] = "open"
            /\ o \in Terminal
            /\ Phase' = [Phase EXCEPT ![e] = o]
<1>1. CASE status[e] = "processing"
  <2>1. CASE o = "retry"
    BY <1>1, <2>1 DEF TypeOK, Complete, Phase
  <2>2. CASE o \in Terminal
    <3>1. status' = [status EXCEPT ![e] = o]
      BY <1>1, <2>2 DEF Complete, Terminal
    <3>2. o \notin {"pending", "processing"}
      BY <2>2 DEF Terminal
    <3>3. Phase[e] = "open"
      BY <1>1 DEF Phase
    <3>4. Phase' = [Phase EXCEPT ![e] = o]
      BY <3>1, <3>2 DEF Phase, TypeOK
    <3> QED
      BY <2>2, <3>3, <3>4
  <2> QED
    BY <2>1, <2>2
<1>2. CASE status[e] # "processing"
  BY <1>2 DEF Complete, Phase, rowVars
<1> QED
  BY <1>1, <1>2

\* A commit of the handler is a step of the contract.
LEMMA CommitStep ==
  ASSUME TypeOK, NEW e \in Events, status[e] # "none", Complete(e, "processed", 0),
         effects' = [effects EXCEPT ![e] = @ + 1]
  PROVE  Contract!Next
<1>1. CASE Phase' = Phase
  <2>1. Phase[e] # "none"
    BY DEF Phase
  <2> QED
    BY <1>1, <2>1 DEF Contract!Next, Contract!Run
<1>2. CASE Phase[e] = "open" /\ Phase' = [Phase EXCEPT ![e] = "processed"]
  BY <1>2 DEF Contract!Next, Contract!Process
<1> QED
  BY <1>1, <1>2, CompletePhase DEF Terminal

\* A job in a worker's hands has been published.
Published == \A w \in Workers, e \in Events :
               e \in todo[w] \/ cur[w] = e => status[e] # "none"

LEMMA NextPublished ==
  ASSUME TypeOK, WorkerShape, Published, [Next]_vars PROVE Published'
<1> USE DEF Published
<1>1. ASSUME NEW w \in Workers, ClaimBatch(w) PROVE Published'
  BY <1>1 DEF TypeOK, ClaimBatch, BatchesOf, Claimable
<1>2. ASSUME NEW w \in Workers, RecordFailure(w) PROVE Published'
  <2>1. cur[w] \in Events
    BY <1>2 DEF RecordFailure, WorkerShape
  <2>2. PICK d \in 0 .. MaxDelay : Complete(cur[w], FailureOutcome(w), d)
    BY <1>2 DEF RecordFailure
  <2>3. \A e \in Events : status'[e] = "none" => status[e] = "none"
    BY <2>1, <2>2, FailureOutcomeType DEF Complete, TypeOK, rowVars
  <2> QED
    BY <1>2, <2>3, OutboxAssumption DEF TypeOK, RecordFailure
<1>3. ASSUME NEW w \in Workers, Commit(w) PROVE Published'
  BY <1>3, OutboxAssumption DEF TypeOK, WorkerShape, Commit, Complete, rowVars
<1>4. ASSUME NEW w \in Workers, CommitUnconfirmed(w) PROVE Published'
  BY <1>4 DEF TypeOK, WorkerShape, CommitUnconfirmed, Complete, rowVars
<1>5. ASSUME NEW w \in Workers, RequeueStalled(w) PROVE Published'
  BY <1>5 DEF TypeOK, RequeueStalled
<1>6. ASSUME NEW w \in Workers, Abandon(w) PROVE Published'
  BY <1>6, OutboxAssumption DEF TypeOK, Abandon, rowVars
<1>7. ASSUME NEW w \in Workers,
             EndCycle(w) \/ HandlerFails(w) \/ \E e \in Events : ReadEvent(w, e)
      PROVE  Published'
  BY <1>7 DEF TypeOK, EndCycle, HandlerFails, ReadEvent, rowVars, history
<1>8. CASE Tick \/ UNCHANGED vars \/ \E e \in Events : Publish(e)
  BY <1>8 DEF TypeOK, Tick, Publish, vars, workerVars
<1> QED
  BY <1>1, <1>2, <1>3, <1>4, <1>5, <1>6, <1>7, <1>8 DEF Next, WorkerStep

\* Every step of the outbox is a step of the contract or leaves it unchanged.
LEMMA StepRefines ==
  ASSUME TypeOK, WorkerShape, Published, [Next]_vars
  PROVE  [Contract!Next]_<<Phase, effects>>
<1>1. ASSUME NEW e \in Events, Publish(e) PROVE Contract!Next
  <2>1. Phase[e] = "none" /\ Phase' = [Phase EXCEPT ![e] = "open"]
    BY <1>1 DEF Publish, Phase, TypeOK
  <2> QED
    BY <1>1, <2>1 DEF Publish, history, Contract!Next, Contract!Accept
<1>2. ASSUME NEW w \in Workers, RequeueStalled(w)
      PROVE  UNCHANGED <<Phase, effects>>
  BY <1>2 DEF RequeueStalled, BatchesOf, Stalled, Phase, TypeOK
<1>3. ASSUME NEW w \in Workers, ClaimBatch(w)
      PROVE  UNCHANGED <<Phase, effects>>
  BY <1>3 DEF ClaimBatch, BatchesOf, Claimable, Phase, TypeOK
<1>4. ASSUME NEW w \in Workers, Commit(w) \/ CommitUnconfirmed(w)
      PROVE  Contract!Next
  <2>1. cur[w] \in Events /\ status[cur[w]] # "none"
    BY <1>4 DEF Commit, CommitUnconfirmed, WorkerShape, Published
  <2> QED
    BY <1>4, <2>1, CommitStep DEF Commit, CommitUnconfirmed
<1>5. ASSUME NEW w \in Workers, RecordFailure(w)
      PROVE  [Contract!Next]_<<Phase, effects>>
  <2>1. cur[w] \in Events
    BY <1>5 DEF RecordFailure, WorkerShape
  <2>2. PICK d \in 0 .. MaxDelay : Complete(cur[w], FailureOutcome(w), d)
    BY <1>5 DEF RecordFailure
  <2>3. d \in Nat /\ FailureOutcome(w) \in {"failed", "dead_letter", "retry"}
    BY <2>2, FailureOutcomeType, OutboxAssumption
  <2>4. \/ Phase' = Phase
        \/ /\ Phase[cur[w]] = "open"
           /\ FailureOutcome(w) \in {"failed", "dead_letter"}
           /\ Phase' = [Phase EXCEPT ![cur[w]] = FailureOutcome(w)]
    BY <2>1, <2>2, <2>3, CompletePhase DEF Terminal
  <2>5. effects' = effects
    BY <1>5 DEF RecordFailure, history
  <2> QED
    BY <2>1, <2>4, <2>5 DEF Contract!Next, Contract!GiveUp
<1>6. CASE UNCHANGED <<status, effects>>
  BY <1>6 DEF Phase
<1> QED
  BY <1>1, <1>2, <1>3, <1>4, <1>5, <1>6
  DEF Next, WorkerStep, EndCycle, ReadEvent, HandlerFails, Abandon, Tick, vars,
      rowVars, history

\* The outbox implements JobContract: a published job stays open through
\* claims, retries and stalls, is closed once and for all, and is processed
\* only together with its effects.
THEOREM Refinement == Spec => ImplementsContract
<1>1. Init => Contract!Init /\ Published
  BY OutboxAssumption DEF Init, Published, Contract!Init, Phase
<1>2. TypeOK /\ WorkerShape /\ Published /\ [Next]_vars
      => Published' /\ [Contract!Next]_<<Phase, effects>>
  BY NextPublished, StepRefines
<1>3. Spec => [](TypeOK /\ WorkerShape)
  BY Invariant, PTL DEF IInv
<1>4. Spec => []Published
  BY <1>1, <1>2, <1>3, PTL DEF Spec
<1>5. <<Phase, effects>> = Contract!vars
  BY DEF Contract!vars
<1> QED
  BY <1>1, <1>2, <1>3, <1>4, PTL DEF Spec, ImplementsContract, Contract!Spec, Contract!vars

(* Retries are neither cut short nor unbounded (worker_fail_outbox_event):    *)
(* the two bounds, together.                                                  *)
THEOREM RetriesBounded == Spec => []RetriesWithinBudget
  BY NoEarlyDeadLetter, RetryBudget, PTL DEF RetriesWithinBudget
=============================================================================
