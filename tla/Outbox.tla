------------------------------- MODULE Outbox -------------------------------
(***************************************************************************)
(* The transactional outbox and its worker processes.                      *)
(*                                                                         *)
(* A business transaction inserts a row in outbox_events; worker processes *)
(* claim rows in batches, run the handler of each row and record how it    *)
(* ended.  A claim has no owner and no token: a row in 'processing' older  *)
(* than the stall timeout goes back to 'pending', and whoever calls        *)
(* worker_complete_outbox_event next on a 'processing' row transitions it. *)
(*                                                                         *)
(* Time is relative: wait[e] is what is left until available_at, age[e]    *)
(* what has passed since updated_at (saturating once the row is stalled).  *)
(***************************************************************************)
EXTENDS Naturals, FiniteSets

CONSTANTS
  Events,        \* the rows (one per idempotency key)
  Workers,       \* the worker processes
  NoEvent,       \* "no job in hand"
  MaxAttempts,   \* DEFAULT_MAX_ATTEMPTS
  BaseDelay,     \* DEFAULT_BASE_DELAY_SECONDS
  MaxDelay,      \* DEFAULT_MAX_DELAY_SECONDS
  Stall,         \* WORKER_STALL_SECONDS
  BatchSize,     \* WORKER_BATCH_SIZE
  MaxFaults      \* bound: crashes, abandoned batches and outlived stall timeouts

ASSUME OutboxAssumption ==
  /\ NoEvent \notin Events
  /\ MaxAttempts \in Nat \ {0}
  /\ BaseDelay \in Nat
  /\ MaxDelay \in Nat
  /\ Stall \in Nat
  /\ BatchSize \in Nat \ {0}
  /\ MaxFaults \in Nat

VARIABLES
  status,    \* outbox_events.status; "none": the row does not exist yet
  attempts,  \* outbox_events.attempts
  wait,      \* time left until outbox_events.available_at
  age,       \* time since outbox_events.updated_at, at most Stall + 1
  todo,      \* per worker: the claimed jobs of its batch not yet looked at
  cur,       \* per worker: the job processClaimedJob is running
  pc,        \* per worker: "idle", "poll", "batch", "run" or "fail"
  seen,      \* per worker: event.attempts as getClaimedEvent returned it
  retryable, \* per worker: classification of the failure in hand
  claim,     \* history: the attempt number each worker claimed each job with
  effects,   \* history: committed runs of the job's handler
  requeues,  \* history: times the job was taken back as stalled
  faults     \* history: faults so far, see MaxFaults

rowVars    == <<status, attempts, wait, age>>
workerVars == <<todo, cur, pc, seen, retryable>>
history    == <<claim, effects, requeues, faults>>
vars       == <<status, attempts, wait, age, todo, cur, pc, seen, retryable,
                claim, effects, requeues, faults>>

Terminal == {"processed", "failed", "dead_letter"}
Status   == {"none", "pending", "processing"} \cup Terminal

TypeOK ==
  /\ status \in [Events -> Status]
  /\ attempts \in [Events -> Nat]
  /\ wait \in [Events -> Nat]
  /\ age \in [Events -> 0 .. Stall + 1]
  /\ todo \in [Workers -> SUBSET Events]
  /\ cur \in [Workers -> Events \cup {NoEvent}]
  /\ pc \in [Workers -> {"idle", "poll", "batch", "run", "fail"}]
  /\ seen \in [Workers -> Nat]
  /\ retryable \in [Workers -> BOOLEAN]
  /\ claim \in [Workers -> [Events -> Nat]]
  /\ effects \in [Events -> Nat]
  /\ requeues \in [Events -> Nat]
  /\ faults \in Nat

Init ==
  /\ status = [e \in Events |-> "none"]
  /\ attempts = [e \in Events |-> 0]
  /\ wait = [e \in Events |-> 0]
  /\ age = [e \in Events |-> 0]
  /\ todo = [w \in Workers |-> {}]
  /\ cur = [w \in Workers |-> NoEvent]
  /\ pc = [w \in Workers |-> "idle"]
  /\ seen = [w \in Workers |-> 0]
  /\ retryable = [w \in Workers |-> FALSE]
  /\ claim = [w \in Workers |-> [e \in Events |-> 0]]
  /\ effects = [e \in Events |-> 0]
  /\ requeues = [e \in Events |-> 0]
  /\ faults = 0

(***************************************************************************)
(* Rows.                                                                   *)
(***************************************************************************)

\* The jobs a worker has claimed and not yet finished with.
Holds(w) == todo[w] \cup ({cur[w]} \ {NoEvent})

Claimable == {e \in Events : status[e] = "pending" /\ wait[e] = 0}

\* Mutant: a job that used up its attempts is not taken back.
StalledWithBudget ==
  {e \in Events : status[e] = "processing" /\ age[e] > Stall /\ attempts[e] < MaxAttempts}

Stalled == {e \in Events : status[e] = "processing" /\ age[e] > Stall}

\* A batch of LIMIT BatchSize rows; the ORDER BY only decides which.
BatchesOf(rows) ==
  {b \in SUBSET rows : /\ Cardinality(b) <= BatchSize
                       /\ Cardinality(b) = BatchSize \/ b = rows}

RetryDelay(n) ==
  LET delay == BaseDelay * 2 ^ (IF n > 1 THEN n - 1 ELSE 0)
  IN  IF delay < MaxDelay THEN delay ELSE MaxDelay

\* Mutant: the UPDATE forgets that only a row in 'processing' moves.
CompleteAnyRow(e, outcome, delay) ==
  /\ status' = [status EXCEPT ![e] = IF outcome = "retry" THEN "pending" ELSE outcome]
  /\ wait' = IF outcome = "retry" THEN [wait EXCEPT ![e] = delay] ELSE wait
  /\ age' = [age EXCEPT ![e] = 0]
  /\ UNCHANGED attempts

\* worker_complete_outbox_event: only a row in 'processing' moves.
Complete(e, outcome, delay) ==
  IF status[e] = "processing"
  THEN /\ status' = [status EXCEPT ![e] =
                       IF outcome = "retry" THEN "pending" ELSE outcome]
       /\ wait' = IF outcome = "retry" THEN [wait EXCEPT ![e] = delay] ELSE wait
       /\ age' = [age EXCEPT ![e] = 0]
       /\ UNCHANGED attempts
  ELSE UNCHANGED rowVars

(***************************************************************************)
(* Steps.                                                                  *)
(***************************************************************************)

\* publishOutboxEvent inside the business transaction that commits.  A second
\* publish under the same idempotency key finds the row and changes nothing.
Publish(e) ==
  /\ status[e] = "none"
  /\ status' = [status EXCEPT ![e] = "pending"]
  /\ UNCHANGED <<attempts, wait, age, workerVars, history>>

\* First statement of a worker cycle: requeueStalled.
RequeueStalled(w) ==
  /\ pc[w] = "idle"
  /\ \E batch \in BatchesOf(Stalled) :
       /\ status' = [e \in Events |-> IF e \in batch THEN "pending" ELSE status[e]]
       /\ age' = [e \in Events |-> IF e \in batch THEN 0 ELSE age[e]]
       /\ requeues' = [e \in Events |-> IF e \in batch THEN requeues[e] + 1
                                                       ELSE requeues[e]]
  /\ pc' = [pc EXCEPT ![w] = "poll"]
  /\ UNCHANGED <<attempts, wait, todo, cur, seen, retryable, claim, effects, faults>>

\* Second statement of a worker cycle: claimBatch.
ClaimBatch(w) ==
  /\ pc[w] = "poll"
  /\ \E batch \in BatchesOf(Claimable) :
       /\ status' = [e \in Events |-> IF e \in batch THEN "processing" ELSE status[e]]
       /\ attempts' = [e \in Events |-> IF e \in batch THEN attempts[e] + 1
                                                       ELSE attempts[e]]
       /\ age' = [e \in Events |-> IF e \in batch THEN 0 ELSE age[e]]
       /\ todo' = [todo EXCEPT ![w] = batch]
       /\ claim' = [claim EXCEPT ![w] =
                      [e \in Events |-> IF e \in batch THEN attempts[e] + 1 ELSE @[e]]]
  /\ pc' = [pc EXCEPT ![w] = "batch"]
  /\ UNCHANGED <<wait, cur, seen, retryable, effects, requeues, faults>>

\* The loop over the batch is over: sleep, then the next cycle.
EndCycle(w) ==
  /\ pc[w] = "batch"
  /\ todo[w] = {}
  /\ pc' = [pc EXCEPT ![w] = "idle"]
  /\ UNCHANGED <<rowVars, todo, cur, seen, retryable, history>>

\* getClaimedEvent on the next job: gone from 'processing' -> already_finished.
ReadEvent(w, e) ==
  /\ pc[w] = "batch"
  /\ e \in todo[w]
  /\ todo' = [todo EXCEPT ![w] = @ \ {e}]
  /\ IF status[e] = "processing"
     THEN /\ cur' = [cur EXCEPT ![w] = e]
          /\ seen' = [seen EXCEPT ![w] = attempts[e]]
          /\ pc' = [pc EXCEPT ![w] = "run"]
     ELSE UNCHANGED <<cur, seen, pc>>
  /\ UNCHANGED <<rowVars, retryable, history>>

\* The handler's writes and worker_complete_outbox_event('processed') commit
\* together.  The COMMIT is sent whatever the latter returned.
Commit(w) ==
  /\ pc[w] = "run"
  /\ Complete(cur[w], "processed", 0)
  /\ effects' = [effects EXCEPT ![cur[w]] = @ + 1]
  /\ cur' = [cur EXCEPT ![w] = NoEvent]
  /\ pc' = [pc EXCEPT ![w] = "batch"]
  /\ UNCHANGED <<todo, seen, retryable, claim, requeues, faults>>

\* The same COMMIT takes effect but its answer is lost: the worker sees an error.
CommitUnconfirmed(w) ==
  /\ pc[w] = "run"
  /\ Complete(cur[w], "processed", 0)
  /\ effects' = [effects EXCEPT ![cur[w]] = @ + 1]
  /\ retryable' = [retryable EXCEPT ![w] = TRUE]
  /\ pc' = [pc EXCEPT ![w] = "fail"]
  /\ UNCHANGED <<todo, cur, seen, claim, requeues, faults>>

\* The handler (or the lookup of a handler) fails: ROLLBACK undoes its writes.
HandlerFails(w) ==
  /\ pc[w] = "run"
  /\ \E r \in BOOLEAN : retryable' = [retryable EXCEPT ![w] = r]
  /\ pc' = [pc EXCEPT ![w] = "fail"]
  /\ UNCHANGED <<rowVars, todo, cur, seen, history>>

\* Mutants: the budget compared one too low, and one too high.
OutcomeTooSoon(w) ==
  IF ~retryable[w] THEN "failed"
  ELSE IF seen[w] + 1 < MaxAttempts THEN "retry" ELSE "dead_letter"

OutcomeOneMore(w) ==
  IF ~retryable[w] THEN "failed"
  ELSE IF seen[w] <= MaxAttempts THEN "retry" ELSE "dead_letter"

\* The transition of a failed attempt, a statement of its own after ROLLBACK.
FailureOutcome(w) ==
  IF ~retryable[w] THEN "failed"
  ELSE IF seen[w] < MaxAttempts THEN "retry" ELSE "dead_letter"

RecordFailure(w) ==
  /\ pc[w] = "fail"
  /\ \E delay \in 0 .. MaxDelay :
       delay = RetryDelay(seen[w]) /\ Complete(cur[w], FailureOutcome(w), delay)
  /\ cur' = [cur EXCEPT ![w] = NoEvent]
  /\ pc' = [pc EXCEPT ![w] = "batch"]
  /\ UNCHANGED <<todo, seen, retryable, history>>

\* The worker lets go of every job in hand without recording anything: the
\* process dies, the database fails between statements (the error leaves the
\* loop over the batch), or SIGTERM stops the loop between two jobs.
Abandon(w) ==
  /\ pc[w] \in {"batch", "run", "fail"}
  /\ Holds(w) # {}
  /\ faults < MaxFaults
  /\ faults' = faults + 1
  /\ todo' = [todo EXCEPT ![w] = {}]
  /\ cur' = [cur EXCEPT ![w] = NoEvent]
  /\ pc' = [pc EXCEPT ![w] = "idle"]
  /\ UNCHANGED <<rowVars, seen, retryable, claim, effects, requeues>>

\* Time passes.  A job a live worker still holds outlives the stall timeout
\* only as one of the MaxFaults faults.
Outlived == {e \in Events : /\ status[e] = "processing"
                            /\ age[e] = Stall
                            /\ \E w \in Workers : e \in Holds(w)}

Tick ==
  /\ \E e \in Events : wait[e] > 0 \/ (status[e] = "processing" /\ age[e] <= Stall)
  /\ wait' = [e \in Events |-> IF wait[e] > 0 THEN wait[e] - 1 ELSE 0]
  /\ age' = [e \in Events |-> IF status[e] = "processing" /\ age[e] <= Stall
                              THEN age[e] + 1 ELSE age[e]]
  /\ IF Outlived = {}
     THEN UNCHANGED faults
     ELSE /\ faults < MaxFaults
          /\ faults' = faults + 1
  /\ UNCHANGED <<status, attempts, workerVars, claim, effects, requeues>>

WorkerStep(w) ==
  \/ RequeueStalled(w)
  \/ ClaimBatch(w)
  \/ EndCycle(w)
  \/ \E e \in Events : ReadEvent(w, e)
  \/ Commit(w)
  \/ CommitUnconfirmed(w)
  \/ HandlerFails(w)
  \/ RecordFailure(w)

Next ==
  \/ \E e \in Events : Publish(e)
  \/ \E w \in Workers : WorkerStep(w) \/ Abandon(w)
  \/ Tick

Spec == Init /\ [][Next]_vars

\* Every worker keeps taking steps (the loop of run.ts swallows every error of
\* a cycle and the process is restarted) and time passes.
FairSpec == Spec /\ WF_vars(Tick) /\ \A w \in Workers : WF_vars(WorkerStep(w))

(***************************************************************************)
(* Properties.                                                             *)
(***************************************************************************)

\* Handler effects and 'processed' are one commit: as long as a job was never
\* taken back as stalled, its effects are committed exactly once if it is
\* 'processed' and not at all otherwise, whatever crashed, failed or committed
\* without an answer meanwhile.
ExactlyOnceWithoutStall ==
  \A e \in Events : requeues[e] = 0 =>
    effects[e] = IF status[e] = "processed" THEN 1 ELSE 0

\* A job is given up as 'dead_letter' only after MaxAttempts claims.
DeadLetterExhausted ==
  \A e \in Events : status[e] = "dead_letter" => attempts[e] >= MaxAttempts

\* The retry budget: whatever stale worker reports, a job is claimed more than
\* MaxAttempts times only once per time it was taken back as stalled, because a
\* claim numbered MaxAttempts or more never ends in 'retry'.
AttemptsBudget ==
  \A e \in Events : attempts[e] <= MaxAttempts + requeues[e]

\* Both bounds of the retries: worker_fail_outbox_event gives up neither too
\* early nor too late, whoever reports.
RetriesWithinBudget == DeadLetterExhausted /\ AttemptsBudget

\* The outbox implements the contract of JobContract: the published job stays
\* open through claims, retries and stalls, is closed for good whatever late
\* worker still reports on it, and is 'processed' only along with its effects.
Phase == [e \in Events |-> IF status[e] \in {"pending", "processing"} THEN "open"
                                                                     ELSE status[e]]

Contract == INSTANCE JobContract WITH phase <- Phase

ImplementsContract == Contract!Spec

\* Every published job is eventually finished, if stalls and crashes stop.
EveryJobFinishes ==
  \A e \in Events : status[e] = "pending" ~> status[e] \in Terminal

\* What the comment on worker_complete_outbox_event says of a late call ("a
\* crashed worker's completion racing a stall-requeue -- is a safe no-op"): a
\* worker that reports on a claim that is no longer the row's leaves it alone.
LateCallIsNoOp ==
  [][\A w \in Workers :
       (pc[w] \in {"run", "fail"} /\ pc'[w] = "batch") =>
         LET e == cur[w]
         IN  claim[w][e] # attempts[e] => status'[e] = status[e]]_vars
=============================================================================
