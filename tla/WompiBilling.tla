---------------------------- MODULE WompiBilling ----------------------------
(***************************************************************************)
(* Charging the payments of one subscription through Wompi.                *)
(*                                                                         *)
(* A payment is charged by an outbox job that POSTs a transaction; what    *)
(* becomes of the transaction arrives in the answer and in webhooks, each  *)
(* of which becomes an outbox job of its own.  Jobs are as JobContract has *)
(* them: run by any worker, closed once, and with late runs that commit    *)
(* all the same.  The handler runs inside the transaction of its job, so   *)
(* the network calls of a charge are made with that transaction open.      *)
(*                                                                         *)
(* A payment has one reference and Wompi refuses a second transaction for  *)
(* a reference, so a transaction is named by its payment.  A webhook about *)
(* a reference or an environment that is not ours resolves no payment and  *)
(* is only stored: Notices are those that do resolve one.                  *)
(***************************************************************************)
EXTENDS Naturals

CONSTANTS
  Payments,
  Workers,
  NoJob,         \* "no job in hand"
  Outcomes,      \* the final statuses Wompi may give
  Initially,     \* what the status of the subscription may be at first
  Copies,        \* the bodies with which Wompi may report one status
  MaxAttempts,   \* DEFAULT_MAX_ATTEMPTS of the outbox
  MaxFaults      \* bound: failed attempts, crashes and jobs taken back as stalled

Final    == {"approved", "declined", "error", "voided"}
Statuses == {"pending"} \cup Final

Charge(p) == [payment |-> p, status |-> "charge", copy |-> 0]
Charges   == {Charge(p) : p \in Payments}
Notices   == [payment : Payments, status : Statuses, copy : Copies]
Jobs      == Charges \cup Notices

Subscription == {"trialing", "active", "past_due", "suspended", "cancelled"}

ASSUME BillingAssumption ==
  /\ Outcomes \subseteq Final
  /\ Initially \subseteq Subscription
  /\ Copies \subseteq Nat
  /\ NoJob \notin Jobs
  /\ MaxAttempts \in Nat \ {0}
  /\ MaxFaults \in Nat

VARIABLES
  ledger,    \* at Wompi: the status of the payment's transaction, or "none"
  told,      \* at Wompi: the statuses it has had, each reported by webhook
  posted,    \* requests to create a transaction that nobody waits for any more
  status,    \* payments.status
  known,     \* payments.provider_transaction_id is not NULL
  paid,      \* payments.paid_at is not NULL
  recorded,  \* billing_events, per payment: the statuses taken account of
  sub,       \* subscriptions.status
  undone,    \* history: payments whose final status the answer of a charge replaced
  job,       \* the outbox jobs: "none", "open" or how the job was closed
  attempts,  \* outbox_events.attempts
  pc,        \* per worker: the step it is at
  cur,       \* per worker: the job it runs
  seen,      \* per worker: the attempt number of its run
  answer,    \* per worker: the status Wompi answered
  faults     \* history: faults so far, see MaxFaults

provider == <<ledger, told, posted>>
billing  == <<status, known, paid, recorded, sub, undone>>
outbox   == <<job, attempts>>
locals   == <<pc, cur, seen, answer>>
vars == <<ledger, told, posted, status, known, paid, recorded, sub, undone, job, attempts, pc, cur,
          seen, answer, faults>>

Steps == {"idle", "find", "post", "get", "record", "apply", "settle"}

TypeOK ==
  /\ ledger \in [Payments -> {"none"} \cup Statuses]
  /\ told \in [Payments -> SUBSET Statuses]
  /\ posted \in SUBSET Payments
  /\ status \in [Payments -> Statuses]
  /\ known \in [Payments -> BOOLEAN]
  /\ paid \in [Payments -> BOOLEAN]
  /\ recorded \in [Payments -> SUBSET Statuses]
  /\ sub \in Subscription
  /\ undone \in SUBSET Payments
  /\ job \in [Jobs -> {"none", "open", "processed", "failed", "dead_letter"}]
  /\ attempts \in [Jobs -> Nat]
  /\ pc \in [Workers -> Steps]
  /\ cur \in [Workers -> Jobs \cup {NoJob}]
  /\ seen \in [Workers -> Nat]
  /\ answer \in [Workers -> Statuses]
  /\ faults \in Nat

\* The payments and their charge jobs, as published; nothing is charged yet.
Init ==
  /\ ledger = [p \in Payments |-> "none"]
  /\ told = [p \in Payments |-> {}]
  /\ posted = {}
  /\ status = [p \in Payments |-> "pending"]
  /\ known = [p \in Payments |-> FALSE]
  /\ paid = [p \in Payments |-> FALSE]
  /\ recorded = [p \in Payments |-> {}]
  /\ sub \in Initially
  /\ undone = {}
  /\ job = [j \in Jobs |-> IF j.status = "charge" THEN "open" ELSE "none"]
  /\ attempts = [j \in Jobs |-> 0]
  /\ pc = [w \in Workers |-> "idle"]
  /\ cur = [w \in Workers |-> NoJob]
  /\ seen = [w \in Workers |-> 0]
  /\ answer = [w \in Workers |-> "pending"]
  /\ faults = 0

(***************************************************************************)
(* Wompi.                                                                  *)
(***************************************************************************)

\* The transaction takes status s, and a webhook about it becomes due.
Becomes(p, s) ==
  /\ ledger' = [ledger EXCEPT ![p] = s]
  /\ told' = [told EXCEPT ![p] = @ \cup {s}]

\* A new transaction may be decided at once.
Create(p, s) ==
  /\ ledger[p] = "none"
  /\ s \in {"pending"} \cup (Outcomes \ {"voided"})
  /\ Becomes(p, s)

\* A pending transaction is decided, an approved one voided.
Decide(p, s) ==
  /\ s \in Outcomes
  /\ ledger[p] = IF s = "voided" THEN "approved" ELSE "pending"
  /\ Becomes(p, s)
  /\ UNCHANGED <<posted, billing, outbox, locals, faults>>

\* A request whose answer nobody waits for is carried out, or refused.
TakeLate(p) ==
  /\ p \in posted
  /\ posted' = posted \ {p}
  /\ \/ \E s \in Statuses : Create(p, s)
     \/ UNCHANGED <<ledger, told>>
  /\ UNCHANGED <<billing, outbox, locals, faults>>

\* Mutant: the payment is resolved by the transaction's id alone.
IngestByTransaction(n) ==
  /\ n.status \in told[n.payment] /\ known[n.payment]
  /\ job[n] = "none"
  /\ job' = [job EXCEPT ![n] = "open"]
  /\ UNCHANGED <<provider, billing, attempts, locals, faults>>

\* ingest_verified_wompi_webhook: a body not seen before is stored and published
\* as a job in one transaction; one seen before changes nothing.
Ingest(n) ==
  /\ n.status \in told[n.payment]
  /\ job[n] = "none"
  /\ job' = [job EXCEPT ![n] = "open"]
  /\ UNCHANGED <<provider, billing, attempts, locals, faults>>

(***************************************************************************)
(* Outbox runs.                                                            *)
(***************************************************************************)

Goto(w, step) == pc' = [pc EXCEPT ![w] = step]

Fault == faults < MaxFaults /\ faults' = faults + 1

\* The run of w is over.
Leave(w) ==
  /\ Goto(w, "idle")
  /\ cur' = [cur EXCEPT ![w] = NoJob]
  /\ seen' = [seen EXCEPT ![w] = 0]
  /\ answer' = [answer EXCEPT ![w] = "pending"]

\* The outcome of a run is noted on a job that is still open.
Close(j, outcome) == job' = [job EXCEPT ![j] = IF @ = "open" THEN outcome ELSE @]

\* COMMIT of the handler's writes and of 'processed'.  The job stays open when
\* it was taken back as stalled meanwhile.
Commit(w) ==
  /\ \/ Close(cur[w], "processed") /\ UNCHANGED faults
     \/ UNCHANGED job /\ Fault
  /\ Leave(w)
  /\ UNCHANGED <<provider, attempts>>

\* ROLLBACK, and the transition of a failed attempt.
Abort(w, retryable) ==
  /\ Close(cur[w], IF ~retryable THEN "failed"
                   ELSE IF seen[w] < MaxAttempts THEN "open" ELSE "dead_letter")
  /\ Leave(w)
  /\ UNCHANGED <<provider, billing, attempts>>

\* A run begins; beside another run of the job only after a stall.
Begin(w, j) ==
  /\ pc[w] = "idle" /\ job[j] = "open"
  /\ IF \E v \in Workers : cur[v] = j THEN Fault ELSE UNCHANGED faults
  /\ attempts' = [attempts EXCEPT ![j] = @ + 1]
  /\ seen' = [seen EXCEPT ![w] = attempts[j] + 1]
  /\ cur' = [cur EXCEPT ![w] = j]
  /\ Goto(w, IF j.status = "charge" THEN "find" ELSE "apply")
  /\ UNCHANGED <<provider, billing, job, answer>>

\* The database fails, or Wompi does for as long as the adapter retries.
Fails(w) == pc[w] # "idle" /\ Fault /\ Abort(w, TRUE)

Crash(w) ==
  /\ pc[w] # "idle" /\ Fault
  /\ Leave(w)
  /\ UNCHANGED <<provider, billing, outbox>>

(***************************************************************************)
(* handleSubscriptionChargeRequested.                                      *)
(***************************************************************************)

\* findProviderTransactionId: an unlocked read.
Find(w) ==
  /\ pc[w] = "find"
  /\ Goto(w, IF known[cur[w].payment] THEN "get" ELSE "post")
  /\ UNCHANGED <<provider, billing, outbox, cur, seen, answer, faults>>

Answer(w, s) ==
  /\ answer' = [answer EXCEPT ![w] = s]
  /\ Goto(w, "record")
  /\ UNCHANGED <<billing, outbox, cur, seen, faults>>

\* createTransaction is carried out and answered.
PostAnswered(w) ==
  /\ pc[w] = "post"
  /\ \E s \in Statuses : Create(cur[w].payment, s) /\ Answer(w, s)
  /\ UNCHANGED posted

\* It times out or its connection breaks: the adapter sends another.
PostUnanswered(w) ==
  /\ pc[w] = "post"
  /\ posted' = posted \cup {cur[w].payment}
  /\ UNCHANGED <<ledger, told, billing, outbox, locals, faults>>

\* getTransaction.
GetAnswered(w) ==
  /\ pc[w] = "get"
  /\ Answer(w, ledger[cur[w].payment])
  /\ UNCHANGED provider

\* A client error, 422 for a reference already used included, or an answer
\* that does not parse or correlate: for good.
Refused(w) ==
  /\ pc[w] \in {"post", "get"}
  /\ Abort(w, FALSE)
  /\ UNCHANGED faults

\* The payment's row is locked by a run of apply_wompi_payment_status.
RowLocked(p) == \E v \in Workers : pc[v] = "settle" /\ cur[v].payment = p

\* A final status of p that the answer s takes away is remembered.
Undoes(p, s) == undone' = IF status[p] \in Final \ {s} THEN undone \cup {p} ELSE undone

\* Mutant: paid_at is set from the answer alone.
RecordPaidAnew(w) ==
  LET p == cur[w].payment
  IN  /\ pc[w] = "record" /\ ~RowLocked(p)
      /\ status' = [status EXCEPT ![p] = answer[w]]
      /\ known' = [known EXCEPT ![p] = TRUE]
      /\ paid' = [paid EXCEPT ![p] = (answer[w] = "approved")]
      /\ Undoes(p, answer[w])
      /\ UNCHANGED <<recorded, sub>>
      /\ Commit(w)

\* recordProviderTransaction and COMMIT.
Record(w) ==
  LET p == cur[w].payment
  IN  /\ pc[w] = "record" /\ ~RowLocked(p)
      /\ status' = [status EXCEPT ![p] = answer[w]]
      /\ known' = [known EXCEPT ![p] = TRUE]
      /\ paid' = [paid EXCEPT ![p] = @ \/ answer[w] = "approved"]
      /\ Undoes(p, answer[w])
      /\ UNCHANGED <<recorded, sub>>
      /\ Commit(w)

(***************************************************************************)
(* processWompiWebhookOutbox.                                              *)
(***************************************************************************)

\* apply_wompi_payment_status of an event that billing_events already has.
ApplyDuplicate(w) ==
  /\ pc[w] = "apply" /\ ~RowLocked(cur[w].payment)
  /\ cur[w].status \in recorded[cur[w].payment]
  /\ UNCHANGED billing
  /\ Commit(w)

\* Otherwise the payment is locked FOR UPDATE and the event inserted, which
\* locks the subscription FOR KEY SHARE (foreign key) ...
ApplyNew(w) ==
  /\ pc[w] = "apply" /\ ~RowLocked(cur[w].payment)
  /\ cur[w].status \notin recorded[cur[w].payment]
  /\ Goto(w, "settle")
  /\ UNCHANGED <<provider, billing, outbox, cur, seen, answer, faults>>

\* Mutant: the payment is looked at before the event is.
RecordedUnlessLate(p, s) ==
  IF s = "pending" /\ status[p] \in Final THEN recorded
  ELSE [recorded EXCEPT ![p] = @ \cup {s}]

NowRecorded(p, s) == [recorded EXCEPT ![p] = @ \cup {s}]

\* Mutant: an approval brings a cancelled subscription back.
SubscriptionRevived(s) ==
  IF s = "approved" THEN "active" ELSE IF s = "declined" /\ sub = "active" THEN "past_due" ELSE sub
\* What an event with status s makes of the subscription.
SubscriptionAfter(s) ==
  IF s = "approved" /\ sub \in {"trialing", "past_due", "suspended"} THEN "active"
  ELSE IF s = "declined" /\ sub = "active" THEN "past_due" ELSE sub

\* Mutant: every event writes the payment.
NeverTooLate(p, s) == FALSE

\* PENDING is not written over a final status.
TooLate(p, s) == s = "pending" /\ status[p] \in Final

\* ... which SELECT ... FOR UPDATE then waits to be alone with; the rest of
\* apply_wompi_payment_status, and COMMIT.
Settle(w) ==
  LET p == cur[w].payment
      s == cur[w].status
      late == TooLate(p, s)
  IN  /\ pc[w] = "settle"
      /\ \A v \in Workers \ {w} : pc[v] # "settle"
      /\ recorded' = NowRecorded(p, s)
      /\ status' = IF late THEN status ELSE [status EXCEPT ![p] = s]
      /\ known' = IF late THEN known ELSE [known EXCEPT ![p] = TRUE]
      /\ paid' = IF s = "approved" THEN [paid EXCEPT ![p] = TRUE] ELSE paid
      /\ sub' = SubscriptionAfter(s)
      /\ UNCHANGED undone
      /\ Commit(w)

\* Two runs that hold the subscription FOR KEY SHARE wait for each other:
\* PostgreSQL aborts one of them.
DeadlockVictim(w) ==
  /\ pc[w] = "settle"
  /\ \E v \in Workers \ {w} : pc[v] = "settle"
  /\ Abort(w, TRUE)
  /\ UNCHANGED faults

(***************************************************************************)
(* The whole.                                                              *)
(***************************************************************************)

\* What a worker does when nothing fails.
Work(w) ==
  \/ \E j \in Jobs : Begin(w, j)
  \/ Find(w) \/ PostAnswered(w) \/ GetAnswered(w) \/ Refused(w) \/ Record(w)
  \/ ApplyDuplicate(w) \/ ApplyNew(w) \/ Settle(w) \/ DeadlockVictim(w)

Next ==
  \/ \E p \in Payments, s \in Statuses : Decide(p, s)
  \/ \E p \in Payments : TakeLate(p)
  \/ \E n \in Notices : Ingest(n)
  \/ \E w \in Workers : Work(w) \/ PostUnanswered(w) \/ Fails(w) \/ Crash(w)

Spec == Init /\ [][Next]_vars

(***************************************************************************)
(* Properties.                                                             *)
(***************************************************************************)

\* The subscription changes only when an outcome that Wompi gave one of its
\* payments is taken account of for the first time, and only towards what the
\* outcome is worth: a repeated webhook, a second body for the same status, a
\* retried or a late run have no second effect, whatever happened in between,
\* and a cancelled subscription stays cancelled.
OneEffectPerOutcome ==
  [][sub' # sub =>
       \E p \in Payments :
         \/ /\ "approved" \in (recorded'[p] \cap told[p]) \ recorded[p]
            /\ sub # "cancelled" /\ sub' = "active"
         \/ /\ "declined" \in (recorded'[p] \cap told[p]) \ recorded[p]
            /\ sub = "active" /\ sub' = "past_due"]_vars

\* A webhook that was acknowledged is not lost: its job is closed as processed
\* only with its event in billing_events, and what the charge job got to know
\* is in the payment when it is closed as processed.
NothingLost ==
  \A j \in Jobs : job[j] = "processed" =>
    IF j.status = "charge" THEN known[j.payment] ELSE j.status \in recorded[j.payment]

\* paid_at tells whether the money was ever taken, whatever order the charge's
\* answer and the webhooks come in: it is set once an approval is known, is not
\* undone by what comes later, and is never set without an approval at Wompi.
PaidIsApproved ==
  \A p \in Payments :
    /\ status[p] = "approved" \/ "approved" \in recorded[p] => paid[p]
    /\ paid[p] => known[p] /\ "approved" \in told[p]

\* What Wompi said and was acknowledged is in the database, and in paid_at
\* whether it took the money.
KnownIsKept == NothingLost /\ PaidIsApproved

\* Whatever order the events of a payment are applied in, with bodies repeated,
\* jobs retried and two workers at it: once its final status is recorded or it is
\* paid, its status is a final one that Wompi gave, and the one at Wompi unless
\* that was approved and voided.  Only the answer of a charge can undo it.
FinalStatusStays ==
  \A p \in Payments \ undone :
    paid[p] \/ recorded[p] \cap Final # {} =>
      /\ status[p] \in told[p] \cap Final
      /\ "voided" \notin told[p] => status[p] = ledger[p]

\* "Estado local sincronizado" (Quality Gates, Sprint 12): when every webhook is
\* taken account of and no job of the payment is open or running, its status
\* is the one of its transaction.
SyncedWhenQuiet ==
  \A p \in Payments :
    /\ told[p] # {} /\ told[p] \subseteq recorded[p]
    /\ \A j \in Jobs : j.payment = p => job[j] # "open" /\ \A w \in Workers : cur[w] # j
    => status[p] = ledger[p]
=============================================================================
