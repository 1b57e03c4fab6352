------------------------- MODULE InvitationDelivery -------------------------
(***************************************************************************)
(* The delivery of one invitation's email by competing workers, against    *)
(* the API transactions that end the invitation.                           *)
(*                                                                         *)
(* Sending is a network call outside any transaction, so a lease on the    *)
(* delivery row stands between "the invitation is still pending" and "the  *)
(* request starts": the worker leases before it sends and gives up when    *)
(* its own deadline is too near; a terminal transition is refused while a  *)
(* lease is unexpired.  Both take the invitation's advisory lock.          *)
(*                                                                         *)
(* One invitation is enough: rows, lock, lease and job are per invitation. *)
(* The job row follows Outbox, of which only what the lease functions see  *)
(* is kept.  The worker's clock and the database's run at the same rate.   *)
(***************************************************************************)
EXTENDS Integers

CONSTANTS
  Workers,
  MaxAttempts,   \* DEFAULT_MAX_ATTEMPTS of the outbox worker
  Lease,         \* leaseSeconds: request timeout + margin
  Safety,        \* INVITATION_EMAIL_LEASE_SAFETY_MS
  MinWindow,     \* INVITATION_EMAIL_MIN_SEND_WINDOW_MS
  SendTimeout,   \* sendTimeoutMs
  TimerLag,      \* how late the request's timeout may fire
  Expiry,        \* membership_invitations.expires_at
  MaxTime,       \* bound on the clock
  MaxRequeues    \* bound on how often the job is taken back as stalled

ASSUME DeliveryAssumption ==
  /\ MaxAttempts \in Nat \ {0}
  /\ Lease \in Nat /\ Safety \in Nat /\ Safety <= Lease
  /\ MinWindow \in Nat \ {0} /\ SendTimeout \in Nat
  /\ TimerLag \in Nat /\ TimerLag < Safety
  /\ Expiry \in Nat /\ MaxTime \in Nat /\ MaxRequeues \in Nat

VARIABLES
  now,        \* the clock
  status,     \* membership_invitations.status
  ending,     \* the terminal status an open API transaction is about to commit
  job,        \* outbox_events.status: "pending", "processing" or "closed"
  attempts,   \* outbox_events.attempts
  requeues,   \* stalls so far
  lease,      \* deliveries.lease_id, 0 for NULL
  until,      \* deliveries.lease_expires_at
  sentAt,     \* deliveries.sent_at IS NOT NULL
  fresh,      \* the next lease id uuidV7 draws
  pc,         \* per worker: the step of processPhasedJob it is at
  seen,       \* per worker: event.attempts
  message,    \* per worker: the read found the invitation pending, unexpired
  mine,       \* per worker: leaseId
  startedAt,  \* per worker: startedAt
  endsAt,     \* per worker: when the timeout of its request is due
  prepared,   \* per worker: what prepare returned
  retryable,  \* per worker: classification of the failure in hand
  accepted,   \* the provider has accepted the email
  sentAudits, \* audit rows membership.invitation_email_sent
  skipAudits  \* audit rows ..._skipped, by their prior_attempt_unconfirmed

jobVars    == <<job, attempts, requeues>>
leaseVars  == <<lease, until, sentAt>>
inviteVars == <<status, ending>>
auditVars  == <<sentAudits, skipAudits>>
localVars  == <<seen, message, mine, startedAt, endsAt, prepared, retryable>>
vars == <<now, status, ending, job, attempts, requeues, lease, until, sentAt,
          fresh, pc, seen, message, mine, startedAt, endsAt, prepared, retryable,
          accepted, sentAudits, skipAudits>>

Ended    == {"accepted", "revoked", "expired"}
Prepared == {"none", "sent", "already_sent", "skipped", "skipped_unconfirmed"}
Steps    == {"idle", "get", "read", "acquire", "lock", "window", "sending",
             "release", "apply", "record", "fail"}

TypeOK ==
  /\ now \in Nat
  /\ status \in {"pending"} \cup Ended
  /\ ending \in {"none"} \cup Ended
  /\ job \in {"pending", "processing", "closed"}
  /\ attempts \in Nat /\ requeues \in Nat
  /\ lease \in Nat /\ until \in Nat /\ sentAt \in BOOLEAN
  /\ fresh \in Nat \ {0}
  /\ pc \in [Workers -> Steps]
  /\ seen \in [Workers -> Nat]
  /\ message \in [Workers -> BOOLEAN]
  /\ mine \in [Workers -> Nat]
  /\ startedAt \in [Workers -> Nat]
  /\ endsAt \in [Workers -> Nat]
  /\ prepared \in [Workers -> Prepared]
  /\ retryable \in [Workers -> BOOLEAN]
  /\ accepted \in BOOLEAN
  /\ sentAudits \in Nat
  /\ skipAudits \in SUBSET BOOLEAN

\* createInvitation committed: the row is pending, its job is published.
Init ==
  /\ now = 0
  /\ status = "pending" /\ ending = "none"
  /\ job = "pending" /\ attempts = 0 /\ requeues = 0
  /\ lease = 0 /\ until = 0 /\ sentAt = FALSE
  /\ fresh = 1
  /\ pc = [w \in Workers |-> "idle"]
  /\ seen = [w \in Workers |-> 0]
  /\ message = [w \in Workers |-> FALSE]
  /\ mine = [w \in Workers |-> 0]
  /\ startedAt = [w \in Workers |-> 0]
  /\ endsAt = [w \in Workers |-> 0]
  /\ prepared = [w \in Workers |-> "none"]
  /\ retryable = [w \in Workers |-> FALSE]
  /\ accepted = FALSE
  /\ sentAudits = 0
  /\ skipAudits = {}

(***************************************************************************)
(* The API: transactions that end the invitation.                          *)
(***************************************************************************)

LeaseActive == lease # 0 /\ until > now

\* The advisory lock of the delivery, held to the end of the API transaction.
Locked == ending # "none"

\* The UPDATE of acceptInvitation, revokeInvitation or of materialising an
\* expiry, up to the checks of its trigger.  With a lease active the trigger
\* raises mi_delivery_in_progress and nothing happens.
BeginEnd(s) ==
  /\ status = "pending" /\ ~Locked
  /\ ~LeaseActive
  /\ s = "expired" => Expiry <= now
  /\ s = "accepted" => Expiry > now
  /\ ending' = s
  /\ UNCHANGED <<now, status, jobVars, leaseVars, fresh, pc, localVars, accepted, auditVars>>

CommitEnd ==
  /\ Locked
  /\ status' = ending
  /\ ending' = "none"
  /\ UNCHANGED <<now, jobVars, leaseVars, fresh, pc, localVars, accepted, auditVars>>

\* The rest of the transaction fails (an existing membership, a disabled
\* user, a lost connection): ROLLBACK.
AbortEnd ==
  /\ Locked
  /\ ending' = "none"
  /\ UNCHANGED <<now, status, jobVars, leaseVars, fresh, pc, localVars, accepted, auditVars>>

(***************************************************************************)
(* The job row, see Outbox.                                                *)
(***************************************************************************)

\* processPhasedJob returns (or the process dies): its locals are gone.
Idle(w) ==
  /\ pc' = [pc EXCEPT ![w] = "idle"]
  /\ seen' = [seen EXCEPT ![w] = 0]
  /\ message' = [message EXCEPT ![w] = FALSE]
  /\ mine' = [mine EXCEPT ![w] = 0]
  /\ startedAt' = [startedAt EXCEPT ![w] = 0]
  /\ endsAt' = [endsAt EXCEPT ![w] = 0]
  /\ prepared' = [prepared EXCEPT ![w] = "none"]
  /\ retryable' = [retryable EXCEPT ![w] = FALSE]

Claim(w) ==
  /\ pc[w] = "idle" /\ job = "pending"
  /\ job' = "processing"
  /\ attempts' = attempts + 1
  /\ pc' = [pc EXCEPT ![w] = "get"]
  /\ UNCHANGED <<now, inviteVars, requeues, leaseVars, fresh, localVars, accepted, auditVars>>

Requeue ==
  /\ job = "processing" /\ requeues < MaxRequeues
  /\ job' = "pending"
  /\ requeues' = requeues + 1
  /\ UNCHANGED <<now, inviteVars, attempts, leaseVars, fresh, pc, localVars, accepted, auditVars>>

\* getClaimedEvent: a job no longer in 'processing' is already finished.
GetEvent(w) ==
  /\ pc[w] = "get"
  /\ IF job = "processing"
     THEN /\ seen' = [seen EXCEPT ![w] = attempts]
          /\ pc' = [pc EXCEPT ![w] = "read"]
          /\ UNCHANGED <<message, mine, startedAt, endsAt, prepared, retryable>>
     ELSE Idle(w)
  /\ UNCHANGED <<now, inviteVars, jobVars, leaseVars, fresh, accepted, auditVars>>

\* finishOutboxEvent after a failure.
RecordFailure(w) ==
  /\ pc[w] = "fail"
  /\ job' = IF job # "processing" THEN job
            ELSE IF retryable[w] /\ seen[w] < MaxAttempts THEN "pending" ELSE "closed"
  /\ Idle(w)
  /\ UNCHANGED <<now, inviteVars, attempts, requeues, leaseVars, fresh, accepted, auditVars>>

(***************************************************************************)
(* prepare: read, lease, send.                                             *)
(***************************************************************************)

\* prepare throws at a point where it holds no lease it should give back.
Fail(w, transient) ==
  /\ pc' = [pc EXCEPT ![w] = "fail"]
  /\ retryable' = [retryable EXCEPT ![w] = transient]

\* The short read transaction; then leaseId and startedAt.
ReadInvitation(w) ==
  /\ pc[w] = "read"
  /\ message' = [message EXCEPT ![w] = status = "pending" /\ now < Expiry]
  /\ mine' = [mine EXCEPT ![w] = fresh]
  /\ fresh' = fresh + 1
  /\ startedAt' = [startedAt EXCEPT ![w] = now]
  /\ pc' = [pc EXCEPT ![w] = "acquire"]
  /\ UNCHANGED <<now, inviteVars, jobVars, leaseVars, seen, endsAt, prepared, retryable,
                 accepted, auditVars>>

\* worker_acquire_invitation_email_lease, before it waits for the lock.
AcquireCheckJob(w) ==
  /\ pc[w] = "acquire"
  /\ IF job = "processing"
     THEN pc' = [pc EXCEPT ![w] = "lock"] /\ UNCHANGED retryable
     ELSE Fail(w, TRUE)                                          \* not_claimed
  /\ UNCHANGED <<now, inviteVars, jobVars, leaseVars, fresh, seen, message, mine,
                 startedAt, endsAt, prepared, accepted, auditVars>>

\* Mutants: the lease's length forgotten, and the comparison off by one.
TooLateAtExpiry   == Expiry <= now
TooLateAfterwards == Expiry < now

\* Its outcomes, under the lock.
TooLate == Expiry <= now + Lease

\* Mutant: a lease in force is taken for an attempt that ended unconfirmed.
AcquireResolvedWhileLeased(w) ==
  /\ pc[w] = "lock" /\ ~Locked
  /\ sentAt \/ status # "pending" \/ LeaseActive \/ TooLate
  /\ prepared' = [prepared EXCEPT ![w] =
                    IF sentAt THEN "already_sent"
                    ELSE IF lease # 0 THEN "skipped_unconfirmed" ELSE "skipped"]
  /\ pc' = [pc EXCEPT ![w] = "apply"]
  /\ UNCHANGED <<now, inviteVars, jobVars, leaseVars, fresh, seen, message, mine,
                 startedAt, endsAt, retryable, accepted, auditVars>>

AcquireResolved(w) ==
  /\ pc[w] = "lock" /\ ~Locked
  /\ sentAt \/ status # "pending" \/ (~LeaseActive /\ TooLate)
  /\ prepared' = [prepared EXCEPT ![w] =
                    IF sentAt THEN "already_sent"
                    ELSE IF lease # 0 THEN "skipped_unconfirmed" ELSE "skipped"]
  /\ pc' = [pc EXCEPT ![w] = "apply"]
  /\ UNCHANGED <<now, inviteVars, jobVars, leaseVars, fresh, seen, message, mine,
                 startedAt, endsAt, retryable, accepted, auditVars>>

AcquireBusy(w) ==
  /\ pc[w] = "lock" /\ ~Locked
  /\ ~sentAt /\ status = "pending" /\ LeaseActive
  /\ Fail(w, TRUE)
  /\ UNCHANGED <<now, inviteVars, jobVars, leaseVars, fresh, seen, message, mine,
                 startedAt, endsAt, prepared, accepted, auditVars>>

\* Mutant: the lease is taken over from whoever still has it.
AcquireLeaseAnyway(w) ==
  /\ pc[w] = "lock" /\ ~Locked
  /\ ~sentAt /\ status = "pending" /\ ~TooLate
  /\ lease' = mine[w]
  /\ until' = now + Lease
  /\ pc' = [pc EXCEPT ![w] = "window"]
  /\ UNCHANGED <<now, inviteVars, jobVars, sentAt, fresh, localVars, accepted, auditVars>>

AcquireLease(w) ==
  /\ pc[w] = "lock" /\ ~Locked
  /\ ~sentAt /\ status = "pending" /\ ~LeaseActive /\ ~TooLate
  /\ lease' = mine[w]
  /\ until' = now + Lease
  /\ pc' = [pc EXCEPT ![w] = "window"]
  /\ UNCHANGED <<now, inviteVars, jobVars, sentAt, fresh, localVars, accepted, auditVars>>

\* Mutant: the request may last as long as the lease.
DeadlineAtLeaseEnd(w) == startedAt[w] + Lease

\* The local deadline; a request must fit before it.
Deadline(w) == startedAt[w] + Lease - Safety
Fits(w)     == message[w] /\ now + MinWindow <= Deadline(w)

StartRequest(w) ==
  /\ pc[w] = "window" /\ Fits(w)
  /\ endsAt' = [endsAt EXCEPT ![w] = IF now + SendTimeout < Deadline(w)
                                     THEN now + SendTimeout ELSE Deadline(w)]
  /\ pc' = [pc EXCEPT ![w] = "sending"]
  /\ UNCHANGED <<now, inviteVars, jobVars, leaseVars, fresh, seen, message, mine,
                 startedAt, prepared, retryable, accepted, auditVars>>

GiveUpWindow(w) ==
  /\ pc[w] = "window" /\ ~Fits(w)
  /\ pc' = [pc EXCEPT ![w] = "release"]
  /\ retryable' = [retryable EXCEPT ![w] = TRUE]
  /\ UNCHANGED <<now, inviteVars, jobVars, leaseVars, fresh, seen, message, mine,
                 startedAt, endsAt, prepared, accepted, auditVars>>

\* The provider accepts and its answer arrives.
RequestAccepted(w) ==
  /\ pc[w] = "sending"
  /\ accepted' = TRUE
  /\ prepared' = [prepared EXCEPT ![w] = "sent"]
  /\ pc' = [pc EXCEPT ![w] = "apply"]
  /\ UNCHANGED <<now, inviteVars, jobVars, leaseVars, fresh, seen, message, mine,
                 startedAt, endsAt, retryable, auditVars>>

\* A definitive refusal (isProviderRejection): nothing is in flight.
RequestRejected(w) ==
  /\ pc[w] = "sending"
  /\ \E r \in BOOLEAN : retryable' = [retryable EXCEPT ![w] = r]
  /\ pc' = [pc EXCEPT ![w] = "release"]
  /\ UNCHANGED <<now, inviteVars, jobVars, leaseVars, fresh, seen, message, mine,
                 startedAt, endsAt, prepared, accepted, auditVars>>

\* Timeout, connection error, 5xx: the provider may have accepted.
RequestAmbiguous(w) ==
  /\ pc[w] = "sending"
  /\ accepted' \in {accepted, TRUE}
  /\ Fail(w, TRUE)
  /\ UNCHANGED <<now, inviteVars, jobVars, leaseVars, fresh, seen, message, mine,
                 startedAt, endsAt, prepared, auditVars>>

\* worker_release_invitation_email_lease, best effort: the call may fail.
Release(w) ==
  /\ pc[w] = "release"
  /\ \/ /\ job = "processing" /\ lease = mine[w] /\ ~sentAt
        /\ lease' = 0 /\ until' = 0
     \/ UNCHANGED <<lease, until>>
  /\ pc' = [pc EXCEPT ![w] = "fail"]
  /\ UNCHANGED <<now, inviteVars, jobVars, sentAt, fresh, localVars, accepted, auditVars>>

(***************************************************************************)
(* apply and 'processed', one transaction.                                 *)
(***************************************************************************)

CloseJob == job' = IF job = "processing" THEN "closed" ELSE job

\* Nothing to record but the skip audit.
ApplySkip(w) ==
  /\ pc[w] = "apply" /\ prepared[w] # "sent"
  /\ skipAudits' = IF prepared[w] = "already_sent" THEN skipAudits
                   ELSE skipAudits \cup {prepared[w] = "skipped_unconfirmed"}
  /\ CloseJob
  /\ Idle(w)
  /\ UNCHANGED <<now, inviteVars, attempts, requeues, leaseVars, fresh, accepted, sentAudits>>

\* worker_complete_invitation_email_delivery, before it waits for the lock.
CompleteCheckJob(w) ==
  /\ pc[w] = "apply" /\ prepared[w] = "sent"
  /\ IF job = "processing"
     THEN pc' = [pc EXCEPT ![w] = "record"] /\ UNCHANGED retryable
     ELSE Fail(w, TRUE)
  /\ UNCHANGED <<now, inviteVars, jobVars, leaseVars, fresh, seen, message, mine,
                 startedAt, endsAt, prepared, accepted, auditVars>>

\* Mutant: a completion found already recorded is audited again.
RecordSentAgain(w) ==
  /\ pc[w] = "record" /\ ~Locked
  /\ sentAt' = TRUE
  /\ IF lease = mine[w] THEN lease' = 0 /\ until' = 0 ELSE UNCHANGED <<lease, until>>
  /\ sentAudits' = sentAudits + 1
  /\ CloseJob
  /\ Idle(w)
  /\ UNCHANGED <<now, inviteVars, attempts, requeues, fresh, accepted, skipAudits>>

\* Under the lock: record the acceptance once and give back the own lease.
RecordSent(w) ==
  /\ pc[w] = "record" /\ ~Locked
  /\ sentAt' = TRUE
  /\ IF lease = mine[w] THEN lease' = 0 /\ until' = 0 ELSE UNCHANGED <<lease, until>>
  /\ sentAudits' = IF sentAt THEN sentAudits ELSE sentAudits + 1
  /\ CloseJob
  /\ Idle(w)
  /\ UNCHANGED <<now, inviteVars, attempts, requeues, fresh, accepted, skipAudits>>

\* The worker process dies.  A request of its own may have been accepted.
Crash(w) ==
  /\ pc[w] # "idle"
  /\ IF pc[w] = "sending" THEN accepted' \in {accepted, TRUE} ELSE UNCHANGED accepted
  /\ Idle(w)
  /\ UNCHANGED <<now, inviteVars, jobVars, leaseVars, fresh, auditVars>>

\* A request ends at the latest TimerLag after its timeout is due.
Tick ==
  /\ now < MaxTime
  /\ \A w \in Workers : pc[w] = "sending" => now < endsAt[w] + TimerLag
  /\ now' = now + 1
  /\ UNCHANGED <<inviteVars, jobVars, leaseVars, fresh, pc, localVars, accepted, auditVars>>

Next ==
  \/ \E s \in Ended : BeginEnd(s)
  \/ CommitEnd \/ AbortEnd
  \/ \E w \in Workers :
       \/ Claim(w) \/ GetEvent(w) \/ ReadInvitation(w)
       \/ AcquireCheckJob(w) \/ AcquireResolved(w) \/ AcquireBusy(w) \/ AcquireLease(w)
       \/ StartRequest(w) \/ GiveUpWindow(w)
       \/ RequestAccepted(w) \/ RequestRejected(w) \/ RequestAmbiguous(w)
       \/ Release(w) \/ ApplySkip(w) \/ CompleteCheckJob(w) \/ RecordSent(w)
       \/ RecordFailure(w) \/ Crash(w)
  \/ Requeue
  \/ Tick

Spec == Init /\ [][Next]_vars

(***************************************************************************)
(* Properties.                                                             *)
(***************************************************************************)

\* While a provider request is in flight the invitation is pending, no API
\* transaction is about to end it, and the lease it was sent under is the
\* current one and unexpired; so at most one request is in flight, and none
\* starts once a terminal transition has committed.
RequestsOnlyWhilePending ==
  \A w \in Workers : pc[w] = "sending" =>
    status = "pending" /\ ~Locked /\ lease = mine[w] /\ until > now

\* A lease ends before the invitation does, so a lease never keeps an expiry
\* from being recorded.
LeaseWithinValidity == lease # 0 => until < Expiry

\* The branch of prepare commented "Terminal/expired on the read but leased
\* now: impossible" is indeed never taken.
LeasedHasMessage == \A w \in Workers : pc[w] = "window" => message[w]

\* Whatever changed between the read of the message and the acquisition of the
\* lease, a lease is for a message at hand and within the invitation's validity.
LeasesAreSound == LeaseWithinValidity /\ LeasedHasMessage

\* The delivery as those who end the invitation and who read the audit see it
\* (DeliveryContract): one request in flight at a time, over before the
\* invitation or its validity is; one record, audited once, of a real acceptance,
\* however many attempts report it; written off only if the invitation has ended
\* or a lease no longer fits.
Validity == IF Expiry <= now THEN "over"
            ELSE IF Expiry <= now + Lease THEN "closing" ELSE "open"
Sending  == \E w \in Workers : pc[w] = "sending"

Delivery == INSTANCE DeliveryContract
              WITH validity <- Validity, sending <- Sending, recorded <- sentAt,
                   audits <- sentAudits, skipped <- skipAudits

ImplementsDelivery == Delivery!Spec

\* What the comment on worker_acquire_invitation_email_lease says of
\* prior_attempt_unconfirmed ("an earlier lease ended without a recorded provider
\* result"): a delivery audited as skipped without it was not accepted.
PlainSkipMeansNotSent == FALSE \in skipAudits => ~accepted
=============================================================================
