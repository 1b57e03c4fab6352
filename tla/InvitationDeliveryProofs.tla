---------------------- MODULE InvitationDeliveryProofs ----------------------
(***************************************************************************)
(* Theorems about InvitationDelivery, for every number of workers and      *)
(* every length of the lease, the safety margin and the timeouts.          *)
(*                                                                         *)
(* Why a request is covered.  A worker that holds the answer "acquired"    *)
(* either still owns the lease, which runs at least to startedAt + Lease   *)
(* because startedAt was read before the call, or that moment has passed,  *)
(* since a lease is only replaced when it has expired.  A request ends by  *)
(* startedAt + Lease - Safety + TimerLag, which is earlier.  And while a   *)
(* lease is active no transaction ending the invitation gets past its      *)
(* check, because check and lease are serialised by the advisory lock.     *)
(***************************************************************************)
EXTENDS InvitationDelivery, TLAPS

\* The lease, the lock and the invitation.
LeaseInv ==
  /\ Locked => status = "pending"
  /\ Locked \/ status # "pending" => ~LeaseActive
  /\ LeaseWithinValidity
  /\ lease < fresh

\* Lease ids are drawn once.
FreshInv ==
  /\ \A w \in Workers : mine[w] < fresh
  /\ \A v, w \in Workers : mine[v] = mine[w] /\ mine[v] # 0 => v = w
  /\ \A w \in Workers : pc[w] \in {"acquire", "lock", "window", "sending"} =>
       mine[w] # 0 /\ startedAt[w] <= now

\* A worker told "acquired" owns the lease, or the time it counts on is over.
Covered(w) ==
  \/ lease = mine[w] /\ until >= startedAt[w] + Lease
  \/ now >= startedAt[w] + Lease

CoverInv ==
  \A w \in Workers :
    /\ pc[w] \in {"window", "sending"} => Covered(w)
    /\ pc[w] = "sending" => endsAt[w] <= Deadline(w) /\ now <= endsAt[w] + TimerLag

\* A read that found the invitation ended or expired stays true.
MessageInv ==
  /\ \A w \in Workers : pc[w] \in {"acquire", "lock"} /\ ~message[w] =>
       status # "pending" \/ Expiry <= now
  /\ LeasedHasMessage

\* The provider's acceptance is recorded and audited once however many attempts
\* report it, and only if the provider did accept.
SentRecordedOnce ==
  /\ sentAudits = IF sentAt THEN 1 ELSE 0
  /\ sentAt => accepted

\* Whoever reports the provider's acceptance has seen it.
SentInv ==
  /\ SentRecordedOnce
  /\ \A w \in Workers : prepared[w] = "sent" => accepted
  /\ \A w \in Workers : pc[w] = "record" => prepared[w] = "sent"

IInv == TypeOK /\ LeaseInv /\ FreshInv /\ CoverInv /\ MessageInv /\ SentInv

-----------------------------------------------------------------------------

\* Every initial state satisfies the invariant.
LEMMA InitIInv == Init => IInv
<1> SUFFICES ASSUME Init PROVE IInv
  OBVIOUS
<1>1. TypeOK
  <2>1. /\ now = 0 /\ status = "pending" /\ ending = "none" /\ job = "pending"
        /\ attempts = 0 /\ requeues = 0 /\ lease = 0 /\ until = 0 /\ sentAt = FALSE
        /\ fresh = 1 /\ accepted = FALSE /\ sentAudits = 0 /\ skipAudits = {}
    BY DEF Init
  <2>2. /\ pc \in [Workers -> Steps] /\ seen \in [Workers -> Nat]
        /\ mine \in [Workers -> Nat] /\ startedAt \in [Workers -> Nat]
        /\ endsAt \in [Workers -> Nat]
    BY DEF Init, Steps
  <2>3. prepared \in [Workers -> Prepared]
    BY DEF Init, Prepared
  <2>4. message \in [Workers -> BOOLEAN] /\ retryable \in [Workers -> BOOLEAN]
    BY DEF Init
  <2>5. sentAt \in BOOLEAN /\ accepted \in BOOLEAN
    BY <2>1
  <2>6. skipAudits \in SUBSET BOOLEAN
    BY <2>1
  <2>7. status \in {"pending"} \cup Ended /\ ending \in {"none"} \cup Ended
    BY <2>1
  <2> QED
    BY <2>1, <2>2, <2>3, <2>4, <2>5, <2>6, <2>7 DEF TypeOK
<1>2. LeaseInv
  BY DEF Init, LeaseInv, Locked, LeaseActive, LeaseWithinValidity
<1>3. FreshInv
  BY DEF Init, FreshInv
<1>4. CoverInv
  BY DEF Init, CoverInv
<1>5. MessageInv
  BY DEF Init, MessageInv, LeasedHasMessage
<1>6. SentInv
  BY DEF Init, SentInv, SentRecordedOnce
<1> QED
  BY <1>1, <1>2, <1>3, <1>4, <1>5, <1>6 DEF IInv

\* Every step keeps the types.
LEMMA NextTypeOK ==
  ASSUME TypeOK, [Next]_vars PROVE TypeOK'
<1>1. ASSUME NEW s \in Ended, BeginEnd(s) PROVE TypeOK'
  BY <1>1, DeliveryAssumption
  DEF TypeOK, Steps, Prepared, BeginEnd, jobVars, leaseVars, localVars, auditVars
<1>2. ASSUME CommitEnd PROVE TypeOK'
  BY <1>2
  DEF TypeOK, CommitEnd, Locked, Ended, jobVars, leaseVars, localVars, auditVars
<1>3. ASSUME AbortEnd PROVE TypeOK'
  BY <1>3, DeliveryAssumption
  DEF TypeOK, Steps, Prepared, AbortEnd, jobVars, leaseVars, localVars, auditVars
<1>4. ASSUME Requeue PROVE TypeOK'
  BY <1>4, DeliveryAssumption
  DEF TypeOK, Steps, Prepared, Requeue, inviteVars, leaseVars, localVars, auditVars
<1>5. ASSUME Tick PROVE TypeOK'
  BY <1>5, DeliveryAssumption
  DEF TypeOK, Steps, Prepared, Tick, inviteVars, jobVars, leaseVars, localVars,
      auditVars
<1>6. ASSUME NEW w \in Workers, Claim(w) PROVE TypeOK'
  BY <1>6, DeliveryAssumption
  DEF TypeOK, Steps, Prepared, Claim, inviteVars, leaseVars, localVars, auditVars
<1>7. ASSUME NEW w \in Workers, GetEvent(w) PROVE TypeOK'
  <2>1. CASE job = "processing"
    BY <1>7, <2>1
    DEF TypeOK, Steps, GetEvent, inviteVars, jobVars, leaseVars, auditVars
  <2>2. CASE job # "processing"
    <3>1. Idle(w) /\ UNCHANGED <<now, status, ending, job, attempts, requeues, lease,
                                 until, sentAt, fresh, accepted, sentAudits, skipAudits>>
      BY <1>7, <2>2 DEF GetEvent, inviteVars, jobVars, leaseVars, auditVars
    <3> QED
      BY <3>1 DEF TypeOK, Steps, Prepared, Idle
  <2> QED
    BY <2>1, <2>2
<1>8. ASSUME NEW w \in Workers, ReadInvitation(w) PROVE TypeOK'
  BY <1>8, DeliveryAssumption
  DEF TypeOK, Steps, Prepared, ReadInvitation, inviteVars, jobVars, leaseVars,
      auditVars
<1>9. ASSUME NEW w \in Workers, AcquireCheckJob(w) PROVE TypeOK'
  BY <1>9, DeliveryAssumption
  DEF TypeOK, Steps, Prepared, AcquireCheckJob, Fail, inviteVars, jobVars,
      leaseVars, auditVars
<1>10. ASSUME NEW w \in Workers, AcquireResolved(w) PROVE TypeOK'
  BY <1>10, DeliveryAssumption
  DEF TypeOK, Steps, Prepared, AcquireResolved, inviteVars, jobVars, leaseVars,
      auditVars
<1>11. ASSUME NEW w \in Workers, AcquireBusy(w) PROVE TypeOK'
  BY <1>11, DeliveryAssumption
  DEF TypeOK, Steps, Prepared, AcquireBusy, Fail, inviteVars, jobVars, leaseVars,
      auditVars
<1>12. ASSUME NEW w \in Workers, AcquireLease(w) PROVE TypeOK'
  BY <1>12, DeliveryAssumption
  DEF TypeOK, Steps, Prepared, AcquireLease, inviteVars, jobVars, localVars,
      auditVars
<1>13. ASSUME NEW w \in Workers, StartRequest(w) PROVE TypeOK'
  <2>1. Deadline(w) \in Int /\ now + MinWindow <= Deadline(w)
    BY <1>13, DeliveryAssumption DEF TypeOK, StartRequest, Fits, Deadline
  <2>2. endsAt'[w] \in Nat /\ endsAt' = [endsAt EXCEPT ![w] = endsAt'[w]]
    BY <1>13, <2>1, DeliveryAssumption DEF TypeOK, StartRequest
  <2> QED
    BY <1>13, <2>2
    DEF TypeOK, StartRequest, Steps, inviteVars, jobVars, leaseVars, auditVars
<1>14. ASSUME NEW w \in Workers, GiveUpWindow(w) PROVE TypeOK'
  BY <1>14, DeliveryAssumption
  DEF TypeOK, Steps, Prepared, GiveUpWindow, inviteVars, jobVars, leaseVars,
      auditVars
<1>15. ASSUME NEW w \in Workers, RequestAccepted(w) PROVE TypeOK'
  BY <1>15, DeliveryAssumption
  DEF TypeOK, Steps, Prepared, RequestAccepted, inviteVars, jobVars, leaseVars,
      auditVars
<1>16. ASSUME NEW w \in Workers, RequestRejected(w) PROVE TypeOK'
  BY <1>16, DeliveryAssumption
  DEF TypeOK, Steps, Prepared, RequestRejected, inviteVars, jobVars, leaseVars,
      auditVars
<1>17. ASSUME NEW w \in Workers, RequestAmbiguous(w) PROVE TypeOK'
  BY <1>17, DeliveryAssumption
  DEF TypeOK, Steps, Prepared, RequestAmbiguous, Fail, inviteVars, jobVars,
      leaseVars, auditVars
<1>18. ASSUME NEW w \in Workers, Release(w) PROVE TypeOK'
  BY <1>18, DeliveryAssumption
  DEF TypeOK, Steps, Prepared, Release, inviteVars, jobVars, localVars, auditVars
<1>19. ASSUME NEW w \in Workers, ApplySkip(w) PROVE TypeOK'
  BY <1>19, DeliveryAssumption
  DEF TypeOK, Steps, Prepared, ApplySkip, Idle, CloseJob, inviteVars, leaseVars
<1>20. ASSUME NEW w \in Workers, CompleteCheckJob(w) PROVE TypeOK'
  BY <1>20, DeliveryAssumption
  DEF TypeOK, Steps, Prepared, CompleteCheckJob, Fail, inviteVars, jobVars,
      leaseVars, auditVars
<1>21. ASSUME NEW w \in Workers, RecordSent(w) PROVE TypeOK'
  BY <1>21, DeliveryAssumption
  DEF TypeOK, Steps, Prepared, RecordSent, Idle, CloseJob, inviteVars
<1>22. ASSUME NEW w \in Workers, RecordFailure(w) PROVE TypeOK'
  BY <1>22, DeliveryAssumption
  DEF TypeOK, Steps, Prepared, RecordFailure, Idle, inviteVars, leaseVars, auditVars
<1>23. ASSUME NEW w \in Workers, Crash(w) PROVE TypeOK'
  BY <1>23, DeliveryAssumption
  DEF TypeOK, Steps, Prepared, Crash, Idle, inviteVars, jobVars, leaseVars,
      auditVars
<1>24. CASE UNCHANGED vars
  BY <1>24, DeliveryAssumption DEF TypeOK, Steps, Prepared, vars
<1> QED
  BY <1>1, <1>2, <1>3, <1>4, <1>5, <1>6, <1>7, <1>8, <1>9, <1>10, <1>11, <1>12,
     <1>13, <1>14, <1>15, <1>16, <1>17, <1>18, <1>19, <1>20, <1>21, <1>22, <1>23, <1>24
  DEF Next

\* Every step keeps the lease, the lock and the invitation consistent.
LEMMA NextLeaseInv ==
  ASSUME TypeOK, LeaseInv, FreshInv, [Next]_vars PROVE LeaseInv'
<1> USE DEF LeaseInv
<1>1. ASSUME NEW s \in Ended, BeginEnd(s) PROVE LeaseInv'
  BY <1>1, DeliveryAssumption
  DEF TypeOK, FreshInv, Locked, LeaseActive, LeaseWithinValidity, TooLate, BeginEnd,
      jobVars, leaseVars, localVars, auditVars
<1>2. ASSUME CommitEnd PROVE LeaseInv'
  BY <1>2, DeliveryAssumption
  DEF TypeOK, FreshInv, Locked, LeaseActive, LeaseWithinValidity, TooLate,
      CommitEnd, jobVars, leaseVars, localVars, auditVars
<1>3. ASSUME AbortEnd PROVE LeaseInv'
  BY <1>3, DeliveryAssumption
  DEF TypeOK, FreshInv, Locked, LeaseActive, LeaseWithinValidity, TooLate, AbortEnd,
      jobVars, leaseVars, localVars, auditVars
<1>4. ASSUME Requeue PROVE LeaseInv'
  BY <1>4, DeliveryAssumption
  DEF TypeOK, FreshInv, Locked, LeaseActive, LeaseWithinValidity, TooLate, Requeue,
      inviteVars, leaseVars, localVars, auditVars
<1>5. ASSUME Tick PROVE LeaseInv'
  BY <1>5, DeliveryAssumption
  DEF TypeOK, FreshInv, Locked, LeaseActive, LeaseWithinValidity, TooLate, Tick,
      inviteVars, jobVars, leaseVars, localVars, auditVars
<1>6. ASSUME NEW w \in Workers, Claim(w) PROVE LeaseInv'
  BY <1>6, DeliveryAssumption
  DEF TypeOK, FreshInv, Locked, LeaseActive, LeaseWithinValidity, TooLate, Claim,
      inviteVars, leaseVars, localVars, auditVars
<1>7. ASSUME NEW w \in Workers, GetEvent(w) PROVE LeaseInv'
  BY <1>7, DeliveryAssumption
  DEF TypeOK, FreshInv, Locked, LeaseActive, LeaseWithinValidity, TooLate, GetEvent,
      Idle, inviteVars, jobVars, leaseVars, auditVars
<1>8. ASSUME NEW w \in Workers, ReadInvitation(w) PROVE LeaseInv'
  BY <1>8, DeliveryAssumption
  DEF TypeOK, FreshInv, Locked, LeaseActive, LeaseWithinValidity, TooLate,
      ReadInvitation, inviteVars, jobVars, leaseVars, auditVars
<1>9. ASSUME NEW w \in Workers, AcquireCheckJob(w) PROVE LeaseInv'
  BY <1>9, DeliveryAssumption
  DEF TypeOK, FreshInv, Locked, LeaseActive, LeaseWithinValidity, TooLate,
      AcquireCheckJob, Fail, inviteVars, jobVars, leaseVars, auditVars
<1>10. ASSUME NEW w \in Workers, AcquireResolved(w) PROVE LeaseInv'
  BY <1>10, DeliveryAssumption
  DEF TypeOK, FreshInv, Locked, LeaseActive, LeaseWithinValidity, TooLate,
      AcquireResolved, inviteVars, jobVars, leaseVars, auditVars
<1>11. ASSUME NEW w \in Workers, AcquireBusy(w) PROVE LeaseInv'
  BY <1>11, DeliveryAssumption
  DEF TypeOK, FreshInv, Locked, LeaseActive, LeaseWithinValidity, TooLate,
      AcquireBusy, Fail, inviteVars, jobVars, leaseVars, auditVars
<1>12. ASSUME NEW w \in Workers, AcquireLease(w) PROVE LeaseInv'
  BY <1>12, DeliveryAssumption
  DEF TypeOK, FreshInv, Locked, LeaseActive, LeaseWithinValidity, TooLate,
      AcquireLease, inviteVars, jobVars, localVars, auditVars
<1>13. ASSUME NEW w \in Workers, StartRequest(w) PROVE LeaseInv'
  BY <1>13, DeliveryAssumption
  DEF TypeOK, FreshInv, Locked, LeaseActive, LeaseWithinValidity, TooLate,
      StartRequest, inviteVars, jobVars, leaseVars, auditVars
<1>14. ASSUME NEW w \in Workers, GiveUpWindow(w) PROVE LeaseInv'
  BY <1>14, DeliveryAssumption
  DEF TypeOK, FreshInv, Locked, LeaseActive, LeaseWithinValidity, TooLate,
      GiveUpWindow, inviteVars, jobVars, leaseVars, auditVars
<1>15. ASSUME NEW w \in Workers, RequestAccepted(w) PROVE LeaseInv'
  BY <1>15, DeliveryAssumption
  DEF TypeOK, FreshInv, Locked, LeaseActive, LeaseWithinValidity, TooLate,
      RequestAccepted, inviteVars, jobVars, leaseVars, auditVars
<1>16. ASSUME NEW w \in Workers, RequestRejected(w) PROVE LeaseInv'
  BY <1>16, DeliveryAssumption
  DEF TypeOK, FreshInv, Locked, LeaseActive, LeaseWithinValidity, TooLate,
      RequestRejected, inviteVars, jobVars, leaseVars, auditVars
<1>17. ASSUME NEW w \in Workers, RequestAmbiguous(w) PROVE LeaseInv'
  BY <1>17, DeliveryAssumption
  DEF TypeOK, FreshInv, Locked, LeaseActive, LeaseWithinValidity, TooLate,
      RequestAmbiguous, Fail, inviteVars, jobVars, leaseVars, auditVars
<1>18. ASSUME NEW w \in Workers, Release(w) PROVE LeaseInv'
  BY <1>18, DeliveryAssumption
  DEF TypeOK, FreshInv, Locked, LeaseActive, LeaseWithinValidity, TooLate, Release,
      inviteVars, jobVars, localVars, auditVars
<1>19. ASSUME NEW w \in Workers, ApplySkip(w) PROVE LeaseInv'
  BY <1>19, DeliveryAssumption
  DEF TypeOK, FreshInv, Locked, LeaseActive, LeaseWithinValidity, TooLate,
      ApplySkip, Idle, CloseJob, inviteVars, leaseVars
<1>20. ASSUME NEW w \in Workers, CompleteCheckJob(w) PROVE LeaseInv'
  BY <1>20, DeliveryAssumption
  DEF TypeOK, FreshInv, Locked, LeaseActive, LeaseWithinValidity, TooLate,
      CompleteCheckJob, Fail, inviteVars, jobVars, leaseVars, auditVars
<1>21. ASSUME NEW w \in Workers, RecordSent(w) PROVE LeaseInv'
  BY <1>21, DeliveryAssumption
  DEF TypeOK, FreshInv, Locked, LeaseActive, LeaseWithinValidity, TooLate,
      RecordSent, Idle, CloseJob, inviteVars
<1>22. ASSUME NEW w \in Workers, RecordFailure(w) PROVE LeaseInv'
  BY <1>22, DeliveryAssumption
  DEF TypeOK, FreshInv, Locked, LeaseActive, LeaseWithinValidity, TooLate,
      RecordFailure, Idle, inviteVars, leaseVars, auditVars
<1>23. ASSUME NEW w \in Workers, Crash(w) PROVE LeaseInv'
  BY <1>23, DeliveryAssumption
  DEF TypeOK, FreshInv, Locked, LeaseActive, LeaseWithinValidity, TooLate, Crash,
      Idle, inviteVars, jobVars, leaseVars, auditVars
<1>24. CASE UNCHANGED vars
  BY <1>24, DeliveryAssumption
  DEF TypeOK, FreshInv, Locked, LeaseActive, LeaseWithinValidity, TooLate, vars
<1> QED
  BY <1>1, <1>2, <1>3, <1>4, <1>5, <1>6, <1>7, <1>8, <1>9, <1>10, <1>11, <1>12,
     <1>13, <1>14, <1>15, <1>16, <1>17, <1>18, <1>19, <1>20, <1>21, <1>22, <1>23, <1>24
  DEF Next

\* Every step keeps lease ids unique.
LEMMA NextFreshInv ==
  ASSUME TypeOK, FreshInv, [Next]_vars PROVE FreshInv'
<1> USE DEF FreshInv
<1>1. ASSUME NEW s \in Ended, BeginEnd(s) PROVE FreshInv'
  BY <1>1 DEF TypeOK, BeginEnd, jobVars, leaseVars, localVars, auditVars
<1>2. ASSUME CommitEnd PROVE FreshInv'
  BY <1>2 DEF TypeOK, CommitEnd, jobVars, leaseVars, localVars, auditVars
<1>3. ASSUME AbortEnd PROVE FreshInv'
  BY <1>3 DEF TypeOK, AbortEnd, jobVars, leaseVars, localVars, auditVars
<1>4. ASSUME Requeue PROVE FreshInv'
  BY <1>4 DEF TypeOK, Requeue, inviteVars, leaseVars, localVars, auditVars
<1>5. ASSUME Tick PROVE FreshInv'
  BY <1>5 DEF TypeOK, Tick, inviteVars, jobVars, leaseVars, localVars, auditVars
<1>6. ASSUME NEW w \in Workers, Claim(w) PROVE FreshInv'
  BY <1>6 DEF TypeOK, Claim, inviteVars, leaseVars, localVars, auditVars
<1>7. ASSUME NEW w \in Workers, GetEvent(w) PROVE FreshInv'
  BY <1>7 DEF TypeOK, GetEvent, Idle, inviteVars, jobVars, leaseVars, auditVars
<1>8. ASSUME NEW w \in Workers, ReadInvitation(w) PROVE FreshInv'
  BY <1>8 DEF TypeOK, ReadInvitation, inviteVars, jobVars, leaseVars, auditVars
<1>9. ASSUME NEW w \in Workers, AcquireCheckJob(w) PROVE FreshInv'
  BY <1>9 DEF TypeOK, AcquireCheckJob, Fail, inviteVars, jobVars, leaseVars, auditVars
<1>10. ASSUME NEW w \in Workers, AcquireResolved(w) PROVE FreshInv'
  BY <1>10 DEF TypeOK, AcquireResolved, inviteVars, jobVars, leaseVars, auditVars
<1>11. ASSUME NEW w \in Workers, AcquireBusy(w) PROVE FreshInv'
  BY <1>11 DEF TypeOK, AcquireBusy, Fail, inviteVars, jobVars, leaseVars, auditVars
<1>12. ASSUME NEW w \in Workers, AcquireLease(w) PROVE FreshInv'
  BY <1>12 DEF TypeOK, AcquireLease, inviteVars, jobVars, localVars, auditVars
<1>13. ASSUME NEW w \in Workers, StartRequest(w) PROVE FreshInv'
  BY <1>13 DEF TypeOK, StartRequest, inviteVars, jobVars, leaseVars, auditVars
<1>14. ASSUME NEW w \in Workers, GiveUpWindow(w) PROVE FreshInv'
  BY <1>14 DEF TypeOK, GiveUpWindow, inviteVars, jobVars, leaseVars, auditVars
<1>15. ASSUME NEW w \in Workers, RequestAccepted(w) PROVE FreshInv'
  BY <1>15 DEF TypeOK, RequestAccepted, inviteVars, jobVars, leaseVars, auditVars
<1>16. ASSUME NEW w \in Workers, RequestRejected(w) PROVE FreshInv'
  BY <1>16 DEF TypeOK, RequestRejected, inviteVars, jobVars, leaseVars, auditVars
<1>17. ASSUME NEW w \in Workers, RequestAmbiguous(w) PROVE FreshInv'
  BY <1>17
  DEF TypeOK, RequestAmbiguous, Fail, inviteVars, jobVars, leaseVars, auditVars
<1>18. ASSUME NEW w \in Workers, Release(w) PROVE FreshInv'
  BY <1>18 DEF TypeOK, Release, inviteVars, jobVars, localVars, auditVars
<1>19. ASSUME NEW w \in Workers, ApplySkip(w) PROVE FreshInv'
  BY <1>19 DEF TypeOK, ApplySkip, Idle, CloseJob, inviteVars, leaseVars
<1>20. ASSUME NEW w \in Workers, CompleteCheckJob(w) PROVE FreshInv'
  BY <1>20
  DEF TypeOK, CompleteCheckJob, Fail, inviteVars, jobVars, leaseVars, auditVars
<1>21. ASSUME NEW w \in Workers, RecordSent(w) PROVE FreshInv'
  BY <1>21 DEF TypeOK, RecordSent, Idle, CloseJob, inviteVars
<1>22. ASSUME NEW w \in Workers, RecordFailure(w) PROVE FreshInv'
  BY <1>22 DEF TypeOK, RecordFailure, Idle, inviteVars, leaseVars, auditVars
<1>23. ASSUME NEW w \in Workers, Crash(w) PROVE FreshInv'
  BY <1>23 DEF TypeOK, Crash, Idle, inviteVars, jobVars, leaseVars, auditVars
<1>24. CASE UNCHANGED vars
  BY <1>24 DEF TypeOK, vars
<1> QED
  BY <1>1, <1>2, <1>3, <1>4, <1>5, <1>6, <1>7, <1>8, <1>9, <1>10, <1>11, <1>12,
     <1>13, <1>14, <1>15, <1>16, <1>17, <1>18, <1>19, <1>20, <1>21, <1>22, <1>23, <1>24
  DEF Next

\* Every step keeps requests covered.
LEMMA NextCoverInv ==
  ASSUME TypeOK, LeaseInv, FreshInv, CoverInv, [Next]_vars PROVE CoverInv'
<1> USE DEF CoverInv
<1>1. ASSUME NEW s \in Ended, BeginEnd(s) PROVE CoverInv'
  BY <1>1, DeliveryAssumption
  DEF TypeOK, FreshInv, Covered, Deadline, LeaseActive, BeginEnd, jobVars,
      leaseVars, localVars, auditVars
<1>2. ASSUME CommitEnd PROVE CoverInv'
  BY <1>2, DeliveryAssumption
  DEF TypeOK, FreshInv, Covered, Deadline, LeaseActive, CommitEnd, jobVars,
      leaseVars, localVars, auditVars
<1>3. ASSUME AbortEnd PROVE CoverInv'
  BY <1>3, DeliveryAssumption
  DEF TypeOK, FreshInv, Covered, Deadline, LeaseActive, AbortEnd, jobVars,
      leaseVars, localVars, auditVars
<1>4. ASSUME Requeue PROVE CoverInv'
  BY <1>4, DeliveryAssumption
  DEF TypeOK, FreshInv, Covered, Deadline, LeaseActive, Requeue, inviteVars,
      leaseVars, localVars, auditVars
<1>5. ASSUME Tick PROVE CoverInv'
  BY <1>5, DeliveryAssumption
  DEF TypeOK, FreshInv, Covered, Deadline, LeaseActive, Tick, inviteVars, jobVars,
      leaseVars, localVars, auditVars
<1>6. ASSUME NEW w \in Workers, Claim(w) PROVE CoverInv'
  BY <1>6, DeliveryAssumption
  DEF TypeOK, FreshInv, Covered, Deadline, LeaseActive, Claim, inviteVars,
      leaseVars, localVars, auditVars
<1>7. ASSUME NEW w \in Workers, GetEvent(w) PROVE CoverInv'
  BY <1>7, DeliveryAssumption
  DEF TypeOK, FreshInv, Covered, Deadline, LeaseActive, GetEvent, Idle, inviteVars,
      jobVars, leaseVars, auditVars
<1>8. ASSUME NEW w \in Workers, ReadInvitation(w) PROVE CoverInv'
  BY <1>8, DeliveryAssumption
  DEF TypeOK, FreshInv, Covered, Deadline, LeaseActive, ReadInvitation, inviteVars,
      jobVars, leaseVars, auditVars
<1>9. ASSUME NEW w \in Workers, AcquireCheckJob(w) PROVE CoverInv'
  BY <1>9, DeliveryAssumption
  DEF TypeOK, FreshInv, Covered, Deadline, LeaseActive, AcquireCheckJob, Fail,
      inviteVars, jobVars, leaseVars, auditVars
<1>10. ASSUME NEW w \in Workers, AcquireResolved(w) PROVE CoverInv'
  BY <1>10, DeliveryAssumption
  DEF TypeOK, FreshInv, Covered, Deadline, LeaseActive, AcquireResolved, inviteVars,
      jobVars, leaseVars, auditVars
<1>11. ASSUME NEW w \in Workers, AcquireBusy(w) PROVE CoverInv'
  BY <1>11, DeliveryAssumption
  DEF TypeOK, FreshInv, Covered, Deadline, LeaseActive, AcquireBusy, Fail,
      inviteVars, jobVars, leaseVars, auditVars
<1>12. ASSUME NEW w \in Workers, AcquireLease(w) PROVE CoverInv'
  BY <1>12, DeliveryAssumption
  DEF TypeOK, FreshInv, Covered, Deadline, LeaseActive, AcquireLease, inviteVars,
      jobVars, localVars, auditVars
<1>13. ASSUME NEW w \in Workers, StartRequest(w) PROVE CoverInv'
  <2>1. now + MinWindow <= Deadline(w) /\ Covered(w)
    BY <1>13 DEF StartRequest, Fits
  <2>2. Deadline(w) \in Int
    BY DeliveryAssumption DEF TypeOK, Deadline
  <2>3. endsAt'[w] <= Deadline(w) /\ now <= endsAt'[w]
    BY <1>13, <2>1, <2>2, DeliveryAssumption DEF TypeOK, StartRequest
  <2>4. endsAt'[w] \in Int
    BY <1>13, <2>2, DeliveryAssumption DEF TypeOK, StartRequest
  <2>5. now <= endsAt'[w] + TimerLag
    BY <2>3, <2>4, DeliveryAssumption DEF TypeOK
  <2>6. UNCHANGED <<now, lease, until, mine, startedAt>>
    BY <1>13 DEF StartRequest, leaseVars
  <2>7. \A v \in Workers : v # w => pc'[v] = pc[v] /\ endsAt'[v] = endsAt[v]
    BY <1>13 DEF TypeOK, StartRequest
  <2> QED
    BY <2>1, <2>3, <2>5, <2>6, <2>7 DEF Covered, Deadline
<1>14. ASSUME NEW w \in Workers, GiveUpWindow(w) PROVE CoverInv'
  BY <1>14, DeliveryAssumption
  DEF TypeOK, FreshInv, Covered, Deadline, LeaseActive, GiveUpWindow, inviteVars,
      jobVars, leaseVars, auditVars
<1>15. ASSUME NEW w \in Workers, RequestAccepted(w) PROVE CoverInv'
  BY <1>15, DeliveryAssumption
  DEF TypeOK, FreshInv, Covered, Deadline, LeaseActive, RequestAccepted, inviteVars,
      jobVars, leaseVars, auditVars
<1>16. ASSUME NEW w \in Workers, RequestRejected(w) PROVE CoverInv'
  BY <1>16, DeliveryAssumption
  DEF TypeOK, FreshInv, Covered, Deadline, LeaseActive, RequestRejected, inviteVars,
      jobVars, leaseVars, auditVars
<1>17. ASSUME NEW w \in Workers, RequestAmbiguous(w) PROVE CoverInv'
  BY <1>17, DeliveryAssumption
  DEF TypeOK, FreshInv, Covered, Deadline, LeaseActive, RequestAmbiguous, Fail,
      inviteVars, jobVars, leaseVars, auditVars
<1>18. ASSUME NEW w \in Workers, Release(w) PROVE CoverInv'
  BY <1>18, DeliveryAssumption
  DEF TypeOK, FreshInv, Covered, Deadline, LeaseActive, Release, inviteVars,
      jobVars, localVars, auditVars
<1>19. ASSUME NEW w \in Workers, ApplySkip(w) PROVE CoverInv'
  BY <1>19, DeliveryAssumption
  DEF TypeOK, FreshInv, Covered, Deadline, LeaseActive, ApplySkip, Idle, CloseJob,
      inviteVars, leaseVars
<1>20. ASSUME NEW w \in Workers, CompleteCheckJob(w) PROVE CoverInv'
  BY <1>20, DeliveryAssumption
  DEF TypeOK, FreshInv, Covered, Deadline, LeaseActive, CompleteCheckJob, Fail,
      inviteVars, jobVars, leaseVars, auditVars
<1>21. ASSUME NEW w \in Workers, RecordSent(w) PROVE CoverInv'
  BY <1>21, DeliveryAssumption
  DEF TypeOK, FreshInv, Covered, Deadline, LeaseActive, RecordSent, Idle, CloseJob,
      inviteVars
<1>22. ASSUME NEW w \in Workers, RecordFailure(w) PROVE CoverInv'
  BY <1>22, DeliveryAssumption
  DEF TypeOK, FreshInv, Covered, Deadline, LeaseActive, RecordFailure, Idle,
      inviteVars, leaseVars, auditVars
<1>23. ASSUME NEW w \in Workers, Crash(w) PROVE CoverInv'
  BY <1>23, DeliveryAssumption
  DEF TypeOK, FreshInv, Covered, Deadline, LeaseActive, Crash, Idle, inviteVars,
      jobVars, leaseVars, auditVars
<1>24. CASE UNCHANGED vars
  BY <1>24, DeliveryAssumption
  DEF TypeOK, FreshInv, Covered, Deadline, LeaseActive, vars
<1> QED
  BY <1>1, <1>2, <1>3, <1>4, <1>5, <1>6, <1>7, <1>8, <1>9, <1>10, <1>11, <1>12,
     <1>13, <1>14, <1>15, <1>16, <1>17, <1>18, <1>19, <1>20, <1>21, <1>22, <1>23, <1>24
  DEF Next

\* Every step keeps what the read found.
LEMMA NextMessageInv ==
  ASSUME TypeOK, LeaseInv, MessageInv, [Next]_vars PROVE MessageInv'
<1> USE DEF MessageInv
<1>1. ASSUME NEW s \in Ended, BeginEnd(s) PROVE MessageInv'
  BY <1>1, DeliveryAssumption
  DEF TypeOK, LeaseInv, Locked, LeasedHasMessage, TooLate, Ended, BeginEnd, jobVars,
      leaseVars, localVars, auditVars
<1>2. ASSUME CommitEnd PROVE MessageInv'
  BY <1>2, DeliveryAssumption
  DEF TypeOK, LeaseInv, Locked, LeasedHasMessage, TooLate, Ended, CommitEnd,
      jobVars, leaseVars, localVars, auditVars
<1>3. ASSUME AbortEnd PROVE MessageInv'
  BY <1>3, DeliveryAssumption
  DEF TypeOK, LeaseInv, Locked, LeasedHasMessage, TooLate, Ended, AbortEnd, jobVars,
      leaseVars, localVars, auditVars
<1>4. ASSUME Requeue PROVE MessageInv'
  BY <1>4, DeliveryAssumption
  DEF TypeOK, LeaseInv, Locked, LeasedHasMessage, TooLate, Ended, Requeue,
      inviteVars, leaseVars, localVars, auditVars
<1>5. ASSUME Tick PROVE MessageInv'
  BY <1>5, DeliveryAssumption
  DEF TypeOK, LeaseInv, Locked, LeasedHasMessage, TooLate, Ended, Tick, inviteVars,
      jobVars, leaseVars, localVars, auditVars
<1>6. ASSUME NEW w \in Workers, Claim(w) PROVE MessageInv'
  BY <1>6, DeliveryAssumption
  DEF TypeOK, LeaseInv, Locked, LeasedHasMessage, TooLate, Ended, Claim, inviteVars,
      leaseVars, localVars, auditVars
<1>7. ASSUME NEW w \in Workers, GetEvent(w) PROVE MessageInv'
  BY <1>7, DeliveryAssumption
  DEF TypeOK, LeaseInv, Locked, LeasedHasMessage, TooLate, Ended, GetEvent, Idle,
      inviteVars, jobVars, leaseVars, auditVars
<1>8. ASSUME NEW w \in Workers, ReadInvitation(w) PROVE MessageInv'
  <2>1. message'[w] = (status = "pending" /\ now < Expiry)
    BY <1>8 DEF TypeOK, ReadInvitation
  <2>2. ~(now < Expiry) => Expiry <= now
    BY DeliveryAssumption DEF TypeOK
  <2>3. UNCHANGED <<status, now>> /\ pc'[w] = "acquire"
    BY <1>8 DEF TypeOK, ReadInvitation, inviteVars
  <2>4. \A v \in Workers : v # w => pc'[v] = pc[v] /\ message'[v] = message[v]
    BY <1>8 DEF TypeOK, ReadInvitation
  <2> QED
    BY <2>1, <2>2, <2>3, <2>4 DEF LeasedHasMessage
<1>9. ASSUME NEW w \in Workers, AcquireCheckJob(w) PROVE MessageInv'
  BY <1>9, DeliveryAssumption
  DEF TypeOK, LeaseInv, Locked, LeasedHasMessage, TooLate, Ended, AcquireCheckJob,
      Fail, inviteVars, jobVars, leaseVars, auditVars
<1>10. ASSUME NEW w \in Workers, AcquireResolved(w) PROVE MessageInv'
  BY <1>10, DeliveryAssumption
  DEF TypeOK, LeaseInv, Locked, LeasedHasMessage, TooLate, Ended, AcquireResolved,
      inviteVars, jobVars, leaseVars, auditVars
<1>11. ASSUME NEW w \in Workers, AcquireBusy(w) PROVE MessageInv'
  BY <1>11, DeliveryAssumption
  DEF TypeOK, LeaseInv, Locked, LeasedHasMessage, TooLate, Ended, AcquireBusy, Fail,
      inviteVars, jobVars, leaseVars, auditVars
<1>12. ASSUME NEW w \in Workers, AcquireLease(w) PROVE MessageInv'
  BY <1>12, DeliveryAssumption
  DEF TypeOK, LeaseInv, Locked, LeasedHasMessage, TooLate, Ended, AcquireLease,
      inviteVars, jobVars, localVars, auditVars
<1>13. ASSUME NEW w \in Workers, StartRequest(w) PROVE MessageInv'
  BY <1>13, DeliveryAssumption
  DEF TypeOK, LeaseInv, Locked, LeasedHasMessage, TooLate, Ended, StartRequest,
      inviteVars, jobVars, leaseVars, auditVars
<1>14. ASSUME NEW w \in Workers, GiveUpWindow(w) PROVE MessageInv'
  BY <1>14, DeliveryAssumption
  DEF TypeOK, LeaseInv, Locked, LeasedHasMessage, TooLate, Ended, GiveUpWindow,
      inviteVars, jobVars, leaseVars, auditVars
<1>15. ASSUME NEW w \in Workers, RequestAccepted(w) PROVE MessageInv'
  BY <1>15, DeliveryAssumption
  DEF TypeOK, LeaseInv, Locked, LeasedHasMessage, TooLate, Ended, RequestAccepted,
      inviteVars, jobVars, leaseVars, auditVars
<1>16. ASSUME NEW w \in Workers, RequestRejected(w) PROVE MessageInv'
  BY <1>16, DeliveryAssumption
  DEF TypeOK, LeaseInv, Locked, LeasedHasMessage, TooLate, Ended, RequestRejected,
      inviteVars, jobVars, leaseVars, auditVars
<1>17. ASSUME NEW w \in Workers, RequestAmbiguous(w) PROVE MessageInv'
  BY <1>17, DeliveryAssumption
  DEF TypeOK, LeaseInv, Locked, LeasedHasMessage, TooLate, Ended, RequestAmbiguous,
      Fail, inviteVars, jobVars, leaseVars, auditVars
<1>18. ASSUME NEW w \in Workers, Release(w) PROVE MessageInv'
  BY <1>18, DeliveryAssumption
  DEF TypeOK, LeaseInv, Locked, LeasedHasMessage, TooLate, Ended, Release,
      inviteVars, jobVars, localVars, auditVars
<1>19. ASSUME NEW w \in Workers, ApplySkip(w) PROVE MessageInv'
  BY <1>19, DeliveryAssumption
  DEF TypeOK, LeaseInv, Locked, LeasedHasMessage, TooLate, Ended, ApplySkip, Idle,
      CloseJob, inviteVars, leaseVars
<1>20. ASSUME NEW w \in Workers, CompleteCheckJob(w) PROVE MessageInv'
  BY <1>20, DeliveryAssumption
  DEF TypeOK, LeaseInv, Locked, LeasedHasMessage, TooLate, Ended, CompleteCheckJob,
      Fail, inviteVars, jobVars, leaseVars, auditVars
<1>21. ASSUME NEW w \in Workers, RecordSent(w) PROVE MessageInv'
  BY <1>21, DeliveryAssumption
  DEF TypeOK, LeaseInv, Locked, LeasedHasMessage, TooLate, Ended, RecordSent, Idle,
      CloseJob, inviteVars
<1>22. ASSUME NEW w \in Workers, RecordFailure(w) PROVE MessageInv'
  BY <1>22, DeliveryAssumption
  DEF TypeOK, LeaseInv, Locked, LeasedHasMessage, TooLate, Ended, RecordFailure,
      Idle, inviteVars, leaseVars, auditVars
<1>23. ASSUME NEW w \in Workers, Crash(w) PROVE MessageInv'
  BY <1>23, DeliveryAssumption
  DEF TypeOK, LeaseInv, Locked, LeasedHasMessage, TooLate, Ended, Crash, Idle,
      inviteVars, jobVars, leaseVars, auditVars
<1>24. CASE UNCHANGED vars
  BY <1>24, DeliveryAssumption
  DEF TypeOK, LeaseInv, Locked, LeasedHasMessage, TooLate, Ended, vars
<1> QED
  BY <1>1, <1>2, <1>3, <1>4, <1>5, <1>6, <1>7, <1>8, <1>9, <1>10, <1>11, <1>12,
     <1>13, <1>14, <1>15, <1>16, <1>17, <1>18, <1>19, <1>20, <1>21, <1>22, <1>23, <1>24
  DEF Next

\* Every step keeps the record of the acceptance.
LEMMA NextSentInv ==
  ASSUME TypeOK, SentInv, [Next]_vars PROVE SentInv'
<1> USE DEF SentInv
<1>1. ASSUME NEW s \in Ended, BeginEnd(s) PROVE SentInv'
  BY <1>1
  DEF TypeOK, SentRecordedOnce, BeginEnd, jobVars, leaseVars, localVars, auditVars
<1>2. ASSUME CommitEnd PROVE SentInv'
  BY <1>2
  DEF TypeOK, SentRecordedOnce, CommitEnd, jobVars, leaseVars, localVars, auditVars
<1>3. ASSUME AbortEnd PROVE SentInv'
  BY <1>3
  DEF TypeOK, SentRecordedOnce, AbortEnd, jobVars, leaseVars, localVars, auditVars
<1>4. ASSUME Requeue PROVE SentInv'
  BY <1>4
  DEF TypeOK, SentRecordedOnce, Requeue, inviteVars, leaseVars, localVars, auditVars
<1>5. ASSUME Tick PROVE SentInv'
  BY <1>5
  DEF TypeOK, SentRecordedOnce, Tick, inviteVars, jobVars, leaseVars, localVars,
      auditVars
<1>6. ASSUME NEW w \in Workers, Claim(w) PROVE SentInv'
  BY <1>6
  DEF TypeOK, SentRecordedOnce, Claim, inviteVars, leaseVars, localVars, auditVars
<1>7. ASSUME NEW w \in Workers, GetEvent(w) PROVE SentInv'
  BY <1>7
  DEF TypeOK, SentRecordedOnce, GetEvent, Idle, inviteVars, jobVars, leaseVars,
      auditVars
<1>8. ASSUME NEW w \in Workers, ReadInvitation(w) PROVE SentInv'
  BY <1>8
  DEF TypeOK, SentRecordedOnce, ReadInvitation, inviteVars, jobVars, leaseVars,
      auditVars
<1>9. ASSUME NEW w \in Workers, AcquireCheckJob(w) PROVE SentInv'
  BY <1>9
  DEF TypeOK, SentRecordedOnce, AcquireCheckJob, Fail, inviteVars, jobVars,
      leaseVars, auditVars
<1>10. ASSUME NEW w \in Workers, AcquireResolved(w) PROVE SentInv'
  BY <1>10
  DEF TypeOK, SentRecordedOnce, AcquireResolved, inviteVars, jobVars, leaseVars,
      auditVars
<1>11. ASSUME NEW w \in Workers, AcquireBusy(w) PROVE SentInv'
  BY <1>11
  DEF TypeOK, SentRecordedOnce, AcquireBusy, Fail, inviteVars, jobVars, leaseVars,
      auditVars
<1>12. ASSUME NEW w \in Workers, AcquireLease(w) PROVE SentInv'
  BY <1>12
  DEF TypeOK, SentRecordedOnce, AcquireLease, inviteVars, jobVars, localVars,
      auditVars
<1>13. ASSUME NEW w \in Workers, StartRequest(w) PROVE SentInv'
  BY <1>13
  DEF TypeOK, SentRecordedOnce, StartRequest, inviteVars, jobVars, leaseVars,
      auditVars
<1>14. ASSUME NEW w \in Workers, GiveUpWindow(w) PROVE SentInv'
  BY <1>14
  DEF TypeOK, SentRecordedOnce, GiveUpWindow, inviteVars, jobVars, leaseVars,
      auditVars
<1>15. ASSUME NEW w \in Workers, RequestAccepted(w) PROVE SentInv'
  BY <1>15
  DEF TypeOK, SentRecordedOnce, RequestAccepted, inviteVars, jobVars, leaseVars,
      auditVars
<1>16. ASSUME NEW w \in Workers, RequestRejected(w) PROVE SentInv'
  BY <1>16
  DEF TypeOK, SentRecordedOnce, RequestRejected, inviteVars, jobVars, leaseVars,
      auditVars
<1>17. ASSUME NEW w \in Workers, RequestAmbiguous(w) PROVE SentInv'
  BY <1>17
  DEF TypeOK, SentRecordedOnce, RequestAmbiguous, Fail, inviteVars, jobVars,
      leaseVars, auditVars
<1>18. ASSUME NEW w \in Workers, Release(w) PROVE SentInv'
  BY <1>18
  DEF TypeOK, SentRecordedOnce, Release, inviteVars, jobVars, localVars, auditVars
<1>19. ASSUME NEW w \in Workers, ApplySkip(w) PROVE SentInv'
  BY <1>19
  DEF TypeOK, SentRecordedOnce, ApplySkip, Idle, CloseJob, inviteVars, leaseVars
<1>20. ASSUME NEW w \in Workers, CompleteCheckJob(w) PROVE SentInv'
  BY <1>20
  DEF TypeOK, SentRecordedOnce, CompleteCheckJob, Fail, inviteVars, jobVars,
      leaseVars, auditVars
<1>21. ASSUME NEW w \in Workers, RecordSent(w) PROVE SentInv'
  BY <1>21 DEF TypeOK, SentRecordedOnce, RecordSent, Idle, CloseJob, inviteVars
<1>22. ASSUME NEW w \in Workers, RecordFailure(w) PROVE SentInv'
  BY <1>22
  DEF TypeOK, SentRecordedOnce, RecordFailure, Idle, inviteVars, leaseVars,
      auditVars
<1>23. ASSUME NEW w \in Workers, Crash(w) PROVE SentInv'
  BY <1>23
  DEF TypeOK, SentRecordedOnce, Crash, Idle, inviteVars, jobVars, leaseVars,
      auditVars
<1>24. CASE UNCHANGED vars
  BY <1>24 DEF TypeOK, SentRecordedOnce, vars
<1> QED
  BY <1>1, <1>2, <1>3, <1>4, <1>5, <1>6, <1>7, <1>8, <1>9, <1>10, <1>11, <1>12,
     <1>13, <1>14, <1>15, <1>16, <1>17, <1>18, <1>19, <1>20, <1>21, <1>22, <1>23, <1>24
  DEF Next

-----------------------------------------------------------------------------

\* The invariant holds in every reachable state.
THEOREM Invariant == Spec => []IInv
<1>1. IInv /\ [Next]_vars => IInv'
  BY NextTypeOK, NextLeaseInv, NextFreshInv, NextCoverInv, NextMessageInv, NextSentInv
  DEF IInv
<1> QED
  BY <1>1, InitIInv, PTL DEF Spec

\* Every variable keeps its type.
THEOREM TypeCorrect == Spec => []TypeOK
  BY Invariant, PTL DEF IInv

(* A worker whose request is in flight, or may be started now, owns the lease, *)
(* which is in force.                                                         *)
LEMMA OwnsLease ==
  ASSUME IInv, NEW w \in Workers, pc[w] = "sending" \/ (pc[w] = "window" /\ Fits(w))
  PROVE  /\ status = "pending" /\ ~Locked
         /\ lease = mine[w] /\ mine[w] # 0 /\ until > now
<1>1. now < startedAt[w] + Lease
  BY DeliveryAssumption DEF IInv, TypeOK, CoverInv, Deadline, Fits
<1>2. lease = mine[w] /\ until > now
  BY <1>1, DeliveryAssumption DEF IInv, TypeOK, CoverInv, Covered
<1>3. mine[w] # 0
  BY DEF IInv, FreshInv
<1> QED
  BY <1>2, <1>3 DEF IInv, LeaseInv, LeaseActive

\* A provider request is only ever in flight under the current, unexpired lease
\* of a pending invitation that no transaction is about to end.
THEOREM NoRequestAfterEnd == Spec => []RequestsOnlyWhilePending
<1>1. IInv => RequestsOnlyWhilePending
  BY OwnsLease DEF RequestsOnlyWhilePending
<1> QED
  BY <1>1, Invariant, PTL

\* The acceptance is recorded and audited once, and only if there was one.
THEOREM SentOnce == Spec => []SentRecordedOnce
  BY Invariant, PTL DEF IInv, SentInv

\* A lease never outlives its invitation.
THEOREM LeaseEndsFirst == Spec => []LeaseWithinValidity
  BY Invariant, PTL DEF IInv, LeaseInv

\* A worker that is given the lease has a message to send.
THEOREM LeasedImpliesMessage == Spec => []LeasedHasMessage
  BY Invariant, PTL DEF IInv, MessageInv

(* Every lease is for a message at hand and ends before the invitation does   *)
(* (worker_acquire_invitation_email_lease).                                   *)
THEOREM SoundLeases == Spec => []LeasesAreSound
  BY LeaseEndsFirst, LeasedImpliesMessage, PTL DEF LeasesAreSound

-----------------------------------------------------------------------------
(* The refinement of DeliveryContract. *)

\* A decision to write the delivery off stays justified until it is applied.
SkipInv ==
  \A w \in Workers :
    /\ prepared[w] \in {"skipped", "skipped_unconfirmed"} =>
         status # "pending" \/ Expiry <= now + Lease
    /\ pc[w] = "apply" => prepared[w] # "none"

\* An expiry is only recorded once it has come.
ExpiryInv == ending = "expired" => Expiry <= now

\* Only the members' transactions end the invitation, and no step of a worker waits.
LEMMA WorkersOnlyWatch ==
  ASSUME NEW w \in Workers,
         \/ Claim(w) \/ GetEvent(w) \/ ReadInvitation(w)
         \/ AcquireCheckJob(w) \/ AcquireResolved(w) \/ AcquireBusy(w) \/ AcquireLease(w)
         \/ StartRequest(w) \/ GiveUpWindow(w)
         \/ RequestAccepted(w) \/ RequestRejected(w) \/ RequestAmbiguous(w)
         \/ Release(w) \/ ApplySkip(w) \/ CompleteCheckJob(w) \/ RecordSent(w)
         \/ RecordFailure(w) \/ Crash(w)
  PROVE  UNCHANGED <<now, status, ending>>
<1>1. CASE Claim(w) \/ GetEvent(w) \/ ReadInvitation(w) \/ AcquireCheckJob(w)
             \/ AcquireResolved(w) \/ AcquireBusy(w)
  BY <1>1 DEF Claim, GetEvent, ReadInvitation, AcquireCheckJob, AcquireResolved, AcquireBusy,
      inviteVars
<1>2. CASE AcquireLease(w) \/ StartRequest(w) \/ GiveUpWindow(w) \/ RequestAccepted(w)
             \/ RequestRejected(w) \/ RequestAmbiguous(w)
  BY <1>2 DEF AcquireLease, StartRequest, GiveUpWindow, RequestAccepted, RequestRejected,
      RequestAmbiguous, inviteVars
<1>3. CASE Release(w) \/ ApplySkip(w) \/ CompleteCheckJob(w) \/ RecordSent(w)
             \/ RecordFailure(w) \/ Crash(w)
  BY <1>3 DEF Release, ApplySkip, CompleteCheckJob, RecordSent, RecordFailure, Crash, inviteVars
<1> QED
  BY <1>1, <1>2, <1>3

LEMMA NextExpiryInv ==
  ASSUME TypeOK, ExpiryInv, [Next]_vars
  PROVE  ExpiryInv'
<1>1. CASE \E s \in Ended : BeginEnd(s)
  BY <1>1 DEF BeginEnd, ExpiryInv
<1>2. CASE CommitEnd \/ AbortEnd
  BY <1>2 DEF CommitEnd, AbortEnd, ExpiryInv
<1>3. CASE Tick
  BY <1>3, DeliveryAssumption DEF Tick, inviteVars, ExpiryInv, TypeOK
<1>4. CASE UNCHANGED <<ending, now>>
  BY <1>4 DEF ExpiryInv
<1> QED
  BY <1>1, <1>2, <1>3, <1>4, WorkersOnlyWatch DEF Next, vars, inviteVars, Requeue

\* Time only makes it more so, and an ended invitation stays ended.
LEMMA JustifiedStays ==
  ASSUME TypeOK, [Next]_vars, status # "pending" \/ Expiry <= now + Lease
  PROVE  status' # "pending" \/ Expiry <= now' + Lease
<1>1. CASE CommitEnd
  BY <1>1 DEF CommitEnd, Locked, TypeOK, Ended
<1>2. CASE Tick
  BY <1>2, DeliveryAssumption DEF Tick, inviteVars, TypeOK
<1>3. CASE UNCHANGED <<status, now>>
  BY <1>3
<1> QED
  BY <1>1, <1>2, <1>3, WorkersOnlyWatch
  DEF Next, vars, inviteVars, BeginEnd, AbortEnd, Requeue

\* What a worker has prepared changes where prepare returns, and where it is idle again.
LEMMA PreparedMoves ==
  ASSUME TypeOK, [Next]_vars, NEW v \in Workers
  PROVE  \/ prepared'[v] = prepared[v] /\ (pc'[v] = "apply" => pc[v] = "apply")
         \/ AcquireResolved(v)
         \/ prepared'[v] = "sent"
         \/ prepared'[v] = "none" /\ pc'[v] = "idle"
<1> USE DEF TypeOK
<1>1. ASSUME NEW s \in Ended, BeginEnd(s) PROVE UNCHANGED <<pc, prepared>>
  BY <1>1 DEF BeginEnd, localVars
<1>2. CASE CommitEnd \/ AbortEnd \/ Requeue \/ Tick \/ UNCHANGED vars
  BY <1>2 DEF CommitEnd, AbortEnd, Requeue, Tick, vars, localVars
<1>3. ASSUME NEW w \in Workers,
             Claim(w) \/ ReadInvitation(w) \/ AcquireCheckJob(w) \/ AcquireBusy(w)
               \/ AcquireLease(w) \/ StartRequest(w) \/ GiveUpWindow(w) \/ RequestRejected(w)
               \/ RequestAmbiguous(w) \/ Release(w) \/ CompleteCheckJob(w)
      PROVE  prepared' = prepared /\ (pc'[v] = "apply" => pc[v] = "apply")
  BY <1>3 DEF Claim, ReadInvitation, AcquireCheckJob, AcquireBusy, AcquireLease, StartRequest,
      GiveUpWindow, RequestRejected, RequestAmbiguous, Release, CompleteCheckJob, Fail, localVars
<1>4. ASSUME NEW w \in Workers, Idle(w)
      PROVE  \/ prepared'[v] = prepared[v] /\ pc'[v] = pc[v]
             \/ prepared'[v] = "none" /\ pc'[v] = "idle"
  BY <1>4 DEF Idle
<1>5. ASSUME NEW w \in Workers,
             ApplySkip(w) \/ RecordSent(w) \/ RecordFailure(w) \/ Crash(w)
      PROVE  Idle(w)
  BY <1>5 DEF ApplySkip, RecordSent, RecordFailure, Crash
<1>6. ASSUME NEW w \in Workers, GetEvent(w)
      PROVE  Idle(w) \/ (prepared' = prepared /\ (pc'[v] = "apply" => pc[v] = "apply"))
  BY <1>6 DEF GetEvent
<1>7. ASSUME NEW w \in Workers, AcquireResolved(w) \/ RequestAccepted(w), w # v
      PROVE  prepared'[v] = prepared[v] /\ pc'[v] = pc[v]
  BY <1>7 DEF AcquireResolved, RequestAccepted
<1>8. CASE RequestAccepted(v)
  BY <1>8 DEF RequestAccepted
<1> HIDE DEF TypeOK
<1> QED
  BY <1>1, <1>2, <1>3, <1>4, <1>5, <1>6, <1>7, <1>8 DEF Next

LEMMA NextSkipInv ==
  ASSUME TypeOK, SkipInv, [Next]_vars
  PROVE  SkipInv'
<1> SUFFICES ASSUME NEW v \in Workers
             PROVE  /\ prepared'[v] \in {"skipped", "skipped_unconfirmed"} =>
                         status' # "pending" \/ Expiry <= now' + Lease
                    /\ pc'[v] = "apply" => prepared'[v] # "none"
  BY DEF SkipInv
<1>1. CASE AcquireResolved(v)
  <2>1. prepared'[v] \in {"already_sent", "skipped", "skipped_unconfirmed"}
    BY <1>1 DEF AcquireResolved, TypeOK
  <2>2. prepared'[v] # "already_sent" => status # "pending" \/ Expiry <= now + Lease
    BY <1>1 DEF AcquireResolved, TypeOK, TooLate
  <2> QED
    BY <2>1, <2>2, JustifiedStays
<1>2. CASE prepared'[v] = prepared[v] /\ (pc'[v] = "apply" => pc[v] = "apply")
  BY <1>2, JustifiedStays DEF SkipInv
<1> QED
  BY <1>1, <1>2, PreparedMoves

(* No other request is in flight while one is, or may be started. *)
LEMMA AloneInFlight ==
  ASSUME IInv, NEW v \in Workers, pc[v] = "sending",
         NEW w \in Workers, pc[w] = "sending" \/ (pc[w] = "window" /\ Fits(w))
  PROVE  v = w
<1>1. lease = mine[v] /\ lease = mine[w] /\ mine[v] # 0
  BY OwnsLease
<1> QED
  BY <1>1 DEF IInv, FreshInv

LEMMA ValidWhileSending ==
  ASSUME IInv, NEW w \in Workers, pc[w] = "sending" \/ (pc[w] = "window" /\ Fits(w))
  PROVE  now < Expiry /\ Validity # "over"
<1>1. lease # 0 /\ until > now
  BY OwnsLease
<1>2. now < Expiry
  BY <1>1, DeliveryAssumption DEF IInv, TypeOK, LeaseInv, LeaseWithinValidity
<1> QED
  BY <1>2, DeliveryAssumption DEF Validity, IInv, TypeOK

DeliveryVars == <<status, Validity, Sending, accepted, sentAt, sentAudits, skipAudits>>

\* A worker's step that neither starts nor ends a request.
LEMMA SendingStays ==
  ASSUME TypeOK, NEW w \in Workers, NEW p, pc' = [pc EXCEPT ![w] = p],
         pc[w] # "sending", p # "sending"
  PROVE  Sending' = Sending
<1>1. \A v \in Workers : pc'[v] = "sending" <=> pc[v] = "sending"
  BY DEF TypeOK
<1>2. Sending => Sending'
  BY <1>1 DEF Sending
<1>3. Sending' => Sending
  BY <1>1 DEF Sending
<1> QED
  BY <1>2, <1>3 DEF Sending

\* The end of a request.
LEMMA AnswerStep ==
  ASSUME IInv, NEW w \in Workers, pc[w] = "sending", NEW p, p # "sending",
         pc' = [pc EXCEPT ![w] = p], accepted' \in {accepted, TRUE},
         UNCHANGED <<now, status, sentAt, sentAudits, skipAudits>>
  PROVE  Delivery!Answer
<1>1. Sending
  BY DEF Sending
<1>2. ~Sending'
  <2> SUFFICES ASSUME NEW v \in Workers, pc'[v] = "sending" PROVE FALSE
    BY DEF Sending
  <2>1. v # w /\ pc[v] = "sending"
    BY DEF IInv, TypeOK
  <2> QED
    BY <2>1, AloneInFlight
<1>3. Sending' = FALSE
  BY <1>2 DEF Sending
<1>4. Validity' = Validity
  BY DEF Validity
<1> QED
  BY <1>1, <1>3, <1>4 DEF Delivery!Answer

\* A worker's step between requests.
LEMMA BetweenStep ==
  ASSUME TypeOK, NEW w \in Workers, NEW p, pc' = [pc EXCEPT ![w] = p],
         pc[w] # "sending", p # "sending",
         UNCHANGED <<now, status, accepted, sentAt, sentAudits, skipAudits>>
  PROVE  UNCHANGED DeliveryVars
BY SendingStays DEF DeliveryVars, Validity

LEMMA StepDelivers ==
  ASSUME IInv, SkipInv, ExpiryInv, [Next]_vars
  PROVE  [Delivery!Next]_DeliveryVars
<1>0. TypeOK
  BY DEF IInv
<1>1. CASE CommitEnd
  <2>1. status = "pending" /\ status' = ending /\ ending \in Ended
    BY <1>1 DEF CommitEnd, Locked, LeaseInv, TypeOK, IInv
  <2>2. ~Sending
    BY <1>1, OwnsLease DEF Sending, CommitEnd
  <2>3. UNCHANGED <<now, pc, accepted, sentAt, sentAudits, skipAudits>>
    BY <1>1 DEF CommitEnd, leaseVars, localVars, auditVars
  <2>4. Sending' = Sending /\ Validity' = Validity
    BY <2>3 DEF Sending, Validity
  <2>5. status' = "expired" => Validity = "over"
    BY <2>1 DEF ExpiryInv, Validity
  <2> QED
    BY <2>1, <2>2, <2>3, <2>4, <2>5 DEF Delivery!Next, Delivery!End, Ended
<1>2. CASE Tick
  <2>1. now' = now + 1 /\ UNCHANGED <<status, pc, accepted, sentAt, sentAudits, skipAudits>>
    BY <1>2 DEF Tick, inviteVars, leaseVars, auditVars
  <2>2. Sending' = Sending
    BY <2>1 DEF Sending
  <2>3. Sending => now + 1 < Expiry
    <3> SUFFICES ASSUME NEW w \in Workers, pc[w] = "sending" PROVE now + 1 < Expiry
      BY DEF Sending
    <3>1. now + 1 <= endsAt[w] + TimerLag /\ endsAt[w] <= Deadline(w)
      BY <1>2, DeliveryAssumption DEF Tick, IInv, TypeOK, CoverInv
    <3>2. now + 1 < startedAt[w] + Lease
      BY <3>1, DeliveryAssumption DEF Deadline, IInv, TypeOK
    <3>3. until >= startedAt[w] + Lease
      BY <3>2, DeliveryAssumption DEF IInv, TypeOK, CoverInv, Covered
    <3>4. until < Expiry
      BY OwnsLease DEF IInv, LeaseInv, LeaseWithinValidity
    <3> QED
      BY <3>2, <3>3, <3>4, DeliveryAssumption DEF IInv, TypeOK
  <2>4. \/ Validity' = Validity
        \/ Validity = "open" /\ Validity' = "closing"
        \/ Validity = "closing" /\ ~Sending /\ Validity' = "over"
    BY <2>1, <2>3, DeliveryAssumption DEF Validity, IInv, TypeOK
  <2> QED
    BY <2>1, <2>2, <2>4 DEF Delivery!Next, Delivery!Elapse, DeliveryVars
<1>3. CASE AbortEnd \/ Requeue \/ (\E s \in Ended : BeginEnd(s)) \/ UNCHANGED vars
  <2>1. UNCHANGED <<now, status, pc, accepted, sentAt, sentAudits, skipAudits>>
    BY <1>3 DEF AbortEnd, Requeue, BeginEnd, inviteVars, leaseVars,
        auditVars, localVars, vars
  <2> QED
    BY <2>1 DEF DeliveryVars, Sending, Validity
<1>4. ASSUME NEW w \in Workers, StartRequest(w) PROVE Delivery!Send
  <2>1. /\ pc[w] = "window" /\ Fits(w) /\ pc' = [pc EXCEPT ![w] = "sending"]
        /\ UNCHANGED <<now, status, accepted, sentAt, sentAudits, skipAudits>>
    BY <1>4 DEF StartRequest, inviteVars, leaseVars, auditVars
  <2>2. ~Sending
    BY <2>1, AloneInFlight DEF Sending
  <2>3. Sending' /\ Validity' = Validity
    BY <1>0, <2>1 DEF Sending, TypeOK, Validity
  <2>4. Sending' = TRUE /\ Sending = FALSE
    BY <2>2, <2>3 DEF Sending
  <2> QED
    BY <2>1, <2>3, <2>4, OwnsLease, ValidWhileSending DEF Delivery!Send
<1>5. ASSUME NEW w \in Workers, RequestAccepted(w) \/ RequestRejected(w) \/ RequestAmbiguous(w)
      PROVE  Delivery!Answer
  <2>1. /\ pc[w] = "sending" /\ accepted' \in {accepted, TRUE}
        /\ \E p : p # "sending" /\ pc' = [pc EXCEPT ![w] = p]
        /\ UNCHANGED <<now, status, sentAt, sentAudits, skipAudits>>
    BY <1>5 DEF RequestAccepted, RequestRejected, RequestAmbiguous, Fail, inviteVars, leaseVars, auditVars
  <2> QED
    BY <2>1, AnswerStep
<1>6. ASSUME NEW w \in Workers, Crash(w) PROVE [Delivery!Next]_DeliveryVars
  <2>1. pc' = [pc EXCEPT ![w] = "idle"] /\ UNCHANGED <<now, status, sentAt, sentAudits, skipAudits>>
    BY <1>6 DEF Crash, Idle, inviteVars, leaseVars, auditVars
  <2>2. CASE pc[w] = "sending"
    <3>1. accepted' \in {accepted, TRUE}
      BY <1>6, <2>2 DEF Crash
    <3> QED
      BY <2>1, <2>2, <3>1, AnswerStep DEF Delivery!Next
  <2>3. CASE pc[w] # "sending"
    BY <1>0, <1>6, <2>1, <2>3, BetweenStep DEF Crash
  <2> QED
    BY <2>2, <2>3
<1>7. ASSUME NEW w \in Workers, ApplySkip(w) PROVE [Delivery!Next]_DeliveryVars
  <2>1. /\ pc[w] = "apply" /\ prepared[w] # "sent" /\ pc' = [pc EXCEPT ![w] = "idle"]
        /\ UNCHANGED <<now, status, accepted, sentAt, sentAudits>>
    BY <1>7 DEF ApplySkip, Idle, inviteVars, leaseVars
  <2>2. Sending' = Sending /\ Validity' = Validity
    BY <1>0, <2>1, SendingStays DEF Validity
  <2>3. CASE prepared[w] = "already_sent"
    BY <1>7, <2>1, <2>2, <2>3 DEF ApplySkip, DeliveryVars
  <2>4. CASE prepared[w] # "already_sent"
    <3>1. prepared[w] \in {"skipped", "skipped_unconfirmed"}
      BY <1>0, <2>1, <2>4 DEF SkipInv, TypeOK, Prepared
    <3>2. status # "pending" \/ Validity # "open"
      BY <3>1 DEF SkipInv, Validity
    <3>3. \E unconfirmed \in BOOLEAN : skipAudits' = skipAudits \cup {unconfirmed}
      BY <1>7, <2>4 DEF ApplySkip
    <3> QED
      BY <2>1, <2>2, <3>2, <3>3 DEF Delivery!Next, Delivery!WriteOff
  <2> QED
    BY <2>3, <2>4
<1>8. ASSUME NEW w \in Workers, RecordSent(w) PROVE [Delivery!Next]_DeliveryVars
  <2>1. /\ pc[w] = "record" /\ pc' = [pc EXCEPT ![w] = "idle"]
        /\ UNCHANGED <<now, status, accepted, skipAudits>>
    BY <1>8 DEF RecordSent, Idle, inviteVars
  <2>2. Sending' = Sending /\ Validity' = Validity
    BY <1>0, <2>1, SendingStays DEF Validity
  <2>3. accepted
    BY <2>1 DEF IInv, SentInv
  <2>4. sentAt' = TRUE /\ sentAudits' = IF sentAt THEN sentAudits ELSE sentAudits + 1
    BY <1>8 DEF RecordSent
  <2>5. \/ sentAt' = sentAt /\ sentAudits' = sentAudits
        \/ ~sentAt /\ sentAt' = TRUE /\ sentAudits' = sentAudits + 1
    BY <1>0, <2>4 DEF TypeOK
  <2> QED
    BY <2>1, <2>2, <2>3, <2>5 DEF Delivery!Next, Delivery!Record, DeliveryVars
<1>9. ASSUME NEW w \in Workers,
             Claim(w) \/ GetEvent(w) \/ ReadInvitation(w) \/ AcquireCheckJob(w)
               \/ AcquireResolved(w) \/ AcquireBusy(w) \/ AcquireLease(w) \/ GiveUpWindow(w)
               \/ Release(w) \/ CompleteCheckJob(w) \/ RecordFailure(w)
      PROVE  UNCHANGED DeliveryVars
  <2>1. /\ \E p : pc[w] # "sending" /\ p # "sending" /\ pc' = [pc EXCEPT ![w] = p]
        /\ UNCHANGED <<now, status, accepted, sentAt, sentAudits, skipAudits>>
    <3>1. CASE Claim(w) \/ ReadInvitation(w) \/ AcquireResolved(w) \/ AcquireLease(w)
                 \/ GiveUpWindow(w) \/ Release(w)
      BY <3>1 DEF Claim, ReadInvitation, AcquireResolved, AcquireLease, GiveUpWindow, Release,
          inviteVars, leaseVars, auditVars
    <3>2. CASE AcquireCheckJob(w) \/ AcquireBusy(w) \/ CompleteCheckJob(w)
      BY <3>2 DEF AcquireCheckJob, AcquireBusy, CompleteCheckJob, Fail, inviteVars, leaseVars, auditVars
    <3>3. CASE GetEvent(w) \/ RecordFailure(w)
      BY <3>3 DEF GetEvent, RecordFailure, Idle, inviteVars, leaseVars, auditVars
    <3> QED
      BY <1>9, <3>1, <3>2, <3>3
  <2> QED
    BY <1>0, <2>1, BetweenStep
<1> QED
  BY <1>1, <1>2, <1>3, <1>4, <1>5, <1>6, <1>7, <1>8, <1>9 DEF Next, Delivery!Next

(* The delivery implements DeliveryContract: requests to the provider are made *)
(* one at a time and end before the invitation does, however the workers, the  *)
(* job's retries, the crashes and the transactions of the members interleave.  *)
THEOREM DeliveryRefines == Spec => ImplementsDelivery
<1>1. Init => Delivery!Init /\ SkipInv /\ ExpiryInv
  <2> SUFFICES ASSUME Init PROVE Delivery!Init /\ SkipInv /\ ExpiryInv
    OBVIOUS
  <2>1. Validity \in {"open", "closing", "over"} /\ Sending = FALSE
    BY DEF Init, Validity, Sending
  <2>2. SkipInv /\ ExpiryInv
    BY DEF Init, SkipInv, ExpiryInv
  <2> QED
    BY <2>1, <2>2 DEF Init, Delivery!Init
<1>2. IInv /\ SkipInv /\ ExpiryInv /\ [Next]_vars
        => SkipInv' /\ ExpiryInv' /\ [Delivery!Next]_DeliveryVars
  BY NextSkipInv, NextExpiryInv, StepDelivers DEF IInv
<1>3. DeliveryVars = Delivery!vars
  BY DEF DeliveryVars, Delivery!vars
<1>4. Spec => [](SkipInv /\ ExpiryInv)
  BY <1>1, <1>2, Invariant, PTL DEF Spec
<1> QED
  BY <1>1, <1>2, <1>4, Invariant, PTL
  DEF Spec, ImplementsDelivery, Delivery!Spec, Delivery!vars, DeliveryVars
=============================================================================
