----------------------------- MODULE MediaPurge -----------------------------
(***************************************************************************)
(* The physical deletion of one media asset: purger processes that DELETE  *)
(* its object in R2, against writers that protect the asset.               *)
(*                                                                         *)
(* The DELETE is a network call outside any transaction.  Two things keep  *)
(* protection out meanwhile: a session advisory lock (the fence), gone as  *)
(* soon as the purger's database session is, and a durable claim with a    *)
(* lease, which outlives it.  What an attempt may have done to the object  *)
(* is kept in the job, so that a protection that comes too late is seen to *)
(* have come too late.                                                     *)
(*                                                                         *)
(* Fence, claim, job and object are per asset, so one asset is enough.     *)
(* When a job is due (next_attempt_at) is left open.                       *)
(***************************************************************************)
EXTENDS Naturals

CONSTANTS
  Purgers,
  Nobody,
  Lease,         \* claim_until - clock_timestamp() at the claim
  StartWindow,   \* how long after the claim began the DELETE may start
  DeleteTime,    \* its timeout, and how long after it R2 may still act
  MaxTime        \* bound on the clock

ASSUME PurgeAssumption ==
  /\ Nobody \notin Purgers
  /\ Lease \in Nat /\ StartWindow \in Nat /\ DeleteTime \in Nat
  /\ StartWindow + DeleteTime < Lease
  /\ MaxTime \in Nat

VARIABLES
  now,         \* the clock
  asset,       \* media_assets: "live", "deleted" (tombstone) or "purged"
  held,        \* media_retention_decision is not ELIGIBLE_AFTER_DATE
  protecting,  \* what an open transaction does to it: "no", "hold" or "lift"
  object,      \* the object exists in R2
  fence,       \* the purger whose session has the fence
  state,       \* media_purge_jobs.state, "none" before the job exists
  claim,       \* .claim_id, 0 for NULL
  until,       \* .claim_until
  outcome,     \* .storage_outcome
  before,      \* .claim_storage_outcome
  result,      \* .last_result
  fresh,       \* the next claim id
  open,        \* DELETE requests that R2 may still execute
  effective,   \* history: the claims whose DELETE has removed the object
  pc,          \* per purger: the step of purgeMediaAsset it is at
  connected,   \* per purger: its database session is alive
  mine,        \* per purger: claim
  started,     \* per purger: started
  report       \* per purger: the result it records after an error

jobVars   == <<state, claim, until, outcome, before, result>>
assetVars == <<asset, held, protecting>>
localVars == <<connected, mine, started, report>>
vars == <<now, asset, held, protecting, object, fence, state, claim, until, outcome, before,
          result, fresh, open, effective, pc, connected, mine, started, report>>

Parked   == {"completed", "reconciliation_required"}
States   == {"none", "queued", "claimed", "retryable_storage_failure", "storage_deleted",
             "db_confirmation_retry", "suspended"} \cup Parked
Outcomes == {"not_attempted", "unknown", "deleted", "failed"}
Reports  == {"none", "storage_unavailable", "storage_rejected", "storage_not_attempted",
             "confirmation_unavailable"}

TypeOK ==
  /\ now \in Nat
  /\ asset \in {"live", "deleted", "purged"}
  /\ held \in BOOLEAN
  /\ protecting \in {"no", "hold", "lift"}
  /\ object \in BOOLEAN
  /\ fence \in Purgers \cup {Nobody}
  /\ state \in States
  /\ claim \in Nat /\ until \in Nat
  /\ outcome \in Outcomes /\ before \in Outcomes
  /\ result \in {"none", "storage_unavailable", "deleted"}
  /\ fresh \in Nat \ {0}
  /\ open \in SUBSET [claim : Nat, endsAt : Nat]
  /\ effective \in SUBSET Nat
  /\ pc \in [Purgers -> {"idle", "claim", "start", "deleting", "record", "confirm", "fail",
                         "unlock"}]
  /\ connected \in [Purgers -> BOOLEAN]
  /\ mine \in [Purgers -> Nat]
  /\ started \in [Purgers -> Nat]
  /\ report \in [Purgers -> Reports]

\* An uploaded asset, still within its retention.
Init ==
  /\ now = 0
  /\ asset = "live" /\ held = TRUE /\ protecting = "no"
  /\ object = TRUE
  /\ fence = Nobody
  /\ state = "none" /\ claim = 0 /\ until = 0
  /\ outcome = "not_attempted" /\ before = "not_attempted" /\ result = "none"
  /\ fresh = 1
  /\ open = {} /\ effective = {}
  /\ pc = [p \in Purgers |-> "idle"]
  /\ connected = [p \in Purgers |-> TRUE]
  /\ mine = [p \in Purgers |-> 0]
  /\ started = [p \in Purgers |-> 0]
  /\ report = [p \in Purgers |-> "none"]

(***************************************************************************)
(* Protection and deletion requests.                                       *)
(***************************************************************************)

LeaseActive == until > now

\* Nobody holds the advisory lock: a purger for its session, a transaction
\* that changes the protection until it ends.
FenceFree == fence = Nobody /\ protecting = "no"

\* Mutant: holding the fence is all a protection has to wait for.
FenceFreeOnly == FenceFree

\* The guards on legal_hold_until and retention_until and on what retention is
\* computed from refuse a change while the fence or a lease is held.
MayProtect == FenceFree /\ ~LeaseActive

BeginProtect(change) ==
  /\ MayProtect
  /\ protecting' = change
  /\ UNCHANGED <<now, asset, held, object, fence, jobVars, fresh, open, effective, pc, localVars>>

CommitProtect ==
  /\ protecting # "no"
  /\ held' = (protecting = "hold")
  /\ protecting' = "no"
  /\ UNCHANGED <<now, asset, object, fence, jobVars, fresh, open, effective, pc, localVars>>

AbortProtect ==
  /\ protecting # "no"
  /\ protecting' = "no"
  /\ UNCHANGED <<now, asset, held, object, fence, jobVars, fresh, open, effective, pc, localVars>>

\* The date until which the asset is protected passes.
Lapse ==
  /\ held
  /\ held' = FALSE
  /\ UNCHANGED <<now, asset, protecting, object, fence, jobVars, fresh, open, effective, pc,
                 localVars>>

\* request_media_deletion, by a person or by the sweep over retention dates.
RequestDeletion ==
  /\ asset = "live" /\ ~held /\ FenceFree
  /\ asset' = "deleted"
  /\ state' = "queued"
  /\ UNCHANGED <<now, held, protecting, object, fence, claim, until, outcome, before, result,
                 fresh, open, effective, pc, localVars>>

(***************************************************************************)
(* A purge attempt.                                                        *)
(***************************************************************************)

Goto(p, step) == pc' = [pc EXCEPT ![p] = step]

\* A call fails: the attempt goes on to record r instead.
Fail(p, r) ==
  /\ Goto(p, "fail")
  /\ report' = [report EXCEPT ![p] = r]

\* The attempt is over: locals are gone, a session is reserved for the next.
Reset(p) ==
  /\ Goto(p, "idle")
  /\ connected' = [connected EXCEPT ![p] = TRUE]
  /\ mine' = [mine EXCEPT ![p] = 0]
  /\ started' = [started EXCEPT ![p] = 0]
  /\ report' = [report EXCEPT ![p] = "none"]

Drop(p) == fence' = IF fence = p THEN Nobody ELSE fence

TryFence(p) ==
  /\ pc[p] = "idle" /\ FenceFree
  /\ fence' = p
  /\ started' = [started EXCEPT ![p] = now]
  /\ Goto(p, "claim")
  /\ UNCHANGED <<now, assetVars, object, jobVars, fresh, open, effective, connected, mine, report>>

\* claim_media_purge returns no row.
ClaimRefused(p) ==
  /\ pc[p] = "claim" /\ connected[p]
  /\ state \in {"none"} \cup Parked \/ LeaseActive
  /\ Goto(p, "unlock")
  /\ UNCHANGED <<now, assetVars, object, fence, jobVars, fresh, open, effective, localVars>>

Claimable == state \notin {"none"} \cup Parked /\ ~LeaseActive

\* Protected meanwhile: park the job if an attempt may have deleted the object.
ClaimProtected(p) ==
  /\ pc[p] = "claim" /\ connected[p] /\ Claimable /\ held
  /\ state' = IF outcome \in {"unknown", "deleted"} THEN "reconciliation_required"
                                                    ELSE "suspended"
  /\ claim' = 0 /\ until' = 0
  /\ Goto(p, "unlock")
  /\ UNCHANGED <<now, assetVars, object, fence, outcome, before, result, fresh, open, effective,
                 localVars>>

\* The claim is written.  If the answer to its COMMIT is lost, the purger goes
\* on as if it had none.
Claim(p, answered) ==
  /\ pc[p] = "claim" /\ connected[p] /\ Claimable /\ ~held
  /\ state' = "claimed"
  /\ claim' = fresh
  /\ fresh' = fresh + 1
  /\ until' = now + Lease
  /\ before' = outcome
  /\ outcome' = IF outcome = "deleted" THEN outcome ELSE "unknown"
  /\ result' = IF result = "deleted" THEN result ELSE "storage_unavailable"
  /\ IF answered
     THEN mine' = [mine EXCEPT ![p] = fresh] /\ Goto(p, "start")
     ELSE Goto(p, "unlock") /\ UNCHANGED mine
  /\ UNCHANGED <<now, assetVars, object, fence, open, effective, connected, started, report>>

\* The DELETE leaves, unless the preparation took too long.
StartDelete(p) ==
  /\ pc[p] = "start"
  /\ IF now <= started[p] + StartWindow
     THEN /\ open' = open \cup {[claim |-> mine[p], endsAt |-> now + DeleteTime]}
          /\ Goto(p, "deleting")
          /\ UNCHANGED report
     ELSE Fail(p, "storage_not_attempted") /\ UNCHANGED open
  /\ UNCHANGED <<now, assetVars, object, fence, jobVars, fresh, effective, connected, mine, started>>

\* R2 executes a request, whatever became of the purger that sent it.
TakeEffect(r) ==
  /\ r \in open
  /\ object' = FALSE
  /\ open' = open \ {r}
  /\ effective' = effective \cup {r.claim}
  /\ UNCHANGED <<now, assetVars, fence, jobVars, fresh, pc, localVars>>

\* 200 or 204.
AnswerDeleted(p) ==
  /\ pc[p] = "deleting" /\ mine[p] \in effective
  /\ Goto(p, "record")
  /\ UNCHANGED <<now, assetVars, object, fence, jobVars, fresh, open, effective, localVars>>

\* 401 or 403: this attempt deleted nothing and will not.
AnswerRejected(p) ==
  /\ pc[p] = "deleting" /\ mine[p] \notin effective
  /\ open' = {r \in open : r.claim # mine[p]}
  /\ Fail(p, "storage_rejected")
  /\ UNCHANGED <<now, assetVars, object, fence, jobVars, fresh, effective, connected, mine, started>>

\* Mutant: any other answer is taken for a deletion.
UnavailableIsDeleted(p) ==
  /\ pc[p] = "deleting"
  /\ Goto(p, "record")
  /\ UNCHANGED <<now, assetVars, object, fence, jobVars, fresh, open, effective, localVars>>

\* Everything else, timeouts included: the request may yet be executed.
Unavailable(p) ==
  /\ pc[p] = "deleting"
  /\ Fail(p, "storage_unavailable")
  /\ UNCHANGED <<now, assetVars, object, fence, jobVars, fresh, open, effective, connected, mine,
                 started>>

\* The WHERE of record_media_purge_result.
ClaimValid(p) ==
  /\ claim = mine[p] /\ LeaseActive
  /\ state \in {"claimed", "storage_deleted", "db_confirmation_retry"}

\* record_media_purge_result('deleted'); its answer may be lost.
RecordDeleted(p, answered) ==
  /\ pc[p] = "record" /\ connected[p] /\ ClaimValid(p)
  /\ state' = "storage_deleted" /\ outcome' = "deleted" /\ result' = "deleted"
  /\ IF answered THEN Goto(p, "confirm") /\ UNCHANGED report
                 ELSE Fail(p, "confirmation_unavailable")
  /\ UNCHANGED <<now, assetVars, object, fence, claim, until, before, fresh, open, effective,
                 connected, mine, started>>

\* confirm_media_purge; its answer may be lost.
Confirm(p, answered) ==
  /\ pc[p] = "confirm" /\ connected[p] /\ ClaimValid(p)
  /\ state # "claimed" /\ result = "deleted" /\ ~held
  /\ asset' = "purged"
  /\ state' = "completed" /\ claim' = 0 /\ until' = 0
  /\ IF answered THEN Goto(p, "unlock") /\ UNCHANGED report
                 ELSE Fail(p, "confirmation_unavailable")
  /\ UNCHANGED <<now, held, protecting, object, fence, outcome, before, result, fresh, open,
                 effective, connected, mine, started>>

\* Either call raises, or does not come through.
NotConfirmed(p) ==
  /\ pc[p] \in {"record", "confirm"}
  /\ Fail(p, "confirmation_unavailable")
  /\ UNCHANGED <<now, assetVars, object, fence, jobVars, fresh, open, effective, connected, mine,
                 started>>

\* Mutant: a refusal clears the record of earlier attempts.
OutcomeOfThisAttempt(r) ==
  CASE r = "storage_rejected" -> "failed"
    [] r = "storage_not_attempted" -> "not_attempted"
    [] OTHER -> outcome

\* What a failed attempt leaves known about the object.
OutcomeAfter(r) ==
  IF before \notin {"not_attempted", "failed"} THEN outcome
  ELSE IF r = "storage_rejected" THEN "failed"
  ELSE IF r = "storage_not_attempted" THEN "not_attempted" ELSE outcome

\* record_media_purge_result in the catch block.
RecordFailure(p) ==
  /\ pc[p] = "fail" /\ connected[p] /\ ClaimValid(p)
  /\ state' = IF report[p] = "confirmation_unavailable" THEN "db_confirmation_retry"
                                                        ELSE "retryable_storage_failure"
  /\ outcome' = OutcomeAfter(report[p])
  /\ result' = IF report[p] = "confirmation_unavailable" THEN result ELSE "storage_unavailable"
  /\ Goto(p, "unlock")
  /\ UNCHANGED <<now, assetVars, object, fence, claim, until, before, fresh, open, effective,
                 localVars>>

\* It raises, or does not come through; the error is swallowed.
FailureNotRecorded(p) ==
  /\ pc[p] = "fail"
  /\ Goto(p, "unlock")
  /\ UNCHANGED <<now, assetVars, object, fence, jobVars, fresh, open, effective, localVars>>

\* The finally block; without an unlock the session is closed.
Unlock(p) ==
  /\ pc[p] = "unlock" \/ (pc[p] = "claim" /\ ~connected[p])
  /\ Drop(p)
  /\ Reset(p)
  /\ UNCHANGED <<now, assetVars, object, jobVars, fresh, open, effective>>

\* The database session ends under a purger, which notices at its next query.
SessionLost(p) ==
  /\ pc[p] # "idle" /\ connected[p]
  /\ Drop(p)
  /\ connected' = [connected EXCEPT ![p] = FALSE]
  /\ UNCHANGED <<now, assetVars, object, jobVars, fresh, open, effective, pc, mine, started, report>>

\* The process dies; a request it sent goes on.
Crash(p) ==
  /\ pc[p] # "idle"
  /\ Drop(p)
  /\ Reset(p)
  /\ UNCHANGED <<now, assetVars, object, jobVars, fresh, open, effective>>

Tick ==
  /\ now < MaxTime
  /\ now' = now + 1
  /\ open' = {r \in open : r.endsAt > now}
  /\ UNCHANGED <<assetVars, object, fence, jobVars, fresh, effective, pc, localVars>>

PurgerStep(p) ==
  \/ TryFence(p) \/ ClaimRefused(p) \/ ClaimProtected(p)
  \/ \E answered \in BOOLEAN : Claim(p, answered) \/ RecordDeleted(p, answered)
                               \/ Confirm(p, answered)
  \/ StartDelete(p) \/ AnswerDeleted(p) \/ AnswerRejected(p) \/ Unavailable(p)
  \/ NotConfirmed(p) \/ RecordFailure(p) \/ FailureNotRecorded(p) \/ Unlock(p)
  \/ SessionLost(p) \/ Crash(p)

Next ==
  \/ \E change \in {"hold", "lift"} : BeginProtect(change)
  \/ CommitProtect \/ AbortProtect \/ Lapse \/ RequestDeletion
  \/ \E p \in Purgers : PurgerStep(p)
  \/ \E r \in open : TakeEffect(r)
  \/ Tick

Spec == Init /\ [][Next]_vars

(***************************************************************************)
(* Properties.                                                             *)
(***************************************************************************)

\* As long as R2 may execute a DELETE, the asset is a tombstone, is not
\* protected and not about to be, and the request is the one of the current
\* claim, even when the purger that sent it is cut off or dead.
DeletesOnlyUnprotected ==
  \A r \in open : /\ asset = "deleted" /\ ~held /\ protecting = "no"
                  /\ r.claim = claim /\ LeaseActive

\* The job never says of an object that is gone that nothing was attempted or
\* that the attempts failed; so a job put off as 'suspended' because its asset
\* is protected still has the object it protects.
NoSilentLoss ==
  /\ ~object => outcome \in {"unknown", "deleted"}
  /\ state = "suspended" => object

\* An asset is marked purged only when its object is gone and the job says so.
PurgedMeansGone == asset = "purged" => ~object /\ outcome = "deleted" /\ state = "completed"

\* What the rows say of the object can be relied on in both directions.
ObjectAccountedFor == NoSilentLoss /\ PurgedMeansGone
=============================================================================
