---------------------------- MODULE MediaProofs ----------------------------
(***************************************************************************)
(* Theorems about MediaPurge, MediaUpload and MediaReconciliation, for any *)
(* purgers, requests, keys, rows and times that satisfy PurgeAssumption,   *)
(* UploadAssumption and ReconAssumption.                                   *)
(*                                                                         *)
(* Purge.  A purger that starts its DELETE in time does so under the       *)
(* current claim, whose lease outlasts the request (Leased, InFlight); no  *)
(* protection and no other claim get past an active lease (Protected).  So *)
(* a request in flight belongs to the current claim, and what it may have  *)
(* done is either done by that claim or was known before it (Known).       *)
(*                                                                         *)
(* Uploads.  A row only moves forward (Follows), and one request at a time *)
(* has the lock of its key (KeysApart); so what a request has read of the  *)
(* row, the reception and the object is still so when it writes (Know),    *)
(* and every row it leaves is sound (Sound).  All lock key, receptions by  *)
(* id and media row in that order (LocksInOrder), so who waits for a       *)
(* reception leads to one that waits for a later one, and not for ever.    *)
(*                                                                         *)
(* Reconciliation.  A row's lifecycle never returns to where it was        *)
(* (Rank), so a row read twice with one version had that version at the    *)
(* HEAD in between (Truths).  What has been so from the start and is not   *)
(* yet observed lies ahead of the cursors of the pages (Coverage).         *)
(***************************************************************************)
EXTENDS MediaPurge, MediaUpload, MediaReconciliation, FiniteSetTheorems, NaturalsInduction, TLAPS


\* The job and its asset go through their lives together.
Phases == (state = "none" <=> asset = "live") /\ (state = "completed" <=> asset = "purged")

\* A session that lives has the fence from the start of its attempt to the end.
Fenced ==
  /\ \A p \in Purgers : connected[p] /\ pc[p] # "idle" => fence = p
  /\ fence # Nobody => protecting = "no"

\* Nothing protects the asset under an active lease.
Protected == LeaseActive => ~held /\ protecting = "no" /\ asset = "deleted"

\* Claim ids are drawn once, and no two purgers have the same.
Distinct ==
  /\ claim < fresh
  /\ \A c \in effective : c < fresh
  /\ \A p \in Purgers : mine[p] < fresh
  /\ \A p \in Purgers : pc[p] \in {"start", "deleting", "record", "confirm", "fail"} => mine[p] # 0
  /\ \A p, q \in Purgers : p # q /\ mine[p] # 0 => mine[p] # mine[q]

\* A request in flight is the only one, of the current claim, and ends before
\* the lease does.
InFlight ==
  /\ \A r \in open : /\ r.claim = claim /\ claim # 0 /\ claim \notin effective
                     /\ now <= r.endsAt /\ r.endsAt < until
                     /\ outcome \in {"unknown", "deleted"}
  /\ \A r, q \in open : r = q

\* A purger that may still start its DELETE has the current claim.
Leased ==
  \A p \in Purgers :
    /\ started[p] <= now
    /\ pc[p] = "start" /\ now <= started[p] + StartWindow =>
         /\ claim = mine[p] /\ started[p] + Lease <= until
         /\ outcome \in {"unknown", "deleted"}

\* The claim c deleted nothing and has no request left that could.
Harmless(c) == c \notin effective /\ \A r \in open : r.claim # c

\* What a purger knows of its own claim at each step.
Witnessed ==
  \A p \in Purgers :
    /\ pc[p] = "start" => Harmless(mine[p])
    /\ pc[p] = "fail" /\ report[p] \in {"storage_rejected", "storage_not_attempted"} =>
         Harmless(mine[p])
    /\ pc[p] \in {"record", "confirm"} => mine[p] \in effective

\* What the job knows of the object.
Known ==
  /\ effective # {} => ~object
  /\ ~object => outcome \in {"unknown", "deleted"}
  /\ claim # 0 /\ before \in {"not_attempted", "failed"} => object \/ claim \in effective
  /\ outcome = "deleted" => ~object
  /\ result = "deleted" => outcome = "deleted"
  /\ state = "suspended" => outcome \in {"not_attempted", "failed"}
  /\ state = "completed" => outcome = "deleted"

IInv == TypeOK /\ Phases /\ Fenced /\ Protected /\ Distinct /\ InFlight /\ Leased
        /\ Witnessed /\ Known

\* Every step keeps the types.
LEMMA TypeStep ==
  ASSUME TypeOK, [Next]_vars PROVE TypeOK'
<1>1. ASSUME NEW change \in {"hold", "lift"}, BeginProtect(change) PROVE TypeOK'
  BY <1>1 DEF BeginProtect, MayProtect, FenceFree, TypeOK, jobVars, assetVars, localVars
<1>2. ASSUME CommitProtect PROVE TypeOK'
  BY <1>2 DEF CommitProtect, TypeOK, jobVars, assetVars, localVars
<1>3. ASSUME AbortProtect PROVE TypeOK'
  BY <1>3 DEF AbortProtect, TypeOK, jobVars, assetVars, localVars
<1>4. ASSUME Lapse PROVE TypeOK'
  BY <1>4 DEF Lapse, TypeOK, jobVars, assetVars, localVars
<1>5. ASSUME RequestDeletion PROVE TypeOK'
  BY <1>5 DEF RequestDeletion, FenceFree, TypeOK, jobVars, assetVars, localVars, States
<1>6. ASSUME NEW p \in Purgers, TryFence(p) PROVE TypeOK'
  BY <1>6 DEF TryFence, FenceFree, Goto, TypeOK, jobVars, assetVars, localVars
<1>7. ASSUME NEW p \in Purgers, ClaimRefused(p) PROVE TypeOK'
  BY <1>7 DEF ClaimRefused, Goto, TypeOK, jobVars, assetVars, localVars
<1>8. ASSUME NEW p \in Purgers, ClaimProtected(p) PROVE TypeOK'
  BY <1>8 DEF ClaimProtected, Goto, Claimable, TypeOK, jobVars, assetVars, localVars, States, Parked
<1>9. ASSUME NEW p \in Purgers, NEW answered \in BOOLEAN, Claim(p, answered) PROVE TypeOK'
  BY <1>9, PurgeAssumption DEF Claim, Goto, Claimable, TypeOK, jobVars, assetVars, localVars, States,
     Parked, Outcomes
<1>10. ASSUME NEW p \in Purgers, NEW answered \in BOOLEAN, RecordDeleted(p, answered) PROVE TypeOK'
  BY <1>10 DEF RecordDeleted, Goto, Fail, ClaimValid, TypeOK, jobVars, assetVars, localVars, States,
     Outcomes, Reports
<1>11. ASSUME NEW p \in Purgers, NEW answered \in BOOLEAN, Confirm(p, answered) PROVE TypeOK'
  BY <1>11 DEF Confirm, Goto, Fail, ClaimValid, TypeOK, jobVars, assetVars, localVars, States,
     Parked, Reports
<1>12. ASSUME NEW p \in Purgers, StartDelete(p) PROVE TypeOK'
  BY <1>12, PurgeAssumption DEF StartDelete, Goto, Fail, TypeOK, jobVars, assetVars, localVars,
     Reports
<1>13. ASSUME NEW p \in Purgers, AnswerDeleted(p) PROVE TypeOK'
  BY <1>13 DEF AnswerDeleted, Goto, TypeOK, jobVars, assetVars, localVars
<1>14. ASSUME NEW p \in Purgers, AnswerRejected(p) PROVE TypeOK'
  BY <1>14 DEF AnswerRejected, Goto, Fail, TypeOK, jobVars, assetVars, localVars, Reports
<1>15. ASSUME NEW p \in Purgers, Unavailable(p) PROVE TypeOK'
  BY <1>15 DEF Unavailable, Goto, Fail, TypeOK, jobVars, assetVars, localVars, Reports
<1>16. ASSUME NEW p \in Purgers, NotConfirmed(p) PROVE TypeOK'
  BY <1>16 DEF NotConfirmed, Goto, Fail, TypeOK, jobVars, assetVars, localVars, Reports
<1>17. ASSUME NEW p \in Purgers, RecordFailure(p) PROVE TypeOK'
  BY <1>17 DEF RecordFailure, Goto, ClaimValid, OutcomeAfter, TypeOK, jobVars, assetVars, localVars,
     States, Outcomes
<1>18. ASSUME NEW p \in Purgers, FailureNotRecorded(p) PROVE TypeOK'
  BY <1>18 DEF FailureNotRecorded, Goto, TypeOK, jobVars, assetVars, localVars
<1>19. ASSUME NEW p \in Purgers, Unlock(p) PROVE TypeOK'
  BY <1>19 DEF Unlock, Drop, Reset, Goto, TypeOK, jobVars, assetVars, localVars, Reports
<1>20. ASSUME NEW p \in Purgers, SessionLost(p) PROVE TypeOK'
  BY <1>20 DEF SessionLost, Drop, TypeOK, jobVars, assetVars, localVars
<1>21. ASSUME NEW p \in Purgers, Crash(p) PROVE TypeOK'
  BY <1>21 DEF Crash, Drop, Reset, Goto, TypeOK, jobVars, assetVars, localVars, Reports
<1>22. ASSUME NEW r \in open, TakeEffect(r) PROVE TypeOK'
  BY <1>22 DEF TakeEffect, TypeOK, jobVars, assetVars, localVars
<1>23. ASSUME Tick PROVE TypeOK'
  BY <1>23 DEF Tick, TypeOK, jobVars, assetVars, localVars
<1>24. ASSUME UNCHANGED vars PROVE TypeOK'
  BY <1>24 DEF vars, TypeOK, jobVars, assetVars, localVars
<1> QED
  BY <1>1, <1>2, <1>3, <1>4, <1>5, <1>6, <1>7, <1>8, <1>9, <1>10, <1>11,
     <1>12, <1>13, <1>14, <1>15, <1>16, <1>17, <1>18, <1>19, <1>20, <1>21, <1>22, <1>23, <1>24
  DEF Next, PurgerStep

\* RequestDeletion creates the job with the tombstone, Confirm completes it with
\* the purge, and no job is claimed after that.
LEMMA PhasesStep ==
  ASSUME TypeOK, Phases, [Next]_vars PROVE Phases'
<1>1. ASSUME NEW change \in {"hold", "lift"}, BeginProtect(change) PROVE Phases'
  BY <1>1 DEF BeginProtect, MayProtect, FenceFree, Phases, jobVars, assetVars, localVars
<1>2. ASSUME CommitProtect PROVE Phases'
  BY <1>2 DEF CommitProtect, Phases, jobVars, assetVars, localVars
<1>3. ASSUME AbortProtect PROVE Phases'
  BY <1>3 DEF AbortProtect, Phases, jobVars, assetVars, localVars
<1>4. ASSUME Lapse PROVE Phases'
  BY <1>4 DEF Lapse, Phases, jobVars, assetVars, localVars
<1>5. ASSUME RequestDeletion PROVE Phases'
  BY <1>5 DEF RequestDeletion, FenceFree, Phases, jobVars, assetVars, localVars
<1>6. ASSUME NEW p \in Purgers, TryFence(p) PROVE Phases'
  BY <1>6 DEF TryFence, FenceFree, Goto, Phases, jobVars, assetVars, localVars
<1>7. ASSUME NEW p \in Purgers, ClaimRefused(p) PROVE Phases'
  BY <1>7 DEF ClaimRefused, Goto, Phases, jobVars, assetVars, localVars, Parked
<1>8. ASSUME NEW p \in Purgers, ClaimProtected(p) PROVE Phases'
  BY <1>8 DEF ClaimProtected, Goto, Claimable, Phases, jobVars, assetVars, localVars, Parked
<1>9. ASSUME NEW p \in Purgers, NEW answered \in BOOLEAN, Claim(p, answered) PROVE Phases'
  BY <1>9 DEF Claim, Goto, Claimable, Phases, jobVars, assetVars, localVars, Parked
<1>10. ASSUME NEW p \in Purgers, NEW answered \in BOOLEAN, RecordDeleted(p, answered) PROVE Phases'
  BY <1>10 DEF RecordDeleted, Goto, Fail, ClaimValid, Phases, jobVars, assetVars, localVars
<1>11. ASSUME NEW p \in Purgers, NEW answered \in BOOLEAN, Confirm(p, answered) PROVE Phases'
  BY <1>11 DEF Confirm, Goto, Fail, ClaimValid, Phases, jobVars, assetVars, localVars
<1>12. ASSUME NEW p \in Purgers, StartDelete(p) PROVE Phases'
  BY <1>12 DEF StartDelete, Goto, Fail, Phases, jobVars, assetVars, localVars
<1>13. ASSUME NEW p \in Purgers, AnswerDeleted(p) PROVE Phases'
  BY <1>13 DEF AnswerDeleted, Goto, Phases, jobVars, assetVars, localVars
<1>14. ASSUME NEW p \in Purgers, AnswerRejected(p) PROVE Phases'
  BY <1>14 DEF AnswerRejected, Goto, Fail, Phases, jobVars, assetVars, localVars
<1>15. ASSUME NEW p \in Purgers, Unavailable(p) PROVE Phases'
  BY <1>15 DEF Unavailable, Goto, Fail, Phases, jobVars, assetVars, localVars
<1>16. ASSUME NEW p \in Purgers, NotConfirmed(p) PROVE Phases'
  BY <1>16 DEF NotConfirmed, Goto, Fail, Phases, jobVars, assetVars, localVars
<1>17. ASSUME NEW p \in Purgers, RecordFailure(p) PROVE Phases'
  BY <1>17 DEF RecordFailure, Goto, ClaimValid, OutcomeAfter, Phases, jobVars, assetVars, localVars
<1>18. ASSUME NEW p \in Purgers, FailureNotRecorded(p) PROVE Phases'
  BY <1>18 DEF FailureNotRecorded, Goto, Phases, jobVars, assetVars, localVars
<1>19. ASSUME NEW p \in Purgers, Unlock(p) PROVE Phases'
  BY <1>19 DEF Unlock, Drop, Reset, Goto, Phases, jobVars, assetVars, localVars
<1>20. ASSUME NEW p \in Purgers, SessionLost(p) PROVE Phases'
  BY <1>20 DEF SessionLost, Drop, Phases, jobVars, assetVars, localVars
<1>21. ASSUME NEW p \in Purgers, Crash(p) PROVE Phases'
  BY <1>21 DEF Crash, Drop, Reset, Goto, Phases, jobVars, assetVars, localVars
<1>22. ASSUME NEW r \in open, TakeEffect(r) PROVE Phases'
  BY <1>22 DEF TakeEffect, Phases, jobVars, assetVars, localVars
<1>23. ASSUME Tick PROVE Phases'
  BY <1>23 DEF Tick, Phases, jobVars, assetVars, localVars
<1>24. ASSUME UNCHANGED vars PROVE Phases'
  BY <1>24 DEF vars, Phases, jobVars, assetVars, localVars
<1> QED
  BY <1>1, <1>2, <1>3, <1>4, <1>5, <1>6, <1>7, <1>8, <1>9, <1>10, <1>11,
     <1>12, <1>13, <1>14, <1>15, <1>16, <1>17, <1>18, <1>19, <1>20, <1>21, <1>22, <1>23, <1>24
  DEF Next, PurgerStep

\* Only TryFence takes the fence, when no protecting transaction is open; an end
\* of the attempt or of the session gives it up.
LEMMA FencedStep ==
  ASSUME TypeOK, Fenced, [Next]_vars PROVE Fenced'
<1>1. ASSUME NEW change \in {"hold", "lift"}, BeginProtect(change) PROVE Fenced'
  BY <1>1, PurgeAssumption DEF BeginProtect, MayProtect, FenceFree, TypeOK, Fenced, jobVars,
     assetVars, localVars
<1>2. ASSUME CommitProtect PROVE Fenced'
  BY <1>2, PurgeAssumption DEF CommitProtect, TypeOK, Fenced, jobVars, assetVars, localVars
<1>3. ASSUME AbortProtect PROVE Fenced'
  BY <1>3, PurgeAssumption DEF AbortProtect, TypeOK, Fenced, jobVars, assetVars, localVars
<1>4. ASSUME Lapse PROVE Fenced'
  BY <1>4, PurgeAssumption DEF Lapse, TypeOK, Fenced, jobVars, assetVars, localVars
<1>5. ASSUME RequestDeletion PROVE Fenced'
  BY <1>5, PurgeAssumption DEF RequestDeletion, FenceFree, TypeOK, Fenced, jobVars, assetVars,
     localVars
<1>6. ASSUME NEW p \in Purgers, TryFence(p) PROVE Fenced'
  BY <1>6, PurgeAssumption DEF TryFence, FenceFree, Goto, TypeOK, Fenced, jobVars, assetVars,
     localVars
<1>7. ASSUME NEW p \in Purgers, ClaimRefused(p) PROVE Fenced'
  BY <1>7, PurgeAssumption DEF ClaimRefused, Goto, TypeOK, Fenced, jobVars, assetVars, localVars
<1>8. ASSUME NEW p \in Purgers, ClaimProtected(p) PROVE Fenced'
  BY <1>8, PurgeAssumption DEF ClaimProtected, Goto, Claimable, TypeOK, Fenced, jobVars, assetVars,
     localVars
<1>9. ASSUME NEW p \in Purgers, NEW answered \in BOOLEAN, Claim(p, answered) PROVE Fenced'
  BY <1>9, PurgeAssumption DEF Claim, Goto, Claimable, TypeOK, Fenced, jobVars, assetVars, localVars
<1>10. ASSUME NEW p \in Purgers, NEW answered \in BOOLEAN, RecordDeleted(p, answered) PROVE Fenced'
  BY <1>10, PurgeAssumption DEF RecordDeleted, Goto, Fail, ClaimValid, TypeOK, Fenced, jobVars,
     assetVars, localVars
<1>11. ASSUME NEW p \in Purgers, NEW answered \in BOOLEAN, Confirm(p, answered) PROVE Fenced'
  BY <1>11, PurgeAssumption DEF Confirm, Goto, Fail, ClaimValid, TypeOK, Fenced, jobVars, assetVars,
     localVars
<1>12. ASSUME NEW p \in Purgers, StartDelete(p) PROVE Fenced'
  BY <1>12, PurgeAssumption DEF StartDelete, Goto, Fail, TypeOK, Fenced, jobVars, assetVars,
     localVars
<1>13. ASSUME NEW p \in Purgers, AnswerDeleted(p) PROVE Fenced'
  BY <1>13, PurgeAssumption DEF AnswerDeleted, Goto, TypeOK, Fenced, jobVars, assetVars, localVars
<1>14. ASSUME NEW p \in Purgers, AnswerRejected(p) PROVE Fenced'
  BY <1>14, PurgeAssumption DEF AnswerRejected, Goto, Fail, TypeOK, Fenced, jobVars, assetVars,
     localVars
<1>15. ASSUME NEW p \in Purgers, Unavailable(p) PROVE Fenced'
  BY <1>15, PurgeAssumption DEF Unavailable, Goto, Fail, TypeOK, Fenced, jobVars, assetVars,
     localVars
<1>16. ASSUME NEW p \in Purgers, NotConfirmed(p) PROVE Fenced'
  BY <1>16, PurgeAssumption DEF NotConfirmed, Goto, Fail, TypeOK, Fenced, jobVars, assetVars,
     localVars
<1>17. ASSUME NEW p \in Purgers, RecordFailure(p) PROVE Fenced'
  BY <1>17, PurgeAssumption DEF RecordFailure, Goto, ClaimValid, OutcomeAfter, TypeOK, Fenced,
     jobVars, assetVars, localVars
<1>18. ASSUME NEW p \in Purgers, FailureNotRecorded(p) PROVE Fenced'
  BY <1>18, PurgeAssumption DEF FailureNotRecorded, Goto, TypeOK, Fenced, jobVars, assetVars,
     localVars
<1>19. ASSUME NEW p \in Purgers, Unlock(p) PROVE Fenced'
  BY <1>19, PurgeAssumption DEF Unlock, Drop, Reset, Goto, TypeOK, Fenced, jobVars, assetVars,
     localVars
<1>20. ASSUME NEW p \in Purgers, SessionLost(p) PROVE Fenced'
  BY <1>20, PurgeAssumption DEF SessionLost, Drop, TypeOK, Fenced, jobVars, assetVars, localVars
<1>21. ASSUME NEW p \in Purgers, Crash(p) PROVE Fenced'
  BY <1>21, PurgeAssumption DEF Crash, Drop, Reset, Goto, TypeOK, Fenced, jobVars, assetVars,
     localVars
<1>22. ASSUME NEW r \in open, TakeEffect(r) PROVE Fenced'
  BY <1>22, PurgeAssumption DEF TakeEffect, TypeOK, Fenced, jobVars, assetVars, localVars
<1>23. ASSUME Tick PROVE Fenced'
  BY <1>23, PurgeAssumption DEF Tick, TypeOK, Fenced, jobVars, assetVars, localVars
<1>24. ASSUME UNCHANGED vars PROVE Fenced'
  BY <1>24, PurgeAssumption DEF vars, TypeOK, Fenced, jobVars, assetVars, localVars
<1> QED
  BY <1>1, <1>2, <1>3, <1>4, <1>5, <1>6, <1>7, <1>8, <1>9, <1>10, <1>11,
     <1>12, <1>13, <1>14, <1>15, <1>16, <1>17, <1>18, <1>19, <1>20, <1>21, <1>22, <1>23, <1>24
  DEF Next, PurgerStep

\* A claim is written under the fence, of an unprotected asset; from then on its
\* lease refuses protections even when the fence is lost.
LEMMA ProtectedStep ==
  ASSUME TypeOK, Phases, Fenced, Protected, [Next]_vars PROVE Protected'
<1>1. ASSUME NEW change \in {"hold", "lift"}, BeginProtect(change) PROVE Protected'
  BY <1>1 DEF BeginProtect, MayProtect, FenceFree, Protected, LeaseActive, jobVars, assetVars,
     localVars
<1>2. ASSUME CommitProtect PROVE Protected'
  BY <1>2 DEF CommitProtect, Protected, LeaseActive, jobVars, assetVars, localVars
<1>3. ASSUME AbortProtect PROVE Protected'
  BY <1>3 DEF AbortProtect, Protected, LeaseActive, jobVars, assetVars, localVars
<1>4. ASSUME Lapse PROVE Protected'
  BY <1>4 DEF Lapse, Protected, LeaseActive, jobVars, assetVars, localVars
<1>5. ASSUME RequestDeletion PROVE Protected'
  BY <1>5 DEF RequestDeletion, FenceFree, Protected, LeaseActive, jobVars, assetVars, localVars,
     Phases
<1>6. ASSUME NEW p \in Purgers, TryFence(p) PROVE Protected'
  BY <1>6 DEF TryFence, FenceFree, Goto, Protected, LeaseActive, jobVars, assetVars, localVars
<1>7. ASSUME NEW p \in Purgers, ClaimRefused(p) PROVE Protected'
  BY <1>7 DEF ClaimRefused, Goto, Protected, LeaseActive, jobVars, assetVars, localVars
<1>8. ASSUME NEW p \in Purgers, ClaimProtected(p) PROVE Protected'
  BY <1>8 DEF ClaimProtected, Goto, Claimable, Protected, LeaseActive, jobVars, assetVars, localVars,
     TypeOK
<1>9. ASSUME NEW p \in Purgers, NEW answered \in BOOLEAN, Claim(p, answered) PROVE Protected'
  BY <1>9, PurgeAssumption DEF Claim, Goto, Claimable, Protected, LeaseActive, jobVars, assetVars,
     localVars, TypeOK, Fenced, Phases, Parked, States
<1>10. ASSUME NEW p \in Purgers, NEW answered \in BOOLEAN, RecordDeleted(p, answered) PROVE Protected'
  BY <1>10 DEF RecordDeleted, Goto, Fail, ClaimValid, Protected, LeaseActive, jobVars, assetVars,
     localVars
<1>11. ASSUME NEW p \in Purgers, NEW answered \in BOOLEAN, Confirm(p, answered) PROVE Protected'
  BY <1>11 DEF Confirm, Goto, Fail, ClaimValid, Protected, LeaseActive, jobVars, assetVars,
     localVars, TypeOK
<1>12. ASSUME NEW p \in Purgers, StartDelete(p) PROVE Protected'
  BY <1>12 DEF StartDelete, Goto, Fail, Protected, LeaseActive, jobVars, assetVars, localVars
<1>13. ASSUME NEW p \in Purgers, AnswerDeleted(p) PROVE Protected'
  BY <1>13 DEF AnswerDeleted, Goto, Protected, LeaseActive, jobVars, assetVars, localVars
<1>14. ASSUME NEW p \in Purgers, AnswerRejected(p) PROVE Protected'
  BY <1>14 DEF AnswerRejected, Goto, Fail, Protected, LeaseActive, jobVars, assetVars, localVars
<1>15. ASSUME NEW p \in Purgers, Unavailable(p) PROVE Protected'
  BY <1>15 DEF Unavailable, Goto, Fail, Protected, LeaseActive, jobVars, assetVars, localVars
<1>16. ASSUME NEW p \in Purgers, NotConfirmed(p) PROVE Protected'
  BY <1>16 DEF NotConfirmed, Goto, Fail, Protected, LeaseActive, jobVars, assetVars, localVars
<1>17. ASSUME NEW p \in Purgers, RecordFailure(p) PROVE Protected'
  BY <1>17 DEF RecordFailure, Goto, ClaimValid, OutcomeAfter, Protected, LeaseActive, jobVars,
     assetVars, localVars
<1>18. ASSUME NEW p \in Purgers, FailureNotRecorded(p) PROVE Protected'
  BY <1>18 DEF FailureNotRecorded, Goto, Protected, LeaseActive, jobVars, assetVars, localVars
<1>19. ASSUME NEW p \in Purgers, Unlock(p) PROVE Protected'
  BY <1>19 DEF Unlock, Drop, Reset, Goto, Protected, LeaseActive, jobVars, assetVars, localVars
<1>20. ASSUME NEW p \in Purgers, SessionLost(p) PROVE Protected'
  BY <1>20 DEF SessionLost, Drop, Protected, LeaseActive, jobVars, assetVars, localVars
<1>21. ASSUME NEW p \in Purgers, Crash(p) PROVE Protected'
  BY <1>21 DEF Crash, Drop, Reset, Goto, Protected, LeaseActive, jobVars, assetVars, localVars
<1>22. ASSUME NEW r \in open, TakeEffect(r) PROVE Protected'
  BY <1>22 DEF TakeEffect, Protected, LeaseActive, jobVars, assetVars, localVars
<1>23. ASSUME Tick PROVE Protected'
  BY <1>23 DEF Tick, Protected, LeaseActive, jobVars, assetVars, localVars, TypeOK
<1>24. ASSUME UNCHANGED vars PROVE Protected'
  BY <1>24 DEF vars, Protected, LeaseActive, jobVars, assetVars, localVars
<1> QED
  BY <1>1, <1>2, <1>3, <1>4, <1>5, <1>6, <1>7, <1>8, <1>9, <1>10, <1>11,
     <1>12, <1>13, <1>14, <1>15, <1>16, <1>17, <1>18, <1>19, <1>20, <1>21, <1>22, <1>23, <1>24
  DEF Next, PurgerStep

\* Only Claim gives a purger an id, a fresh one.
LEMMA DistinctStep ==
  ASSUME TypeOK, InFlight, Distinct, [Next]_vars PROVE Distinct'
<1>1. ASSUME NEW change \in {"hold", "lift"}, BeginProtect(change) PROVE Distinct'
  BY <1>1 DEF BeginProtect, MayProtect, FenceFree, TypeOK, Distinct, jobVars, assetVars, localVars
<1>2. ASSUME CommitProtect PROVE Distinct'
  BY <1>2 DEF CommitProtect, TypeOK, Distinct, jobVars, assetVars, localVars
<1>3. ASSUME AbortProtect PROVE Distinct'
  BY <1>3 DEF AbortProtect, TypeOK, Distinct, jobVars, assetVars, localVars
<1>4. ASSUME Lapse PROVE Distinct'
  BY <1>4 DEF Lapse, TypeOK, Distinct, jobVars, assetVars, localVars
<1>5. ASSUME RequestDeletion PROVE Distinct'
  BY <1>5 DEF RequestDeletion, FenceFree, TypeOK, Distinct, jobVars, assetVars, localVars
<1>6. ASSUME NEW p \in Purgers, TryFence(p) PROVE Distinct'
  BY <1>6 DEF TryFence, FenceFree, Goto, TypeOK, Distinct, jobVars, assetVars, localVars
<1>7. ASSUME NEW p \in Purgers, ClaimRefused(p) PROVE Distinct'
  BY <1>7 DEF ClaimRefused, Goto, TypeOK, Distinct, jobVars, assetVars, localVars
<1>8. ASSUME NEW p \in Purgers, ClaimProtected(p) PROVE Distinct'
  BY <1>8 DEF ClaimProtected, Goto, Claimable, TypeOK, Distinct, jobVars, assetVars, localVars
<1>9. ASSUME NEW p \in Purgers, NEW answered \in BOOLEAN, Claim(p, answered) PROVE Distinct'
  BY <1>9 DEF Claim, Goto, Claimable, TypeOK, Distinct, jobVars, assetVars, localVars
<1>10. ASSUME NEW p \in Purgers, NEW answered \in BOOLEAN, RecordDeleted(p, answered) PROVE Distinct'
  BY <1>10 DEF RecordDeleted, Goto, Fail, ClaimValid, TypeOK, Distinct, jobVars, assetVars,
     localVars
<1>11. ASSUME NEW p \in Purgers, NEW answered \in BOOLEAN, Confirm(p, answered) PROVE Distinct'
  BY <1>11 DEF Confirm, Goto, Fail, ClaimValid, TypeOK, Distinct, jobVars, assetVars, localVars
<1>12. ASSUME NEW p \in Purgers, StartDelete(p) PROVE Distinct'
  BY <1>12 DEF StartDelete, Goto, Fail, TypeOK, Distinct, jobVars, assetVars, localVars
<1>13. ASSUME NEW p \in Purgers, AnswerDeleted(p) PROVE Distinct'
  BY <1>13 DEF AnswerDeleted, Goto, TypeOK, Distinct, jobVars, assetVars, localVars
<1>14. ASSUME NEW p \in Purgers, AnswerRejected(p) PROVE Distinct'
  BY <1>14 DEF AnswerRejected, Goto, Fail, TypeOK, Distinct, jobVars, assetVars, localVars
<1>15. ASSUME NEW p \in Purgers, Unavailable(p) PROVE Distinct'
  BY <1>15 DEF Unavailable, Goto, Fail, TypeOK, Distinct, jobVars, assetVars, localVars
<1>16. ASSUME NEW p \in Purgers, NotConfirmed(p) PROVE Distinct'
  BY <1>16 DEF NotConfirmed, Goto, Fail, TypeOK, Distinct, jobVars, assetVars, localVars
<1>17. ASSUME NEW p \in Purgers, RecordFailure(p) PROVE Distinct'
  BY <1>17 DEF RecordFailure, Goto, ClaimValid, OutcomeAfter, TypeOK, Distinct, jobVars, assetVars,
     localVars
<1>18. ASSUME NEW p \in Purgers, FailureNotRecorded(p) PROVE Distinct'
  BY <1>18 DEF FailureNotRecorded, Goto, TypeOK, Distinct, jobVars, assetVars, localVars
<1>19. ASSUME NEW p \in Purgers, Unlock(p) PROVE Distinct'
  BY <1>19 DEF Unlock, Drop, Reset, Goto, TypeOK, Distinct, jobVars, assetVars, localVars
<1>20. ASSUME NEW p \in Purgers, SessionLost(p) PROVE Distinct'
  BY <1>20 DEF SessionLost, Drop, TypeOK, Distinct, jobVars, assetVars, localVars
<1>21. ASSUME NEW p \in Purgers, Crash(p) PROVE Distinct'
  BY <1>21 DEF Crash, Drop, Reset, Goto, TypeOK, Distinct, jobVars, assetVars, localVars
<1>22. ASSUME NEW r \in open, TakeEffect(r) PROVE Distinct'
  BY <1>22 DEF TakeEffect, TypeOK, Distinct, jobVars, assetVars, localVars, InFlight
<1>23. ASSUME Tick PROVE Distinct'
  BY <1>23 DEF Tick, TypeOK, Distinct, jobVars, assetVars, localVars
<1>24. ASSUME UNCHANGED vars PROVE Distinct'
  BY <1>24 DEF vars, TypeOK, Distinct, jobVars, assetVars, localVars
<1> QED
  BY <1>1, <1>2, <1>3, <1>4, <1>5, <1>6, <1>7, <1>8, <1>9, <1>10, <1>11,
     <1>12, <1>13, <1>14, <1>15, <1>16, <1>17, <1>18, <1>19, <1>20, <1>21, <1>22, <1>23, <1>24
  DEF Next, PurgerStep

\* StartDelete is the step to look at: the claim is current, its lease outlasts
\* the request, and the claim has sent nothing before.  Then no other claim is
\* written before the request has ended.
LEMMA InFlightStep ==
  ASSUME TypeOK, Distinct, InFlight, Leased, Witnessed, [Next]_vars PROVE InFlight'
<1>1. ASSUME NEW change \in {"hold", "lift"}, BeginProtect(change) PROVE InFlight'
  BY <1>1 DEF BeginProtect, MayProtect, FenceFree, TypeOK, InFlight, jobVars, assetVars, localVars
<1>2. ASSUME CommitProtect PROVE InFlight'
  BY <1>2 DEF CommitProtect, TypeOK, InFlight, jobVars, assetVars, localVars
<1>3. ASSUME AbortProtect PROVE InFlight'
  BY <1>3 DEF AbortProtect, TypeOK, InFlight, jobVars, assetVars, localVars
<1>4. ASSUME Lapse PROVE InFlight'
  BY <1>4 DEF Lapse, TypeOK, InFlight, jobVars, assetVars, localVars
<1>5. ASSUME RequestDeletion PROVE InFlight'
  BY <1>5 DEF RequestDeletion, FenceFree, TypeOK, InFlight, jobVars, assetVars, localVars
<1>6. ASSUME NEW p \in Purgers, TryFence(p) PROVE InFlight'
  BY <1>6 DEF TryFence, FenceFree, Goto, TypeOK, InFlight, jobVars, assetVars, localVars
<1>7. ASSUME NEW p \in Purgers, ClaimRefused(p) PROVE InFlight'
  BY <1>7 DEF ClaimRefused, Goto, TypeOK, InFlight, jobVars, assetVars, localVars
<1>8. ASSUME NEW p \in Purgers, ClaimProtected(p) PROVE InFlight'
  BY <1>8 DEF ClaimProtected, Goto, Claimable, TypeOK, InFlight, jobVars, assetVars, localVars,
     LeaseActive
<1>9. ASSUME NEW p \in Purgers, NEW answered \in BOOLEAN, Claim(p, answered) PROVE InFlight'
  BY <1>9 DEF Claim, Goto, Claimable, TypeOK, InFlight, jobVars, assetVars, localVars, LeaseActive
<1>10. ASSUME NEW p \in Purgers, NEW answered \in BOOLEAN, RecordDeleted(p, answered) PROVE InFlight'
  BY <1>10 DEF RecordDeleted, Goto, Fail, ClaimValid, TypeOK, InFlight, jobVars, assetVars,
     localVars
<1>11. ASSUME NEW p \in Purgers, NEW answered \in BOOLEAN, Confirm(p, answered) PROVE InFlight'
  BY <1>11 DEF Confirm, Goto, Fail, ClaimValid, TypeOK, InFlight, jobVars, assetVars, localVars,
     Witnessed
<1>12. ASSUME NEW p \in Purgers, StartDelete(p) PROVE InFlight'
  BY <1>12, PurgeAssumption DEF StartDelete, Goto, Fail, TypeOK, InFlight, jobVars, assetVars,
     localVars, Leased, Witnessed, Harmless, Distinct
<1>13. ASSUME NEW p \in Purgers, AnswerDeleted(p) PROVE InFlight'
  BY <1>13 DEF AnswerDeleted, Goto, TypeOK, InFlight, jobVars, assetVars, localVars
<1>14. ASSUME NEW p \in Purgers, AnswerRejected(p) PROVE InFlight'
  BY <1>14 DEF AnswerRejected, Goto, Fail, TypeOK, InFlight, jobVars, assetVars, localVars
<1>15. ASSUME NEW p \in Purgers, Unavailable(p) PROVE InFlight'
  BY <1>15 DEF Unavailable, Goto, Fail, TypeOK, InFlight, jobVars, assetVars, localVars
<1>16. ASSUME NEW p \in Purgers, NotConfirmed(p) PROVE InFlight'
  BY <1>16 DEF NotConfirmed, Goto, Fail, TypeOK, InFlight, jobVars, assetVars, localVars
<1>17. ASSUME NEW p \in Purgers, RecordFailure(p) PROVE InFlight'
  BY <1>17 DEF RecordFailure, Goto, ClaimValid, OutcomeAfter, TypeOK, InFlight, jobVars, assetVars,
     localVars, Witnessed, Harmless, Outcomes
<1>18. ASSUME NEW p \in Purgers, FailureNotRecorded(p) PROVE InFlight'
  BY <1>18 DEF FailureNotRecorded, Goto, TypeOK, InFlight, jobVars, assetVars, localVars
<1>19. ASSUME NEW p \in Purgers, Unlock(p) PROVE InFlight'
  BY <1>19 DEF Unlock, Drop, Reset, Goto, TypeOK, InFlight, jobVars, assetVars, localVars
<1>20. ASSUME NEW p \in Purgers, SessionLost(p) PROVE InFlight'
  BY <1>20 DEF SessionLost, Drop, TypeOK, InFlight, jobVars, assetVars, localVars
<1>21. ASSUME NEW p \in Purgers, Crash(p) PROVE InFlight'
  BY <1>21 DEF Crash, Drop, Reset, Goto, TypeOK, InFlight, jobVars, assetVars, localVars
<1>22. ASSUME NEW r \in open, TakeEffect(r) PROVE InFlight'
  BY <1>22 DEF TakeEffect, TypeOK, InFlight, jobVars, assetVars, localVars
<1>23. ASSUME Tick PROVE InFlight'
  BY <1>23 DEF Tick, TypeOK, InFlight, jobVars, assetVars, localVars
<1>24. ASSUME UNCHANGED vars PROVE InFlight'
  BY <1>24 DEF vars, TypeOK, InFlight, jobVars, assetVars, localVars
<1> QED
  BY <1>1, <1>2, <1>3, <1>4, <1>5, <1>6, <1>7, <1>8, <1>9, <1>10, <1>11,
     <1>12, <1>13, <1>14, <1>15, <1>16, <1>17, <1>18, <1>19, <1>20, <1>21, <1>22, <1>23, <1>24
  DEF Next, PurgerStep

\* A claim that may still start its DELETE has an active lease, so nobody claims
\* or parks the job, and no other purger can report on it.
LEMMA LeasedStep ==
  ASSUME TypeOK, Distinct, Leased, [Next]_vars PROVE Leased'
<1>1. ASSUME NEW change \in {"hold", "lift"}, BeginProtect(change) PROVE Leased'
  BY <1>1 DEF BeginProtect, MayProtect, FenceFree, TypeOK, Leased, jobVars, assetVars, localVars
<1>2. ASSUME CommitProtect PROVE Leased'
  BY <1>2 DEF CommitProtect, TypeOK, Leased, jobVars, assetVars, localVars
<1>3. ASSUME AbortProtect PROVE Leased'
  BY <1>3 DEF AbortProtect, TypeOK, Leased, jobVars, assetVars, localVars
<1>4. ASSUME Lapse PROVE Leased'
  BY <1>4 DEF Lapse, TypeOK, Leased, jobVars, assetVars, localVars
<1>5. ASSUME RequestDeletion PROVE Leased'
  BY <1>5 DEF RequestDeletion, FenceFree, TypeOK, Leased, jobVars, assetVars, localVars
<1>6. ASSUME NEW p \in Purgers, TryFence(p) PROVE Leased'
  BY <1>6 DEF TryFence, FenceFree, Goto, TypeOK, Leased, jobVars, assetVars, localVars
<1>7. ASSUME NEW p \in Purgers, ClaimRefused(p) PROVE Leased'
  BY <1>7 DEF ClaimRefused, Goto, TypeOK, Leased, jobVars, assetVars, localVars
<1>8. ASSUME NEW p \in Purgers, ClaimProtected(p) PROVE Leased'
  BY <1>8, PurgeAssumption DEF ClaimProtected, Goto, Claimable, TypeOK, Leased, jobVars, assetVars,
     localVars, LeaseActive
<1>9. ASSUME NEW p \in Purgers, NEW answered \in BOOLEAN, Claim(p, answered) PROVE Leased'
  BY <1>9, PurgeAssumption DEF Claim, Goto, Claimable, TypeOK, Leased, jobVars, assetVars, localVars,
     LeaseActive
<1>10. ASSUME NEW p \in Purgers, NEW answered \in BOOLEAN, RecordDeleted(p, answered) PROVE Leased'
  BY <1>10 DEF RecordDeleted, Goto, Fail, ClaimValid, TypeOK, Leased, jobVars, assetVars, localVars,
     Distinct
<1>11. ASSUME NEW p \in Purgers, NEW answered \in BOOLEAN, Confirm(p, answered) PROVE Leased'
  BY <1>11 DEF Confirm, Goto, Fail, ClaimValid, TypeOK, Leased, jobVars, assetVars, localVars,
     Distinct
<1>12. ASSUME NEW p \in Purgers, StartDelete(p) PROVE Leased'
  BY <1>12 DEF StartDelete, Goto, Fail, TypeOK, Leased, jobVars, assetVars, localVars
<1>13. ASSUME NEW p \in Purgers, AnswerDeleted(p) PROVE Leased'
  BY <1>13 DEF AnswerDeleted, Goto, TypeOK, Leased, jobVars, assetVars, localVars
<1>14. ASSUME NEW p \in Purgers, AnswerRejected(p) PROVE Leased'
  BY <1>14 DEF AnswerRejected, Goto, Fail, TypeOK, Leased, jobVars, assetVars, localVars
<1>15. ASSUME NEW p \in Purgers, Unavailable(p) PROVE Leased'
  BY <1>15 DEF Unavailable, Goto, Fail, TypeOK, Leased, jobVars, assetVars, localVars
<1>16. ASSUME NEW p \in Purgers, NotConfirmed(p) PROVE Leased'
  BY <1>16 DEF NotConfirmed, Goto, Fail, TypeOK, Leased, jobVars, assetVars, localVars
<1>17. ASSUME NEW p \in Purgers, RecordFailure(p) PROVE Leased'
  BY <1>17 DEF RecordFailure, Goto, ClaimValid, OutcomeAfter, TypeOK, Leased, jobVars, assetVars,
     localVars, Distinct
<1>18. ASSUME NEW p \in Purgers, FailureNotRecorded(p) PROVE Leased'
  BY <1>18 DEF FailureNotRecorded, Goto, TypeOK, Leased, jobVars, assetVars, localVars
<1>19. ASSUME NEW p \in Purgers, Unlock(p) PROVE Leased'
  BY <1>19 DEF Unlock, Drop, Reset, Goto, TypeOK, Leased, jobVars, assetVars, localVars
<1>20. ASSUME NEW p \in Purgers, SessionLost(p) PROVE Leased'
  BY <1>20 DEF SessionLost, Drop, TypeOK, Leased, jobVars, assetVars, localVars
<1>21. ASSUME NEW p \in Purgers, Crash(p) PROVE Leased'
  BY <1>21 DEF Crash, Drop, Reset, Goto, TypeOK, Leased, jobVars, assetVars, localVars
<1>22. ASSUME NEW r \in open, TakeEffect(r) PROVE Leased'
  BY <1>22 DEF TakeEffect, TypeOK, Leased, jobVars, assetVars, localVars
<1>23. ASSUME Tick PROVE Leased'
  BY <1>23, PurgeAssumption DEF Tick, TypeOK, Leased, jobVars, assetVars, localVars
<1>24. ASSUME UNCHANGED vars PROVE Leased'
  BY <1>24 DEF vars, TypeOK, Leased, jobVars, assetVars, localVars
<1> QED
  BY <1>1, <1>2, <1>3, <1>4, <1>5, <1>6, <1>7, <1>8, <1>9, <1>10, <1>11,
     <1>12, <1>13, <1>14, <1>15, <1>16, <1>17, <1>18, <1>19, <1>20, <1>21, <1>22, <1>23, <1>24
  DEF Next, PurgerStep

\* A refusal removes the request it answers; nobody else sends one for the claim.
LEMMA WitnessedStep ==
  ASSUME TypeOK, Distinct, InFlight, Witnessed, [Next]_vars PROVE Witnessed'
<1>1. ASSUME NEW change \in {"hold", "lift"}, BeginProtect(change) PROVE Witnessed'
  BY <1>1 DEF BeginProtect, MayProtect, FenceFree, TypeOK, Witnessed, Harmless, jobVars, assetVars,
     localVars
<1>2. ASSUME CommitProtect PROVE Witnessed'
  BY <1>2 DEF CommitProtect, TypeOK, Witnessed, Harmless, jobVars, assetVars, localVars
<1>3. ASSUME AbortProtect PROVE Witnessed'
  BY <1>3 DEF AbortProtect, TypeOK, Witnessed, Harmless, jobVars, assetVars, localVars
<1>4. ASSUME Lapse PROVE Witnessed'
  BY <1>4 DEF Lapse, TypeOK, Witnessed, Harmless, jobVars, assetVars, localVars
<1>5. ASSUME RequestDeletion PROVE Witnessed'
  BY <1>5 DEF RequestDeletion, FenceFree, TypeOK, Witnessed, Harmless, jobVars, assetVars, localVars
<1>6. ASSUME NEW p \in Purgers, TryFence(p) PROVE Witnessed'
  BY <1>6 DEF TryFence, FenceFree, Goto, TypeOK, Witnessed, Harmless, jobVars, assetVars, localVars
<1>7. ASSUME NEW p \in Purgers, ClaimRefused(p) PROVE Witnessed'
  BY <1>7 DEF ClaimRefused, Goto, TypeOK, Witnessed, Harmless, jobVars, assetVars, localVars
<1>8. ASSUME NEW p \in Purgers, ClaimProtected(p) PROVE Witnessed'
  BY <1>8 DEF ClaimProtected, Goto, Claimable, TypeOK, Witnessed, Harmless, jobVars, assetVars,
     localVars
<1>9. ASSUME NEW p \in Purgers, NEW answered \in BOOLEAN, Claim(p, answered) PROVE Witnessed'
  BY <1>9 DEF Claim, Goto, Claimable, TypeOK, Witnessed, Harmless, jobVars, assetVars, localVars,
     Distinct, InFlight
<1>10. ASSUME NEW p \in Purgers, NEW answered \in BOOLEAN, RecordDeleted(p, answered) PROVE Witnessed'
  BY <1>10 DEF RecordDeleted, Goto, Fail, ClaimValid, TypeOK, Witnessed, Harmless, jobVars,
     assetVars, localVars
<1>11. ASSUME NEW p \in Purgers, NEW answered \in BOOLEAN, Confirm(p, answered) PROVE Witnessed'
  BY <1>11 DEF Confirm, Goto, Fail, ClaimValid, TypeOK, Witnessed, Harmless, jobVars, assetVars,
     localVars
<1>12. ASSUME NEW p \in Purgers, StartDelete(p) PROVE Witnessed'
  BY <1>12 DEF StartDelete, Goto, Fail, TypeOK, Witnessed, Harmless, jobVars, assetVars, localVars,
     Distinct
<1>13. ASSUME NEW p \in Purgers, AnswerDeleted(p) PROVE Witnessed'
  BY <1>13 DEF AnswerDeleted, Goto, TypeOK, Witnessed, Harmless, jobVars, assetVars, localVars
<1>14. ASSUME NEW p \in Purgers, AnswerRejected(p) PROVE Witnessed'
  BY <1>14 DEF AnswerRejected, Goto, Fail, TypeOK, Witnessed, Harmless, jobVars, assetVars,
     localVars
<1>15. ASSUME NEW p \in Purgers, Unavailable(p) PROVE Witnessed'
  BY <1>15 DEF Unavailable, Goto, Fail, TypeOK, Witnessed, Harmless, jobVars, assetVars, localVars
<1>16. ASSUME NEW p \in Purgers, NotConfirmed(p) PROVE Witnessed'
  BY <1>16 DEF NotConfirmed, Goto, Fail, TypeOK, Witnessed, Harmless, jobVars, assetVars, localVars
<1>17. ASSUME NEW p \in Purgers, RecordFailure(p) PROVE Witnessed'
  BY <1>17 DEF RecordFailure, Goto, ClaimValid, OutcomeAfter, TypeOK, Witnessed, Harmless, jobVars,
     assetVars, localVars
<1>18. ASSUME NEW p \in Purgers, FailureNotRecorded(p) PROVE Witnessed'
  BY <1>18 DEF FailureNotRecorded, Goto, TypeOK, Witnessed, Harmless, jobVars, assetVars, localVars
<1>19. ASSUME NEW p \in Purgers, Unlock(p) PROVE Witnessed'
  BY <1>19 DEF Unlock, Drop, Reset, Goto, TypeOK, Witnessed, Harmless, jobVars, assetVars, localVars
<1>20. ASSUME NEW p \in Purgers, SessionLost(p) PROVE Witnessed'
  BY <1>20 DEF SessionLost, Drop, TypeOK, Witnessed, Harmless, jobVars, assetVars, localVars
<1>21. ASSUME NEW p \in Purgers, Crash(p) PROVE Witnessed'
  BY <1>21 DEF Crash, Drop, Reset, Goto, TypeOK, Witnessed, Harmless, jobVars, assetVars, localVars
<1>22. ASSUME NEW r \in open, TakeEffect(r) PROVE Witnessed'
  BY <1>22 DEF TakeEffect, TypeOK, Witnessed, Harmless, jobVars, assetVars, localVars, InFlight
<1>23. ASSUME Tick PROVE Witnessed'
  BY <1>23 DEF Tick, TypeOK, Witnessed, Harmless, jobVars, assetVars, localVars
<1>24. ASSUME UNCHANGED vars PROVE Witnessed'
  BY <1>24 DEF vars, TypeOK, Witnessed, Harmless, jobVars, assetVars, localVars
<1> QED
  BY <1>1, <1>2, <1>3, <1>4, <1>5, <1>6, <1>7, <1>8, <1>9, <1>10, <1>11,
     <1>12, <1>13, <1>14, <1>15, <1>16, <1>17, <1>18, <1>19, <1>20, <1>21, <1>22, <1>23, <1>24
  DEF Next, PurgerStep

\* RecordFailure is the step to look at: it may only go back to what was known
\* before the claim when the claim is Harmless.
LEMMA KnownStep ==
  ASSUME TypeOK, Distinct, InFlight, Witnessed, Known, [Next]_vars PROVE Known'
<1>1. ASSUME NEW change \in {"hold", "lift"}, BeginProtect(change) PROVE Known'
  BY <1>1 DEF BeginProtect, MayProtect, FenceFree, TypeOK, Known, jobVars, assetVars, localVars
<1>2. ASSUME CommitProtect PROVE Known'
  BY <1>2 DEF CommitProtect, TypeOK, Known, jobVars, assetVars, localVars
<1>3. ASSUME AbortProtect PROVE Known'
  BY <1>3 DEF AbortProtect, TypeOK, Known, jobVars, assetVars, localVars
<1>4. ASSUME Lapse PROVE Known'
  BY <1>4 DEF Lapse, TypeOK, Known, jobVars, assetVars, localVars
<1>5. ASSUME RequestDeletion PROVE Known'
  BY <1>5 DEF RequestDeletion, FenceFree, TypeOK, Known, jobVars, assetVars, localVars
<1>6. ASSUME NEW p \in Purgers, TryFence(p) PROVE Known'
  BY <1>6 DEF TryFence, FenceFree, Goto, TypeOK, Known, jobVars, assetVars, localVars
<1>7. ASSUME NEW p \in Purgers, ClaimRefused(p) PROVE Known'
  BY <1>7 DEF ClaimRefused, Goto, TypeOK, Known, jobVars, assetVars, localVars
<1>8. ASSUME NEW p \in Purgers, ClaimProtected(p) PROVE Known'
  BY <1>8 DEF ClaimProtected, Goto, Claimable, TypeOK, Known, jobVars, assetVars, localVars,
     Outcomes
<1>9. ASSUME NEW p \in Purgers, NEW answered \in BOOLEAN, Claim(p, answered) PROVE Known'
  BY <1>9 DEF Claim, Goto, Claimable, TypeOK, Known, jobVars, assetVars, localVars, Distinct,
     Outcomes
<1>10. ASSUME NEW p \in Purgers, NEW answered \in BOOLEAN, RecordDeleted(p, answered) PROVE Known'
  BY <1>10 DEF RecordDeleted, Goto, Fail, ClaimValid, TypeOK, Known, jobVars, assetVars, localVars,
     Witnessed
<1>11. ASSUME NEW p \in Purgers, NEW answered \in BOOLEAN, Confirm(p, answered) PROVE Known'
  BY <1>11 DEF Confirm, Goto, Fail, ClaimValid, TypeOK, Known, jobVars, assetVars, localVars
<1>12. ASSUME NEW p \in Purgers, StartDelete(p) PROVE Known'
  BY <1>12 DEF StartDelete, Goto, Fail, TypeOK, Known, jobVars, assetVars, localVars
<1>13. ASSUME NEW p \in Purgers, AnswerDeleted(p) PROVE Known'
  BY <1>13 DEF AnswerDeleted, Goto, TypeOK, Known, jobVars, assetVars, localVars
<1>14. ASSUME NEW p \in Purgers, AnswerRejected(p) PROVE Known'
  BY <1>14 DEF AnswerRejected, Goto, Fail, TypeOK, Known, jobVars, assetVars, localVars
<1>15. ASSUME NEW p \in Purgers, Unavailable(p) PROVE Known'
  BY <1>15 DEF Unavailable, Goto, Fail, TypeOK, Known, jobVars, assetVars, localVars
<1>16. ASSUME NEW p \in Purgers, NotConfirmed(p) PROVE Known'
  BY <1>16 DEF NotConfirmed, Goto, Fail, TypeOK, Known, jobVars, assetVars, localVars
<1>17. ASSUME NEW p \in Purgers, RecordFailure(p) PROVE Known'
  BY <1>17 DEF RecordFailure, Goto, ClaimValid, OutcomeAfter, TypeOK, Known, jobVars, assetVars,
     localVars, Witnessed, Harmless, Distinct
<1>18. ASSUME NEW p \in Purgers, FailureNotRecorded(p) PROVE Known'
  BY <1>18 DEF FailureNotRecorded, Goto, TypeOK, Known, jobVars, assetVars, localVars
<1>19. ASSUME NEW p \in Purgers, Unlock(p) PROVE Known'
  BY <1>19 DEF Unlock, Drop, Reset, Goto, TypeOK, Known, jobVars, assetVars, localVars
<1>20. ASSUME NEW p \in Purgers, SessionLost(p) PROVE Known'
  BY <1>20 DEF SessionLost, Drop, TypeOK, Known, jobVars, assetVars, localVars
<1>21. ASSUME NEW p \in Purgers, Crash(p) PROVE Known'
  BY <1>21 DEF Crash, Drop, Reset, Goto, TypeOK, Known, jobVars, assetVars, localVars
<1>22. ASSUME NEW r \in open, TakeEffect(r) PROVE Known'
  BY <1>22 DEF TakeEffect, TypeOK, Known, jobVars, assetVars, localVars, InFlight
<1>23. ASSUME Tick PROVE Known'
  BY <1>23 DEF Tick, TypeOK, Known, jobVars, assetVars, localVars
<1>24. ASSUME UNCHANGED vars PROVE Known'
  BY <1>24 DEF vars, TypeOK, Known, jobVars, assetVars, localVars
<1> QED
  BY <1>1, <1>2, <1>3, <1>4, <1>5, <1>6, <1>7, <1>8, <1>9, <1>10, <1>11,
     <1>12, <1>13, <1>14, <1>15, <1>16, <1>17, <1>18, <1>19, <1>20, <1>21, <1>22, <1>23, <1>24
  DEF Next, PurgerStep

\* The argument as a whole: IInv holds initially and every step keeps it.
THEOREM Invariant == Spec => []IInv
<1>1. Init => IInv
  BY PurgeAssumption
  DEF Init, IInv, TypeOK, States, Parked, Outcomes, Reports, Phases, Fenced, Protected, LeaseActive,
      Distinct, InFlight, Leased, Witnessed, Harmless, Known
<1>2. IInv /\ [Next]_vars => IInv'
  BY TypeStep, PhasesStep, FencedStep, ProtectedStep, DistinctStep, InFlightStep, LeasedStep,
     WitnessedStep, KnownStep
  DEF IInv
<1> QED
  BY <1>1, <1>2, PTL DEF Spec

\* The asset, its job and the purgers keep their types.
THEOREM TypeCorrect == Spec => []TypeOK
  BY Invariant, PTL DEF IInv

\* For as long as R2 may execute a DELETE nothing protects the asset, even if
\* the purger that sent it lost its session and the fence, or died.
THEOREM OnlyUnprotected == Spec => []DeletesOnlyUnprotected
<1>1. IInv => DeletesOnlyUnprotected
  BY DEF IInv, TypeOK, InFlight, Protected, LeaseActive, DeletesOnlyUnprotected
<1> QED
  BY <1>1, Invariant, PTL

\* The job never denies a deletion that may have happened.
THEOREM LossIsKnown == Spec => []NoSilentLoss
<1>1. IInv => NoSilentLoss
  BY DEF IInv, TypeOK, Known, NoSilentLoss
<1> QED
  BY <1>1, Invariant, PTL

\* A purged asset has no object, and its job says so.
THEOREM PurgedIsGone == Spec => []PurgedMeansGone
<1>1. IInv => PurgedMeansGone
  BY DEF IInv, Phases, Known, PurgedMeansGone
<1> QED
  BY <1>1, Invariant, PTL

(* What the rows say of the object can be relied on: a loss is never denied,  *)
(* a purge never claimed too early (record_ and confirm_media_purge).         *)
THEOREM ObjectIsAccountedFor == Spec => []ObjectAccountedFor
  BY LossIsKnown, PurgedIsGone, PTL DEF ObjectAccountedFor
-----------------------------------------------------------------------------
(* Uploads. *)

\* The receptions that are open.
Opened == {p \in ReceptionIds : Open(p)}

\* What holds of every row, with the object stored under its key, at the hour h.
Sound(r, content, h, opened) ==
  /\ r.session = "none" => r = NoRow
  /\ r.session \in {"pending", "expired"} => r.asset \in {"pending_upload", "deleted"} /\ r.sum = "none"
  /\ r.session \in {"completed", "failed"} => r.asset \notin {"none", "pending_upload"}
  /\ r.asset = "active" => r.session = "completed" /\ content = "good"
  /\ r.asset = "quarantined" => r.session = "failed" /\ content = "bad"
  /\ r.linked => r.asset = "active"
  /\ r.signed # NoId /\ h < r.signedAt + SignatureKept => r.asset = "active"
  /\ r.session = "completed" /\ r.bound \in opened => r.asset = "active"

\* The row s may come after the row r.
Follows(r, s) ==
  /\ r.session # "none" => s.session # "none" /\ s.bound = r.bound
  /\ r.session \notin {"none", "pending"} => s.session = r.session
  /\ r.sum # "none" => s.sum = r.sum
  /\ r.linked => s.linked
  /\ r.signed # NoId => s.signed = r.signed
  /\ r.asset = "deleted" => s.asset = "deleted"
  /\ r.floor <= s.floor

\* What a request relies on.
Know(c) ==
  LET t == call[c]  q == t.req  r == row[q.key] IN
  /\ t.object # "skip" => stored[q.key] = t.object
  /\ t.step = "reception" => q.target # NoId
  /\ t.step \in {"reception", "media", "insert"} =>
       /\ q.op = "create" /\ <<"key", q.key>> \in t.locks
       /\ t.new <=> r.session = "none"
       /\ r.session # "none" => r.bound = q.target
  /\ t.step = "insert" => t.new
  /\ t.step \in {"media", "insert"} /\ q.target # NoId =>
       /\ Open(q.target) /\ <<"reception", q.target>> \in t.locks
       /\ t.new => reception[q.target].consent = "granted" /\ <<"consent", q.target>> \in t.locks
  /\ t.reply # "internal"
  /\ t.reply = "url" => r.session # "none" /\ r.bound = q.target
  /\ t.reply = "completed" => r.session = "completed" /\ r.sum = q.sum
  /\ t.reply = "attached" => r.linked /\ r.session # "none" /\ r.bound = q.target

\* One request at a time has the lock of a key.
KeysApart == \A c, d \in Calls : \A k \in Keys :
               <<"key", k>> \in call[c].locks /\ <<"key", k>> \in call[d].locks => c = d

UploadInv ==
  /\ UploadTypeOK
  /\ \A k \in Keys : Sound(row[k], stored[k], hour, Opened)
  /\ \A c \in Calls : Know(c)
  /\ KeysApart

-----------------------------------------------------------------------------
(* Dates. *)

LEMMA LeastNat ==
  ASSUME NEW S \in SUBSET Nat, S # {}
  PROVE  \E m \in S : \A n \in S : m <= n
<1>1. IsWellFoundedOn(OpToRel(<, Nat), Nat)
  BY NatLessThanWellFounded
<1>2. PICK m \in S : \A n \in S : <<n, m>> \notin OpToRel(<, Nat)
  BY <1>1, WFMin
<1>3. \A n \in S : ~(n < m)
  BY <1>2 DEF OpToRel
<1> QED
  BY <1>3

LEMMA MinNat ==
  ASSUME NEW S \in SUBSET Nat, S # {}
  PROVE  Min(S) \in S /\ \A n \in S : Min(S) <= n
BY LeastNat DEF Min

LEMMA MaxNat ==
  ASSUME NEW S \in SUBSET Nat, S # {}, NEW b \in Nat, \A n \in S : n <= b
  PROVE  Max(S) \in S /\ \A n \in S : n <= Max(S)
<1> DEFINE U == {u \in Nat : \A n \in S : n <= u}
<1>1. PICK m \in U : \A u \in U : m <= u
  BY LeastNat
<1>2. m \in S
  <2>1. SUFFICES ASSUME m \notin S PROVE FALSE
    OBVIOUS
  <2>2. \A n \in S : n \in Nat /\ n < m
    BY <2>1
  <2>3. m \in Nat /\ m # 0
    <3>1. PICK n \in S : TRUE
      OBVIOUS
    <3> QED
      BY <2>2, <3>1
  <2>4. m - 1 \in U
    BY <2>2, <2>3
  <2> QED
    BY <1>1, <2>3, <2>4
<1>3. \A n \in S : m >= n
  BY <1>1
<1> QED
  BY <1>2, <1>3 DEF Max

LEMMA LastDate ==
  ASSUME UploadAssumption, hour \in Nat, NEW r \in Rows, Dates(r) # {}
  PROVE  /\ Max(Dates(r)) \in Nat
         /\ \A d \in Dates(r) : d \in Nat /\ d <= Max(Dates(r))
<1>1. /\ r.created \in Nat /\ r.at \in Nat /\ r.floor \in Nat /\ r.signedAt \in Nat
      /\ SignatureKept \in Nat /\ IncompleteKept \in Nat /\ QuarantineKept \in Nat /\ UnlinkedKept \in Nat
  BY DEF Rows, UploadAssumption
<1>2. \A d \in Dates(r) : \/ d = r.signedAt + SignatureKept \/ d = r.created + IncompleteKept
                          \/ d = r.at + QuarantineKept \/ d = r.at + UnlinkedKept \/ d = r.floor
  BY DEF Dates
<1>3. \A d \in Dates(r) : d \in Nat
  BY <1>1, <1>2
<1> DEFINE b == r.signedAt + SignatureKept + r.created + IncompleteKept + r.at + QuarantineKept + UnlinkedKept + r.floor
<1>4. b \in Nat /\ \A d \in Dates(r) : d <= b
  BY <1>1, <1>2
<1> HIDE DEF b
<1> QED
  BY <1>3, <1>4, MaxNat

\* Persisting the retention only moves the date away.
LEMMA Persisted ==
  ASSUME UploadAssumption, hour \in Nat, NEW r \in Rows
  PROVE  /\ PersistRetention(r) \in Rows
         /\ r.floor <= PersistRetention(r).floor
         /\ \E f \in Nat : PersistRetention(r) = [r EXCEPT !.floor = f]
<1>1. CASE Dates(r) = {}
  BY <1>1 DEF PersistRetention, Rows
<1>2. CASE Dates(r) # {}
  <2>1. Max(Dates(r)) \in Nat /\ \A d \in Dates(r) : d \in Nat /\ d <= Max(Dates(r))
    BY <1>2, LastDate
  <2>2. r.floor # 0 => r.floor \in Dates(r)
    BY DEF Dates
  <2>3. r.floor \in Nat
    BY DEF Rows
  <2>4. r.floor <= Max(Dates(r))
    BY <2>1, <2>2, <2>3
  <2>5. PersistRetention(r) = [r EXCEPT !.floor = Max(Dates(r))]
    BY <1>2 DEF PersistRetention
  <2> HIDE DEF PersistRetention
  <2> QED
    BY <2>1, <2>4, <2>5 DEF Rows
<1> QED
  BY <1>1, <1>2

\* What may be removed is past the term of its signature, and nothing else protects it.
LEMMA Removable ==
  ASSUME UploadAssumption, hour \in Nat, NEW r \in Rows, MayBeRemoved(r)
  PROVE  /\ ~Blocked(r)
         /\ r.signed # NoId => r.signedAt + SignatureKept <= hour
<1>1. \A d \in Dates(r) : d \in Nat /\ d <= Max(Dates(r))
  BY LastDate DEF MayBeRemoved
<1>2. Max(Dates(r)) \in Nat /\ Max(Dates(r)) <= hour
  BY LastDate DEF MayBeRemoved
<1>3. r.signed # NoId => r.signedAt + SignatureKept \in Dates(r)
  BY DEF Dates
<1> QED
  BY <1>1, <1>2, <1>3 DEF MayBeRemoved
-----------------------------------------------------------------------------
(* Rows. *)

LEMMA NoRowSound ==
  ASSUME NEW content, NEW h, NEW opened
  PROVE  NoRow \in Rows /\ Sound(NoRow, content, h, opened)
BY DEF NoRow, Rows, Sound, NoId, Receptions0

\* The row of a new session.
NewSession(session, target) ==
  [NoRow EXCEPT !.session = session, !.asset = "pending_upload", !.created = hour,
                !.expires = hour + UploadTtl, !.bound = target]

\* createUploadSession
LEMMA NewRow ==
  ASSUME UploadAssumption, hour \in Nat, NEW content, NEW h, NEW opened, NEW target \in Receptions0,
         NEW session \in {"expired", "pending"}, NEW s, s = NewSession(session, target)
  PROVE  s \in Rows /\ Sound(s, content, h, opened) /\ Follows(NoRow, s) /\ s.session # "none" /\ s.bound = target
<1>1. /\ s.session = session /\ s.asset = "pending_upload" /\ s.bound = target /\ s.sum = "none" /\ s.linked = FALSE
      /\ s.signed = NoId /\ s.floor = 0
  BY DEF NoRow, NewSession
<1>2. s \in Rows
  <2>1. NoRow \in Rows
    BY NoRowSound
  <2>2. hour + UploadTtl \in Nat
    BY DEF UploadAssumption
  <2> HIDE DEF NoRow
  <2> QED
    BY <2>1, <2>2 DEF Rows, NewSession
<1>3. Sound(s, content, h, opened)
  BY <1>1 DEF Sound
<1>4. Follows(NoRow, s)
  BY <1>1 DEF Follows, NoRow
<1> QED
  BY <1>1, <1>2, <1>3, <1>4

\* The session is found to be too old.
LEMMA ExpiredRow ==
  ASSUME NEW content, NEW h, NEW opened, NEW r \in Rows, Sound(r, content, h, opened),
         r.session \in {"pending", "expired"}, NEW s, s = [r EXCEPT !.session = "expired"]
  PROVE  s \in Rows /\ Sound(s, content, h, opened) /\ Follows(r, s)
<1>1. /\ s.session = "expired" /\ s.asset = r.asset /\ s.bound = r.bound /\ s.sum = r.sum /\ s.linked = r.linked
      /\ s.signed = r.signed /\ s.floor = r.floor /\ s.signedAt = r.signedAt /\ r.floor \in Nat
  BY DEF Rows
<1>2. s \in Rows
  BY DEF Rows
<1>3. Sound(s, content, h, opened)
  BY <1>1 DEF Sound
<1>4. Follows(r, s)
  BY <1>1 DEF Follows
<1> QED
  BY <1>2, <1>3, <1>4

\* completeUploadSession, on an object that is still the one inspected.
LEMMA FinishedRow ==
  ASSUME UploadTypeOK, NEW c \in Calls, NEW r \in Rows,
         Sound(r, call[c].object, hour, Opened), Live(r), ~NotCompletable(r), call[c].object # "skip"
  PROVE  /\ Finished(r, c) \in Rows /\ Sound(Finished(r, c), call[c].object, hour, Opened) /\ Follows(r, Finished(r, c))
         /\ call[c].object # "bad" => Finished(r, c).session = "completed"
         /\ Finished(r, c).sum = call[c].req.sum
<1> DEFINE bad == call[c].object = "bad"
           s == [r EXCEPT !.asset = IF bad THEN "quarantined" ELSE "active",
                          !.session = IF bad THEN "failed" ELSE "completed",
                          !.at = hour, !.sum = call[c].req.sum]
<1>1. /\ hour \in Nat /\ call[c].req.sum \in Sums /\ call[c].object \in {"good", "bad"}
  BY DEF UploadTypeOK, Transactions, Requests
<1>2. r.session = "pending" /\ r.asset = "pending_upload"
  BY DEF Live, NotCompletable
<1>3. s \in Rows
  BY <1>1 DEF Rows
<1>4. Finished(r, c) = PersistRetention(s)
  BY DEF Finished
<1>5. /\ s.asset = IF bad THEN "quarantined" ELSE "active"
      /\ s.session = IF bad THEN "failed" ELSE "completed"
      /\ s.sum = call[c].req.sum /\ s.floor = r.floor
      /\ s.linked = r.linked /\ s.signed = r.signed /\ s.signedAt = r.signedAt /\ s.bound = r.bound
  BY DEF Rows
<1> HIDE DEF s, bad
<1>6. PICK f \in Nat : PersistRetention(s) = [s EXCEPT !.floor = f] /\ r.floor <= f
  <2>1. PICK f \in Nat : PersistRetention(s) = [s EXCEPT !.floor = f]
    BY <1>1, <1>3, Persisted, UploadAssumption
  <2>2. s.floor <= PersistRetention(s).floor
    BY <1>1, <1>3, Persisted, UploadAssumption
  <2>3. PersistRetention(s).floor = f
    BY <1>3, <2>1 DEF Rows
  <2> QED
    BY <1>5, <2>1, <2>2, <2>3
<1> DEFINE t == [s EXCEPT !.floor = f]
<1>7. /\ t \in Rows /\ t.asset = s.asset /\ t.session = s.session /\ t.sum = s.sum /\ t.floor = f
      /\ t.linked = s.linked /\ t.signed = s.signed /\ t.signedAt = s.signedAt /\ t.bound = s.bound
  BY <1>3 DEF Rows
<1> HIDE DEF t
<1>8. Sound(t, call[c].object, hour, Opened)
  BY <1>1, <1>2, <1>5, <1>7 DEF Sound, bad
<1>9. Follows(r, t)
  BY <1>2, <1>5, <1>6, <1>7 DEF Follows, Sound
<1>10. Finished(r, c) = t
  BY <1>4, <1>6 DEF t
<1> QED
  BY <1>5, <1>7, <1>8, <1>9, <1>10 DEF bad

\* attachMedia
LEMMA AttachedRow ==
  ASSUME UploadAssumption, hour \in Nat, NEW content, NEW h, NEW opened, NEW r \in Rows,
         Sound(r, content, h, opened), r.asset = "active",
         NEW s, s = PersistRetention([r EXCEPT !.linked = TRUE])
  PROVE  s \in Rows /\ Sound(s, content, h, opened) /\ Follows(r, s) /\ s.linked
<1> DEFINE l == [r EXCEPT !.linked = TRUE]
<1>1. l \in Rows /\ l.floor = r.floor
  BY DEF Rows
<1>2. /\ l.asset = r.asset /\ l.session = r.session /\ l.sum = r.sum
      /\ l.linked /\ l.signed = r.signed /\ l.signedAt = r.signedAt /\ l.bound = r.bound
  BY DEF Rows
<1>3. s = PersistRetention(l)
  OBVIOUS
<1> HIDE DEF l
<1>4. PICK f \in Nat : PersistRetention(l) = [l EXCEPT !.floor = f]
  BY <1>1, Persisted
<1>5. r.floor <= s.floor /\ s \in Rows
  BY <1>1, <1>3, Persisted
<1>6. /\ s.asset = l.asset /\ s.session = l.session /\ s.sum = l.sum
      /\ s.linked = l.linked /\ s.signed = l.signed /\ s.signedAt = l.signedAt /\ s.bound = l.bound
  <2>1. s = [l EXCEPT !.floor = f]
    BY <1>3, <1>4
  <2> QED
    BY <1>1, <2>1 DEF Rows
<1>7. Sound(s, content, h, opened)
  BY <1>2, <1>6 DEF Sound
<1>8. Follows(r, s)
  BY <1>2, <1>5, <1>6 DEF Follows
<1> QED
  BY <1>2, <1>5, <1>6, <1>7, <1>8

\* The row of an asset that is the signature of a reception.
Signature(r, target) == PersistRetention([r EXCEPT !.signed = target, !.signedAt = hour])

\* captureReceptionSignature
LEMMA SignedRow ==
  ASSUME UploadAssumption, hour \in Nat, NEW content, NEW h, NEW opened, NEW r \in Rows,
         Sound(r, content, h, opened), r.asset = "active", r.signed = NoId, NEW target \in Receptions0,
         NEW s, s = Signature(r, target)
  PROVE  s \in Rows /\ Sound(s, content, h, opened) /\ Follows(r, s)
<1> DEFINE l == [r EXCEPT !.signed = target, !.signedAt = hour]
<1>1. l \in Rows /\ l.floor = r.floor
  BY DEF Rows
<1>2. l.asset = r.asset /\ l.session = r.session /\ l.sum = r.sum /\ l.linked = r.linked /\ l.bound = r.bound
  BY DEF Rows
<1>3. s = PersistRetention(l)
  BY DEF Signature
<1> HIDE DEF l
<1>4. PICK f \in Nat : PersistRetention(l) = [l EXCEPT !.floor = f]
  BY <1>1, Persisted
<1>5. r.floor <= s.floor /\ s \in Rows
  BY <1>1, <1>3, Persisted
<1>6. s.asset = l.asset /\ s.session = l.session /\ s.sum = l.sum /\ s.linked = l.linked /\ s.bound = l.bound
  <2>1. s = [l EXCEPT !.floor = f]
    BY <1>3, <1>4
  <2> QED
    BY <1>1, <2>1 DEF Rows
<1>7. Sound(s, content, h, opened)
  BY <1>2, <1>6 DEF Sound
<1>8. Follows(r, s)
  BY <1>2, <1>5, <1>6 DEF Follows
<1> QED
  BY <1>5, <1>7, <1>8

\* request_media_deletion
LEMMA RemovedRow ==
  ASSUME UploadAssumption, hour \in Nat, NEW content, NEW r \in Rows, Sound(r, content, hour, Opened),
         MayBeRemoved(r), r.session # "none", NEW by \in {"remove", "sweep"},
         NEW s, s = [r EXCEPT !.asset = "deleted", !.by = by]
  PROVE  s \in Rows /\ Sound(s, content, hour, Opened) /\ Follows(r, s)
<1>1. /\ s \in Rows /\ s.session = r.session /\ s.sum = r.sum /\ s.linked = r.linked /\ s.bound = r.bound
      /\ s.signed = r.signed /\ s.signedAt = r.signedAt /\ s.floor = r.floor /\ r.floor \in Nat /\ s.asset = "deleted"
      /\ r.signedAt \in Nat
  BY DEF Rows
<1>2. ~Blocked(r) /\ (r.signed # NoId => r.signedAt + SignatureKept <= hour)
  BY Removable
<1>3. ~r.linked
  BY <1>2 DEF Blocked
<1>4. ~(r.session = "completed" /\ r.bound \in Opened)
  BY <1>2 DEF Blocked, BindingProtects, Sound, Opened, NoId, UploadAssumption
<1>5. SignatureKept \in Nat
  BY DEF UploadAssumption
<1>6. ~(r.signed # NoId /\ hour < r.signedAt + SignatureKept)
  BY <1>1, <1>2, <1>5
<1>7. Sound(s, content, hour, Opened)
  BY <1>1, <1>3, <1>4, <1>6 DEF Sound
<1>8. Follows(r, s)
  BY <1>1 DEF Follows
<1> QED
  BY <1>1, <1>7, <1>8
-----------------------------------------------------------------------------
(* Requests. *)

\* A step keeps the invariant, and takes nothing of a row back.
Keeps == UploadInv' /\ \A k \in Keys : Follows(row[k], row'[k])

LEMMA SameRows ==
  ASSUME UploadTypeOK, NEW k \in Keys
  PROVE  Follows(row[k], row[k])
<1>1. row[k] \in Rows
  BY DEF UploadTypeOK
<1>2. row[k].floor \in Nat
  BY <1>1 DEF Rows
<1> QED
  BY <1>2 DEF Follows

\* What a request relies on, of a row, an object and a reception.
Knows(t, r, content, isOpen, consent) ==
  LET q == t.req IN
  /\ t.object # "skip" => content = t.object
  /\ t.step = "reception" => q.target # NoId
  /\ t.step \in {"reception", "media", "insert"} =>
       /\ q.op = "create" /\ <<"key", q.key>> \in t.locks
       /\ t.new <=> r.session = "none"
       /\ r.session # "none" => r.bound = q.target
  /\ t.step = "insert" => t.new
  /\ t.step \in {"media", "insert"} /\ q.target # NoId =>
       /\ isOpen /\ <<"reception", q.target>> \in t.locks
       /\ t.new => consent = "granted" /\ <<"consent", q.target>> \in t.locks
  /\ t.reply # "internal"
  /\ t.reply = "url" => r.session # "none" /\ r.bound = q.target
  /\ t.reply = "completed" => r.session = "completed" /\ r.sum = q.sum
  /\ t.reply = "attached" => r.linked /\ r.session # "none" /\ r.bound = q.target

LEMMA KnowsThen ==
  ASSUME NEW t, NEW r, NEW s, NEW content, NEW content2, NEW isOpen, NEW isOpen2, NEW consent, NEW consent2,
         Knows(t, r, content, isOpen, consent), t.req.sum \in Sums, t.object \in {"skip", "good", "bad"},
         \/ s = r
         \/ Follows(r, s) /\ (r.session # "none" \/ <<"key", t.req.key>> \notin t.locks),
         content = "none" \/ content2 = content,
         t.req.target # NoId /\ isOpen /\ <<"reception", t.req.target>> \in t.locks => isOpen2,
         t.req.target # NoId /\ consent = "granted" /\ <<"consent", t.req.target>> \in t.locks => consent2 = "granted"
  PROVE  Knows(t, s, content2, isOpen2, consent2)
<1> DEFINE q == t.req
<1>1. t.object # "skip" => content2 = t.object
  BY DEF Knows
<1>2. t.step \in {"reception", "media", "insert"} =>
        /\ q.op = "create" /\ <<"key", q.key>> \in t.locks
        /\ t.new <=> s.session = "none"
        /\ s.session # "none" => s.bound = q.target
  BY DEF Knows, Follows
<1>3. t.step \in {"media", "insert"} /\ q.target # NoId =>
        /\ isOpen2 /\ <<"reception", q.target>> \in t.locks
        /\ t.new => consent2 = "granted" /\ <<"consent", q.target>> \in t.locks
  BY DEF Knows
<1>4. /\ t.reply = "url" => s.session # "none" /\ s.bound = q.target
      /\ t.reply = "attached" => s.linked /\ s.session # "none" /\ s.bound = q.target
  BY DEF Knows, Follows
<1>5. t.reply = "completed" => s.session = "completed" /\ s.sum = q.sum
  <2>1. t.reply = "completed" => r.session = "completed" /\ r.sum = q.sum /\ r.sum # "none"
    BY UploadAssumption DEF Knows, UploadAssumption
  <2> QED
    BY <2>1 DEF Follows
<1> QED
  BY <1>1, <1>2, <1>3, <1>4, <1>5 DEF Knows

\* A request keeps what it relies on through the steps of others.
LEMMA KnowStays ==
  ASSUME UploadInv, NEW d \in Calls, call'[d] = call[d],
         \A k \in Keys : \/ row'[k] = row[k]
                         \/ Follows(row[k], row'[k]) /\ (row[k].session # "none" \/ <<"key", k>> \notin call[d].locks),
         \A k \in Keys : stored[k] = "none" \/ stored'[k] = stored[k],
         \A p \in ReceptionIds :
           /\ Open(p) /\ <<"reception", p>> \in call[d].locks => Open(p)'
           /\ reception[p].consent = "granted" /\ <<"consent", p>> \in call[d].locks => reception'[p].consent = "granted"
  PROVE  Know(d)'
<1> DEFINE t == call[d]
           k == t.req.key
           p == t.req.target
<1>1. /\ k \in Keys /\ t.req.sum \in Sums /\ t.object \in {"skip", "good", "bad"}
      /\ p # NoId => p \in ReceptionIds
  <2>1. t \in Transactions
    BY DEF UploadInv, UploadTypeOK
  <2> QED
    BY <2>1 DEF Transactions, Requests, Receptions0
<1>2. Knows(t, row[k], stored[k], Open(p), reception[p].consent)
  <2>1. Know(d)
    BY DEF UploadInv
  <2> QED
    BY <2>1 DEF Know, Knows
<1>3. Knows(t, row'[k], stored'[k], Open(p)', reception'[p].consent)
  <2>1. \/ row'[k] = row[k]
        \/ Follows(row[k], row'[k]) /\ (row[k].session # "none" \/ <<"key", k>> \notin t.locks)
    BY <1>1
  <2>2. stored[k] = "none" \/ stored'[k] = stored[k]
    BY <1>1
  <2>3. /\ p # NoId /\ Open(p) /\ <<"reception", p>> \in t.locks => Open(p)'
        /\ p # NoId /\ reception[p].consent = "granted" /\ <<"consent", p>> \in t.locks => reception'[p].consent = "granted"
    BY <1>1
  <2> HIDE DEF t
  <2> QED
    BY <1>1, <1>2, <2>1, <2>2, <2>3, KnowsThen
<1> QED
  BY <1>3 DEF Know, Knows, Open

LEMMA AdvanceKeeps ==
  ASSUME UploadInv, NEW c \in Calls, NEW next \in Transactions, Advance(c, next), Know(c)',
         \A k \in Keys : <<"key", k>> \in next.locks => <<"key", k>> \in call[c].locks \/ Free(<<"key", k>>, c)
  PROVE  Keeps
<1>1. /\ UNCHANGED <<hour, reception, row, stored>>
      /\ call' \in [Calls -> Transactions] /\ call'[c] = next
      /\ \A d \in Calls : d # c => call'[d] = call[d]
  BY DEF Advance, UploadInv, UploadTypeOK
<1>2. UploadTypeOK'
  BY <1>1 DEF UploadInv, UploadTypeOK
<1>3. \A k \in Keys : Sound(row[k], stored[k], hour, Opened)'
  BY <1>1 DEF UploadInv, Opened, Open
<1>4. \A d \in Calls : d # c => Know(d)'
  BY <1>1, KnowStays DEF Open
<1>5. KeysApart'
  BY <1>1 DEF UploadInv, KeysApart, Free
<1>6. \A k \in Keys : Follows(row[k], row'[k])
  BY <1>1, SameRows DEF UploadInv
<1> QED
  BY <1>2, <1>3, <1>4, <1>5, <1>6 DEF Keeps, UploadInv

\* What an answer tells of the row, once it is given.
Tells(q, answer, r) ==
  /\ answer # "internal"
  /\ answer = "url" => r.session # "none" /\ r.bound = q.target
  /\ answer = "completed" => r.session = "completed" /\ r.sum = q.sum
  /\ answer = "attached" => r.linked /\ r.session # "none" /\ r.bound = q.target

LEMMA BareKnows ==
  ASSUME UploadTypeOK, NEW c \in Calls, NEW answer \in Replies, End(c, answer),
         NEW r, r = row'[call[c].req.key], Tells(call[c].req, answer, r)
  PROVE  /\ call' \in [Calls -> Transactions]
         /\ \A d \in Calls : d # c => call'[d] = call[d]
         /\ call'[c].locks = {} /\ Know(c)'
<1>1. /\ call \in [Calls -> Transactions] /\ call[c].req \in Requests
      /\ call'[c] = Bare(call[c].req, "done", answer)
      /\ \A d \in Calls : d # c => call'[d] = call[d]
      /\ call' = [call EXCEPT ![c] = Bare(call[c].req, "done", answer)]
  BY DEF UploadTypeOK, Transactions, End
<1> DEFINE t == Bare(call[c].req, "done", answer)
<1>2. /\ t \in Transactions /\ t.locks = {} /\ t.object = "skip" /\ t.step = "done" /\ t.reply = answer
      /\ t.req = call[c].req
  BY <1>1 DEF Bare, Transactions, Steps
<1>3. call'[c] = t
  BY <1>1
<1> HIDE DEF t
<1>4. Know(c)'
  BY <1>2, <1>3 DEF Know, Tells
<1>5. call' \in [Calls -> Transactions]
  BY <1>1, <1>2, <1>3
<1> QED
  BY <1>1, <1>2, <1>3, <1>4, <1>5

LEMMA AnswerKeeps ==
  ASSUME UploadInv, NEW c \in Calls, NEW answer \in Replies, Answer(c, answer),
         Tells(call[c].req, answer, row[call[c].req.key])
  PROVE  Keeps
<1>1. UNCHANGED <<hour, reception, row, stored>> /\ End(c, answer)
  BY DEF Answer
<1>2. /\ call' \in [Calls -> Transactions]
      /\ \A d \in Calls : d # c => call'[d] = call[d]
      /\ call'[c].locks = {} /\ Know(c)'
  BY <1>1, BareKnows DEF UploadInv
<1>3. UploadTypeOK'
  BY <1>1, <1>2 DEF UploadInv, UploadTypeOK
<1>4. \A k \in Keys : Sound(row[k], stored[k], hour, Opened)'
  BY <1>1 DEF UploadInv, Opened, Open
<1>5. \A d \in Calls : d # c => Know(d)'
  BY <1>1, <1>2, KnowStays DEF Open
<1>6. KeysApart'
  BY <1>2 DEF UploadInv, KeysApart
<1>7. \A k \in Keys : Follows(row[k], row'[k])
  BY <1>1, SameRows DEF UploadInv
<1> QED
  BY <1>2, <1>3, <1>4, <1>5, <1>6, <1>7 DEF Keeps, UploadInv

LEMMA WriteKeeps ==
  ASSUME UploadInv, NEW c \in Calls, NEW answer \in Replies, NEW r \in Rows, Write(c, r, answer),
         NEW k, k = call[c].req.key,
         Sound(r, stored[k], hour, Opened), Follows(row[k], r),
         row[k].session # "none" \/ <<"key", k>> \in call[c].locks,
         Tells(call[c].req, answer, r)
  PROVE  Keeps
<1>1. /\ UNCHANGED <<hour, reception, stored>> /\ End(c, answer) /\ k \in Keys
      /\ row' = [row EXCEPT ![k] = r] /\ row \in [Keys -> Rows]
  BY DEF Write, UploadInv, UploadTypeOK, Transactions, Requests
<1>2. row'[k] = r /\ \A j \in Keys : j # k => row'[j] = row[j]
  BY <1>1
<1>3. /\ call' \in [Calls -> Transactions]
      /\ \A d \in Calls : d # c => call'[d] = call[d]
      /\ call'[c].locks = {} /\ Know(c)'
  BY <1>1, <1>2, BareKnows DEF UploadInv
<1>4. UploadTypeOK'
  BY <1>1, <1>3 DEF UploadInv, UploadTypeOK
<1>5. \A j \in Keys : Sound(row[j], stored[j], hour, Opened)'
  <2>1. Opened' = Opened
    BY <1>1 DEF Opened, Open
  <2> QED
    BY <1>1, <1>2, <2>1 DEF UploadInv
<1>6. ASSUME NEW d \in Calls, d # c PROVE Know(d)'
  <2>1. row[k].session # "none" \/ <<"key", k>> \notin call[d].locks
    BY <1>1, <1>6 DEF UploadInv, KeysApart
  <2> QED
    BY <1>1, <1>2, <1>3, <1>6, <2>1, KnowStays DEF Open
<1>7. KeysApart'
  BY <1>3 DEF UploadInv, KeysApart
<1>8. \A j \in Keys : Follows(row[j], row'[j])
  BY <1>2, SameRows DEF UploadInv
<1> QED
  BY <1>3, <1>4, <1>5, <1>6, <1>7, <1>8 DEF Keeps, UploadInv
-----------------------------------------------------------------------------
\* What is known of a request.
LEMMA Request ==
  ASSUME UploadInv, NEW c \in Calls
  PROVE  /\ call[c] \in Transactions /\ call[c].req \in Requests /\ call[c].req.key \in Keys
         /\ call[c].req.target \in Receptions0 /\ call[c].req.sum \in Sums
         /\ call[c].locks \in SUBSET Locks /\ call[c].parents \in SUBSET ReceptionIds
         /\ call[c].tries \in 0 .. 2 /\ call[c].object \in {"skip", "good", "bad"}
         /\ row[call[c].req.key] \in Rows /\ hour \in Nat
         /\ Know(c)
         /\ Sound(row[call[c].req.key], stored[call[c].req.key], hour, Opened)
BY DEF UploadInv, UploadTypeOK, Transactions, Requests

\* An answer that tells nothing of the row.
LEMMA RefusalKeeps ==
  ASSUME UploadInv, NEW c \in Calls,
         NEW answer \in {"refused", "mismatch", "ineligible", "retry", "expired", "deleted"}, Answer(c, answer)
  PROVE  Keeps
<1>1. answer \in Replies /\ Tells(call[c].req, answer, row[call[c].req.key])
  BY DEF Replies, Tells
<1> QED
  BY <1>1, AnswerKeeps

LEMMA CreateKeyKeeps ==
  ASSUME UploadInv, NEW c \in Calls, CreateKey(c)
  PROVE  Keeps
<1> SUFFICES ASSUME NEW t, t = call[c], NEW q, q = t.req, NEW r, r = row[q.key] PROVE Keeps
  OBVIOUS
<1>1. /\ t \in Transactions /\ q \in Requests /\ q.key \in Keys /\ q.target \in Receptions0 /\ Know(c)
  BY Request
<1>2. CASE r.session # "none" /\ r.bound # q.target
  BY <1>2, RefusalKeeps DEF CreateKey
<1>3. CASE ~(r.session # "none" /\ r.bound # q.target)
  <2> DEFINE next == [t EXCEPT !.new = r.session = "none", !.locks = {<<"key", q.key>>},
                               !.step = IF q.target = NoId THEN "media" ELSE "reception"]
  <2>1. Advance(c, next) /\ Free(<<"key", q.key>>, c) /\ q.op = "create"
    BY <1>3 DEF CreateKey, At
  <2>2. next \in Transactions
    <3>1. {<<"key", q.key>>} \in SUBSET Locks
      BY <1>1 DEF Locks
    <3>2. (IF q.target = NoId THEN "media" ELSE "reception") \in Steps /\ (r.session = "none") \in BOOLEAN
      BY DEF Steps
    <3> QED
      BY <1>1, <3>1, <3>2 DEF Transactions
  <2>3. /\ next.req = q /\ next.object = t.object /\ next.reply = t.reply
        /\ next.new = (r.session = "none") /\ next.locks = {<<"key", q.key>>}
        /\ next.step = IF q.target = NoId THEN "media" ELSE "reception"
    BY <1>1 DEF Transactions
  <2> HIDE DEF next
  <2>4. Know(c)'
    <3>1. call'[c] = next /\ UNCHANGED <<hour, reception, row, stored>>
      BY <2>1 DEF Advance, UploadInv, UploadTypeOK
    <3>2. row'[q.key] = r /\ stored'[q.key] = stored[q.key]
      BY <3>1
    <3>3. /\ next.reply # "internal"
          /\ next.reply = "url" => r.session # "none" /\ r.bound = q.target
          /\ next.reply = "completed" => r.session = "completed" /\ r.sum = q.sum
          /\ next.reply = "attached" => r.linked /\ r.session # "none" /\ r.bound = q.target
          /\ next.object # "skip" => stored[q.key] = next.object
      BY <1>1, <2>3 DEF Know
    <3>4. next.step \in {"media", "reception"} /\ (next.step = "reception" <=> q.target # NoId)
      BY <2>3
    <3> QED
      BY <1>3, <2>1, <2>3, <3>1, <3>2, <3>3, <3>4, ZenonT(40) DEF Know
  <2>5. \A k \in Keys : <<"key", k>> \in next.locks => Free(<<"key", k>>, c)
    BY <2>1, <2>3
  <2> QED
    BY <2>1, <2>2, <2>4, <2>5, AdvanceKeeps
<1> QED
  BY <1>2, <1>3

LEMMA CreateReceptionKeeps ==
  ASSUME UploadInv, NEW c \in Calls, CreateReception(c)
  PROVE  Keeps
<1> SUFFICES ASSUME NEW t, t = call[c], NEW q, q = t.req, NEW r, r = row[q.key] PROVE Keeps
  OBVIOUS
<1>1. /\ t \in Transactions /\ q \in Requests /\ q.key \in Keys /\ q.target \in Receptions0 /\ Know(c)
      /\ t.locks \subseteq Locks
  BY Request
<1> DEFINE allowed == Open(q.target) /\ (t.new => reception[q.target].consent = "granted")
           shared == IF t.new THEN {<<"consent", q.target>>} ELSE {}
           next == [t EXCEPT !.step = "media", !.locks = t.locks \cup {<<"reception", q.target>>} \cup shared]
<1>2. CASE ~allowed
  BY <1>2, RefusalKeeps DEF CreateReception
<1>3. CASE allowed
  <2>1. Advance(c, next) /\ t.step = "reception"
    BY <1>3 DEF CreateReception, At
  <2>2. q.target \in ReceptionIds
    BY <1>1, <2>1 DEF Know, Receptions0
  <2>3. next \in Transactions
    <3>1. (t.locks \cup {<<"reception", q.target>>} \cup shared) \in SUBSET Locks
      BY <1>1, <2>2 DEF Locks
    <3> QED
      BY <1>1, <3>1 DEF Transactions, Steps
  <2>4. /\ next.req = q /\ next.object = t.object /\ next.reply = t.reply /\ next.new = t.new
        /\ next.locks = t.locks \cup {<<"reception", q.target>>} \cup shared
        /\ next.step = "media"
    BY <1>1 DEF Transactions
  <2>5. Know(c)'
    <3> HIDE DEF next
    <3>1. call'[c] = next /\ UNCHANGED <<hour, reception, row, stored>>
      BY <2>1 DEF Advance, UploadInv, UploadTypeOK
    <3> QED
      BY <1>1, <1>3, <2>1, <2>4, <3>1 DEF Know, Open
  <2>6. \A k \in Keys : <<"key", k>> \in next.locks => <<"key", k>> \in t.locks
    BY <2>4
  <2> HIDE DEF next
  <2> QED
    BY <2>1, <2>3, <2>5, <2>6, AdvanceKeeps
<1> QED
  BY <1>2, <1>3

LEMMA CreateMediaKeeps ==
  ASSUME UploadInv, NEW c \in Calls, CreateMedia(c)
  PROVE  Keeps
<1> SUFFICES ASSUME NEW t, t = call[c], NEW q, q = t.req, NEW k, k = q.key, NEW r, r = row[k] PROVE Keeps
  OBVIOUS
<1>1. /\ t \in Transactions /\ q \in Requests /\ k \in Keys /\ q.target \in Receptions0 /\ Know(c)
      /\ r \in Rows /\ Sound(r, stored[k], hour, Opened) /\ t.step = "media"
  BY Request DEF CreateMedia, At
<1>2. CASE r.session = "none" /\ Advance(c, [t EXCEPT !.step = "insert"])
  <2> DEFINE next == [t EXCEPT !.step = "insert"]
  <2>1. Advance(c, next)
    BY <1>2
  <2>2. /\ next \in Transactions /\ next.req = q /\ next.object = t.object /\ next.reply = t.reply
        /\ next.new = t.new /\ next.locks = t.locks /\ next.step = "insert"
    BY <1>1 DEF Transactions, Steps
  <2> HIDE DEF next
  <2>3. Know(c)'
    <3>1. call'[c] = next /\ UNCHANGED <<hour, reception, row, stored>>
      BY <2>1 DEF Advance, UploadInv, UploadTypeOK
    <3> QED
      BY <1>1, <1>2, <2>2, <3>1 DEF Know, Open
  <2> QED
    BY <2>1, <2>2, <2>3, AdvanceKeeps
<1>3. CASE Answer(c, "refused")
  BY <1>3, RefusalKeeps
<1>4. CASE Live(r) /\ Answer(c, "url")
  <2>1. r.session # "none" /\ r.bound = q.target
    BY <1>1, <1>4 DEF Know, Live
  <2>2. "url" \in Replies /\ Tells(q, "url", r)
    BY <2>1 DEF Tells, Replies
  <2> QED
    BY <1>4, <2>2, AnswerKeeps
<1>5. CASE r.session \in {"pending", "expired"} /\ Write(c, [r EXCEPT !.session = "expired"], "expired")
  <2> DEFINE s == [r EXCEPT !.session = "expired"]
  <2>1. Write(c, s, "expired")
    BY <1>5
  <2>2. s \in Rows /\ Sound(s, stored[k], hour, Opened) /\ Follows(r, s)
    BY <1>1, <1>5, ExpiredRow
  <2> HIDE DEF s
  <2>3. "expired" \in Replies /\ Tells(q, "expired", s)
    BY DEF Tells, Replies
  <2> QED
    BY <1>1, <1>5, <2>1, <2>2, <2>3, WriteKeeps
<1> QED
  BY <1>2, <1>3, <1>4, <1>5 DEF CreateMedia

\* The rows the trigger asks for are those the request holds the locks of.
LEMMA CreateInsertKeeps ==
  ASSUME UploadAssumption, UploadInv, NEW c \in Calls, CreateInsert(c)
  PROVE  Keeps
<1> SUFFICES ASSUME NEW t, t = call[c], NEW q, q = t.req, NEW k, k = q.key, NEW r, r = row[k] PROVE Keeps
  OBVIOUS
<1>1. /\ t \in Transactions /\ q \in Requests /\ k \in Keys /\ q.target \in Receptions0 /\ Know(c)
      /\ r \in Rows /\ Sound(r, stored[k], hour, Opened) /\ t.step = "insert" /\ hour \in Nat
  BY Request DEF CreateInsert, At
<1>2. t.new /\ r.session = "none" /\ <<"key", k>> \in t.locks
  BY <1>1 DEF Know
<1>3. r = NoRow
  BY <1>1, <1>2 DEF Sound
<1>4. InsertAllowed(q)
  BY <1>1, <1>2 DEF InsertAllowed, Know
<1>5. PICK late \in BOOLEAN :
             Write(c, [NoRow EXCEPT !.session = IF late THEN "expired" ELSE "pending",
                                    !.asset = "pending_upload", !.created = hour,
                                    !.expires = hour + UploadTtl, !.bound = q.target],
                   IF late THEN "expired" ELSE "url")
  BY <1>4 DEF CreateInsert
<1> DEFINE s == [NoRow EXCEPT !.session = IF late THEN "expired" ELSE "pending",
                                    !.asset = "pending_upload", !.created = hour,
                                    !.expires = hour + UploadTtl, !.bound = q.target]
           answer == IF late THEN "expired" ELSE "url"
           session == IF late THEN "expired" ELSE "pending"
<1>6. s \in Rows /\ Sound(s, stored[k], hour, Opened) /\ Follows(NoRow, s) /\ s.session # "none" /\ s.bound = q.target
  <2>1. session \in {"expired", "pending"}
    OBVIOUS
  <2>2. s = NewSession(session, q.target)
    BY DEF NewSession
  <2> HIDE DEF s, session
  <2> QED
    BY <1>1, <2>1, <2>2, NewRow
<1>7. Write(c, s, answer)
  BY <1>5
<1>8. answer \in Replies /\ answer \in {"expired", "url"}
  BY DEF Replies
<1> HIDE DEF s, answer
<1>9. Tells(q, answer, s)
  BY <1>6, <1>8 DEF Tells
<1> QED
  BY <1>1, <1>2, <1>3, <1>6, <1>7, <1>8, <1>9, WriteKeeps
-----------------------------------------------------------------------------
\* A step that is no creation relies on nothing but the object inspected.
LEMMA GoOnKeeps ==
  ASSUME UploadInv, NEW c \in Calls, NEW next \in Transactions, Advance(c, next),
         next.req = call[c].req, next.reply = call[c].reply,
         next.step \in {"inspect", "discover", "lock", "write"},
         next.object = call[c].object \/ next.object = stored[call[c].req.key],
         \A k \in Keys : <<"key", k>> \in next.locks => <<"key", k>> \in call[c].locks
  PROVE  Keeps
<1>1. Know(c)
  BY Request
<1>2. call'[c] = next /\ UNCHANGED <<hour, reception, row, stored>>
  BY DEF Advance, UploadInv, UploadTypeOK
<1>3. Know(c)'
  BY <1>1, <1>2 DEF Know
<1> QED
  BY <1>3, AdvanceKeeps

LEMMA PrepareKeeps ==
  ASSUME UploadInv, NEW c \in Calls, CompletePrepare(c)
  PROVE  Keeps
<1> DEFINE t == call[c]
           r == row[t.req.key]
           next == [t EXCEPT !.step = IF Live(r) THEN "inspect" ELSE "discover"]
<1>1. t \in Transactions
  BY Request
<1>2. CASE NotCompletable(r)
  BY <1>2, RefusalKeeps DEF CompletePrepare
<1>3. CASE ~NotCompletable(r)
  <2>1. Advance(c, next)
    BY <1>3 DEF CompletePrepare
  <2>2. /\ next \in Transactions /\ next.req = t.req /\ next.reply = t.reply /\ next.object = t.object
        /\ next.locks = t.locks /\ next.step \in {"inspect", "discover"}
    BY <1>1 DEF Transactions, Steps
  <2> HIDE DEF next
  <2> QED
    BY <2>1, <2>2, GoOnKeeps
<1> QED
  BY <1>2, <1>3

LEMMA InspectKeeps ==
  ASSUME UploadInv, NEW c \in Calls, Inspect(c)
  PROVE  Keeps
<1> DEFINE t == call[c]
           kept == stored[t.req.key]
           next == [t EXCEPT !.object = kept, !.step = "discover"]
<1>1. t \in Transactions /\ kept \in {"none", "good", "bad"}
  BY Request DEF UploadInv, UploadTypeOK
<1>2. CASE Answer(c, "refused")
  BY <1>2, RefusalKeeps
<1>3. CASE kept # "none" /\ Advance(c, next)
  <2>1. /\ next \in Transactions /\ next.req = t.req /\ next.reply = t.reply /\ next.object = kept
        /\ next.locks = t.locks /\ next.step = "discover"
    BY <1>1, <1>3 DEF Transactions, Steps
  <2> HIDE DEF next
  <2> QED
    BY <1>3, <2>1, GoOnKeeps
<1> QED
  BY <1>2, <1>3 DEF Inspect

LEMMA DiscoverKeeps ==
  ASSUME UploadInv, NEW c \in Calls, Discover(c)
  PROVE  Keeps
<1> DEFINE t == call[c]
           q == t.req
           r == row[q.key]
           targets == IF q.op \in {"attach", "sign"} THEN {q.target} ELSE {}
           parents == Parents(r) \cup targets
           next == [t EXCEPT !.parents = parents, !.orders = {p \in parents : ~Open(p)}, !.step = "lock"]
<1>1. t \in Transactions /\ q \in Requests /\ r \in Rows
  BY Request
<1>2. CASE \E p \in targets : ~Open(p)
  BY <1>2, RefusalKeeps DEF Discover
<1>3. CASE ~ \E p \in targets : ~Open(p)
  <2>1. Advance(c, next)
    BY <1>3 DEF Discover
  <2>2. parents \in SUBSET ReceptionIds
    <3>1. targets \subseteq ReceptionIds
      BY <1>1 DEF Requests, Receptions0
    <3>2. Parents(r) \subseteq ReceptionIds
      BY <1>1 DEF Rows, Parents, Receptions0
    <3> QED
      BY <3>1, <3>2
  <2>3. {p \in parents : ~Open(p)} \in SUBSET ReceptionIds
    BY <2>2
  <2> HIDE DEF parents
  <2>4. /\ next \in Transactions /\ next.req = q /\ next.reply = t.reply /\ next.object = t.object
        /\ next.locks = t.locks /\ next.step = "lock"
    BY <1>1, <2>2, <2>3 DEF Transactions, Steps
  <2> HIDE DEF next
  <2> QED
    BY <2>1, <2>4, GoOnKeeps
<1> QED
  BY <1>2, <1>3

LEMMA LockReceptionKeeps ==
  ASSUME UploadAssumption, UploadInv, NEW c \in Calls, LockReception(c)
  PROVE  Keeps
<1> DEFINE t == call[c]
           p == NextReception(c)
           next == [t EXCEPT !.locks = t.locks \cup {<<"reception", p>>}]
<1>1. t \in Transactions /\ t.locks \in SUBSET Locks /\ t.parents \in SUBSET ReceptionIds
  BY Request
<1>2. p \in ReceptionIds
  <2>1. ToLock(c) \in SUBSET Nat /\ ToLock(c) # {} /\ ToLock(c) \subseteq ReceptionIds
    BY <1>1 DEF ToLock, LockReception, UploadAssumption
  <2> QED
    BY <2>1, MinNat DEF NextReception
<1>3. Advance(c, next) /\ t.step = "lock"
  BY DEF LockReception
<1> HIDE DEF p
<1>4. t.locks \cup {<<"reception", p>>} \in SUBSET Locks
  BY <1>1, <1>2 DEF Locks
<1>5. /\ next \in Transactions /\ next.req = t.req /\ next.reply = t.reply /\ next.object = t.object
      /\ next.locks = t.locks \cup {<<"reception", p>>} /\ next.step = "lock"
  BY <1>1, <1>3, <1>4 DEF Transactions, Steps
<1> HIDE DEF next
<1>6. \A k \in Keys : <<"key", k>> \in next.locks => <<"key", k>> \in t.locks
  BY <1>5
<1> QED
  BY <1>3, <1>5, <1>6, GoOnKeeps

LEMMA LockMediaKeeps ==
  ASSUME UploadInv, NEW c \in Calls, LockMedia(c)
  PROVE  Keeps
<1> DEFINE t == call[c]
           mediaLock == <<"media", t.req.key>>
           again == [t EXCEPT !.tries = t.tries + 1, !.step = "discover", !.locks = {}]
           next == [t EXCEPT !.locks = t.locks \cup {mediaLock}, !.step = "write"]
<1>1. t \in Transactions /\ t.locks \in SUBSET Locks /\ t.req.key \in Keys /\ t.tries \in 0 .. 2
  BY Request
<1>2. CASE LineageChanged(c) /\ t.req.op \in {"attach", "remove"} /\ t.tries < 2
  <2>1. Advance(c, again)
    BY <1>2 DEF LockMedia, Again
  <2>2. t.tries + 1 \in 0 .. 2
    BY <1>1, <1>2
  <2>3. /\ again \in Transactions /\ again.req = t.req /\ again.reply = t.reply /\ again.object = t.object
        /\ again.locks = {} /\ again.step = "discover"
    BY <1>1, <2>2 DEF Transactions, Steps
  <2> HIDE DEF again
  <2> QED
    BY <2>1, <2>3, GoOnKeeps
<1>3. CASE LineageChanged(c) /\ ~(t.req.op \in {"attach", "remove"} /\ t.tries < 2)
  <2>1. Answer(c, IF t.req.op = "sign" THEN "refused" ELSE "retry")
    BY <1>3 DEF LockMedia, Again
  <2> QED
    BY <2>1, RefusalKeeps
<1>4. CASE ~LineageChanged(c)
  <2>1. Advance(c, next)
    BY <1>4 DEF LockMedia
  <2>2. t.locks \cup {mediaLock} \in SUBSET Locks
    BY <1>1 DEF Locks
  <2>3. /\ next \in Transactions /\ next.req = t.req /\ next.reply = t.reply /\ next.object = t.object
        /\ next.locks = t.locks \cup {mediaLock} /\ next.step = "write"
    BY <1>1, <2>2 DEF Transactions, Steps
  <2> HIDE DEF next
  <2>4. \A k \in Keys : <<"key", k>> \in next.locks => <<"key", k>> \in t.locks
    BY <2>3
  <2> QED
    BY <2>1, <2>3, <2>4, GoOnKeeps
<1> QED
  BY <1>2, <1>3, <1>4
-----------------------------------------------------------------------------
LEMMA CompleteWriteKeeps ==
  ASSUME UploadAssumption, UploadInv, NEW c \in Calls, CompleteWrite(c)
  PROVE  Keeps
<1> SUFFICES ASSUME NEW t, t = call[c], NEW q, q = t.req, NEW k, k = q.key, NEW r, r = row[k] PROVE Keeps
  OBVIOUS
<1>1. /\ t \in Transactions /\ q \in Requests /\ k \in Keys /\ Know(c) /\ UploadTypeOK
      /\ r \in Rows /\ Sound(r, stored[k], hour, Opened) /\ t.object \in {"skip", "good", "bad"}
  BY Request DEF UploadInv
<1>2. CASE Answer(c, "refused")
  BY <1>2, RefusalKeeps
<1>3. CASE r.session = "completed" /\ Answer(c, IF r.sum = q.sum THEN "completed" ELSE "mismatch")
  <2>1. CASE r.sum = q.sum
    <3>1. "completed" \in Replies /\ Tells(q, "completed", r)
      BY <1>3, <2>1 DEF Tells, Replies
    <3> QED
      BY <1>3, <2>1, <3>1, AnswerKeeps
  <2>2. CASE r.sum # q.sum
    BY <1>3, <2>2, RefusalKeeps
  <2> QED
    BY <2>1, <2>2
<1>4. CASE r.session \in {"pending", "expired"} /\ Write(c, [r EXCEPT !.session = "expired"], "expired")
  <2> DEFINE s == [r EXCEPT !.session = "expired"]
  <2>1. Write(c, s, "expired")
    BY <1>4
  <2>2. s \in Rows /\ Sound(s, stored[k], hour, Opened) /\ Follows(r, s)
    BY <1>1, <1>4, ExpiredRow
  <2> HIDE DEF s
  <2>3. "expired" \in Replies /\ Tells(q, "expired", s)
    BY DEF Tells, Replies
  <2> QED
    BY <1>1, <1>4, <2>1, <2>2, <2>3, WriteKeeps
<1>5. CASE /\ ~NotCompletable(r) /\ Live(r) /\ t.object # "skip"
           /\ Write(c, Finished(r, c), IF t.object = "bad" THEN "quarantined" ELSE "completed")
  <2> DEFINE answer == IF t.object = "bad" THEN "quarantined" ELSE "completed"
  <2>1. stored[k] = t.object
    BY <1>1, <1>5 DEF Know
  <2>2. /\ Finished(r, c) \in Rows /\ Sound(Finished(r, c), stored[k], hour, Opened) /\ Follows(r, Finished(r, c))
        /\ t.object # "bad" => Finished(r, c).session = "completed"
        /\ Finished(r, c).sum = q.sum
    <3>1. Sound(r, call[c].object, hour, Opened)
      BY <1>1, <2>1
    <3>2. /\ Finished(r, c) \in Rows /\ Sound(Finished(r, c), call[c].object, hour, Opened)
          /\ Follows(r, Finished(r, c))
          /\ call[c].object # "bad" => Finished(r, c).session = "completed"
          /\ Finished(r, c).sum = call[c].req.sum
      BY <1>1, <1>5, <3>1, FinishedRow
    <3> QED
      BY <2>1, <3>2
  <2>3. answer \in Replies /\ Tells(q, answer, Finished(r, c))
    BY <2>2 DEF Tells, Replies
  <2>4. r.session # "none"
    BY <1>5 DEF Live
  <2>5. Write(c, Finished(r, c), answer)
    BY <1>5
  <2> HIDE DEF answer
  <2> QED
    BY <1>1, <2>2, <2>3, <2>4, <2>5, WriteKeeps
<1> QED
  BY <1>2, <1>3, <1>4, <1>5 DEF CompleteWrite

LEMMA AttachWriteKeeps ==
  ASSUME UploadAssumption, UploadInv, NEW c \in Calls, AttachWrite(c)
  PROVE  Keeps
<1> SUFFICES ASSUME NEW t, t = call[c], NEW q, q = t.req, NEW k, k = q.key, NEW r, r = row[k] PROVE Keeps
  OBVIOUS
<1>1. /\ k \in Keys /\ r \in Rows /\ Sound(r, stored[k], hour, Opened) /\ hour \in Nat
  BY Request
<1>2. CASE Answer(c, "refused") \/ Answer(c, "ineligible") \/ Answer(c, "mismatch")
  BY <1>2, RefusalKeeps
<1>3. CASE /\ r.asset = "active" /\ r.session = "completed" /\ r.bound = q.target
           /\ Write(c, IF r.linked THEN r ELSE PersistRetention([r EXCEPT !.linked = TRUE]), "attached")
  <2> DEFINE s == IF r.linked THEN r ELSE PersistRetention([r EXCEPT !.linked = TRUE])
  <2>1. s \in Rows /\ Sound(s, stored[k], hour, Opened) /\ Follows(r, s) /\ s.linked
    <3>1. CASE r.linked
      BY <1>1, <3>1, SameRows DEF UploadInv
    <3>2. CASE ~r.linked
      BY <1>1, <1>3, <3>2, AttachedRow
    <3> QED
      BY <3>1, <3>2
  <2>2. Write(c, s, "attached")
    BY <1>3
  <2> HIDE DEF s
  <2>3. "attached" \in Replies /\ Tells(q, "attached", s)
    BY <1>3, <2>1 DEF Tells, Replies, Follows
  <2> QED
    BY <1>1, <1>3, <2>1, <2>2, <2>3, WriteKeeps
<1> QED
  BY <1>2, <1>3 DEF AttachWrite

LEMMA SignWriteKeeps ==
  ASSUME UploadAssumption, UploadInv, NEW c \in Calls, SignWrite(c)
  PROVE  Keeps
<1> SUFFICES ASSUME NEW t, t = call[c], NEW q, q = t.req, NEW k, k = q.key, NEW r, r = row[k] PROVE Keeps
  OBVIOUS
<1>1. /\ k \in Keys /\ r \in Rows /\ Sound(r, stored[k], hour, Opened) /\ hour \in Nat /\ q.target \in Receptions0
  BY Request
<1>2. CASE Answer(c, "refused") \/ Answer(c, "ineligible")
  BY <1>2, RefusalKeeps
<1>3. CASE /\ r.asset = "active" /\ r.signed = NoId
           /\ Write(c, PersistRetention([r EXCEPT !.signed = q.target, !.signedAt = hour]), "signed")
  <2> DEFINE s == Signature(r, q.target)
  <2>1. s \in Rows /\ Sound(s, stored[k], hour, Opened) /\ Follows(r, s)
    BY <1>1, <1>3, SignedRow
  <2>2. Write(c, s, "signed")
    BY <1>3 DEF Signature
  <2> HIDE DEF s
  <2>3. "signed" \in Replies /\ Tells(q, "signed", s)
    BY DEF Tells, Replies
  <2>4. r.session # "none"
    BY <1>1, <1>3 DEF Sound, NoRow
  <2> QED
    BY <1>1, <2>1, <2>2, <2>3, <2>4, WriteKeeps
<1> QED
  BY <1>2, <1>3 DEF SignWrite

LEMMA RemoveWriteKeeps ==
  ASSUME UploadAssumption, UploadInv, NEW c \in Calls, RemoveWrite(c)
  PROVE  Keeps
<1> SUFFICES ASSUME NEW t, t = call[c], NEW q, q = t.req, NEW k, k = q.key, NEW r, r = row[k] PROVE Keeps
  OBVIOUS
<1>1. /\ k \in Keys /\ r \in Rows /\ Sound(r, stored[k], hour, Opened) /\ hour \in Nat
      /\ q.op \in {"remove", "sweep"}
  BY Request DEF RemoveWrite, At
<1>2. CASE Answer(c, "refused") \/ Answer(c, "deleted")
  BY <1>2, RefusalKeeps
<1>3. CASE MayBeRemoved(r) /\ Write(c, [r EXCEPT !.asset = "deleted", !.by = q.op], "deleted")
  <2> DEFINE s == [r EXCEPT !.asset = "deleted", !.by = q.op]
  <2>1. r.session # "none"
    <3>1. SUFFICES ASSUME r = NoRow PROVE FALSE
      BY <1>1 DEF Sound
    <3>2. r.signed = NoId /\ r.asset = "none" /\ r.floor = 0
      BY <3>1 DEF NoRow
    <3>3. Dates(r) = {}
      BY <3>2 DEF Dates
    <3> QED
      BY <1>3, <3>3 DEF MayBeRemoved
  <2>2. s \in Rows /\ Sound(s, stored[k], hour, Opened) /\ Follows(r, s)
    BY <1>1, <1>3, <2>1, RemovedRow
  <2>3. Write(c, s, "deleted")
    BY <1>3
  <2> HIDE DEF s
  <2>4. "deleted" \in Replies /\ Tells(q, "deleted", s)
    BY DEF Tells, Replies
  <2> QED
    BY <1>1, <2>1, <2>2, <2>3, <2>4, WriteKeeps
<1> QED
  BY <1>2, <1>3 DEF RemoveWrite
-----------------------------------------------------------------------------
LEMMA PutKeeps ==
  ASSUME UploadInv, NEW k \in Keys, NEW content \in {"good", "bad"}, Put(k, content)
  PROVE  Keeps
<1>1. /\ UNCHANGED <<hour, reception, row, call>> /\ stored[k] = "none"
      /\ stored' = [stored EXCEPT ![k] = content] /\ stored \in [Keys -> {"none", "good", "bad"}]
  BY DEF Put, UploadInv, UploadTypeOK
<1>2. stored'[k] = content /\ \A j \in Keys : j # k => stored'[j] = stored[j]
  BY <1>1
<1>3. UploadTypeOK'
  BY <1>1 DEF UploadInv, UploadTypeOK
<1>4. ASSUME NEW j \in Keys PROVE Sound(row[j], stored[j], hour, Opened)'
  <2>1. Opened' = Opened /\ Sound(row[j], stored[j], hour, Opened)
    BY <1>1 DEF Opened, Open, UploadInv
  <2>2. CASE j = k
    BY <1>1, <1>2, <2>1, <2>2 DEF Sound
  <2>3. CASE j # k
    BY <1>1, <1>2, <2>1, <2>3
  <2> QED
    BY <2>2, <2>3
<1>5. \A c \in Calls : Know(c)'
  BY <1>1, <1>2, KnowStays DEF Open
<1>6. KeysApart'
  BY <1>1 DEF UploadInv, KeysApart
<1>7. \A j \in Keys : Follows(row[j], row'[j])
  BY <1>1, SameRows DEF UploadInv
<1> QED
  BY <1>3, <1>4, <1>5, <1>6, <1>7 DEF Keeps, UploadInv

\* Nobody who relies on an open reception lets go of its lock.
LEMMA CloseReceptionKeeps ==
  ASSUME UploadInv, NEW p \in ReceptionIds, CloseReception(p)
  PROVE  Keeps
<1>1. /\ UNCHANGED <<hour, row, stored, call>> /\ \A c \in Calls : <<"reception", p>> \notin call[c].locks
      /\ reception' = [reception EXCEPT ![p].status = "closed"]
      /\ reception \in [ReceptionIds -> [status : {"open", "closed"}, consent : {"granted", "revoked"}]]
  BY DEF CloseReception, UploadInv, UploadTypeOK
<1>2. /\ \A o \in ReceptionIds : o # p => reception'[o] = reception[o]
      /\ reception'[p].status = "closed" /\ reception'[p].consent = reception[p].consent
      /\ reception' \in [ReceptionIds -> [status : {"open", "closed"}, consent : {"granted", "revoked"}]]
  BY <1>1
<1>3. UploadTypeOK'
  BY <1>1, <1>2 DEF UploadInv, UploadTypeOK
<1>4. ASSUME NEW j \in Keys PROVE Sound(row[j], stored[j], hour, Opened)'
  <2>1. Sound(row[j], stored[j], hour, Opened)
    BY DEF UploadInv
  <2>2. Opened' \subseteq Opened
    BY <1>2 DEF Opened, Open
  <2>3. Sound(row[j], stored[j], hour, Opened')
    BY <2>1, <2>2 DEF Sound
  <2> QED
    BY <1>1, <2>3
<1>5. ASSUME NEW c \in Calls PROVE Know(c)'
  <2>1. \A o \in ReceptionIds :
           /\ Open(o) /\ <<"reception", o>> \in call[c].locks => Open(o)'
           /\ reception[o].consent = "granted" /\ <<"consent", o>> \in call[c].locks => reception'[o].consent = "granted"
    BY <1>1, <1>2 DEF Open
  <2> QED
    BY <1>1, <2>1, KnowStays
<1>6. KeysApart'
  BY <1>1 DEF UploadInv, KeysApart
<1>7. \A j \in Keys : Follows(row[j], row'[j])
  BY <1>1, SameRows DEF UploadInv
<1> QED
  BY <1>3, <1>4, <1>5, <1>6, <1>7 DEF Keeps, UploadInv

LEMMA RevokeConsentKeeps ==
  ASSUME UploadInv, NEW p \in ReceptionIds, RevokeConsent(p)
  PROVE  Keeps
<1>1. /\ UNCHANGED <<hour, row, stored, call>> /\ \A c \in Calls : <<"consent", p>> \notin call[c].locks
      /\ reception' = [reception EXCEPT ![p].consent = "revoked"]
      /\ reception \in [ReceptionIds -> [status : {"open", "closed"}, consent : {"granted", "revoked"}]]
  BY DEF RevokeConsent, UploadInv, UploadTypeOK
<1>2. /\ \A o \in ReceptionIds : o # p => reception'[o] = reception[o]
      /\ reception'[p].status = reception[p].status
      /\ reception' \in [ReceptionIds -> [status : {"open", "closed"}, consent : {"granted", "revoked"}]]
  BY <1>1
<1>3. UploadTypeOK'
  BY <1>1, <1>2 DEF UploadInv, UploadTypeOK
<1>4. ASSUME NEW j \in Keys PROVE Sound(row[j], stored[j], hour, Opened)'
  <2>1. Opened' = Opened
    BY <1>2 DEF Opened, Open
  <2> QED
    BY <1>1, <2>1 DEF UploadInv
<1>5. ASSUME NEW c \in Calls PROVE Know(c)'
  <2>1. \A o \in ReceptionIds :
           /\ Open(o) /\ <<"reception", o>> \in call[c].locks => Open(o)'
           /\ reception[o].consent = "granted" /\ <<"consent", o>> \in call[c].locks => reception'[o].consent = "granted"
    BY <1>1, <1>2 DEF Open
  <2> QED
    BY <1>1, <2>1, KnowStays
<1>6. KeysApart'
  BY <1>1 DEF UploadInv, KeysApart
<1>7. \A j \in Keys : Follows(row[j], row'[j])
  BY <1>1, SameRows DEF UploadInv
<1> QED
  BY <1>3, <1>4, <1>5, <1>6, <1>7 DEF Keeps, UploadInv

LEMMA HourPassesKeeps ==
  ASSUME UploadAssumption, UploadInv, HourPasses
  PROVE  Keeps
<1>1. /\ UNCHANGED <<reception, row, stored, call>> /\ hour' = hour + 1 /\ hour < LastHour /\ hour \in 0 .. LastHour
      /\ LastHour \in Nat /\ SignatureKept \in Nat
  BY DEF HourPasses, UploadInv, UploadTypeOK, UploadAssumption
<1>2. UploadTypeOK'
  <2>1. hour' \in 0 .. LastHour
    BY <1>1
  <2> QED
    BY <1>1, <2>1 DEF UploadInv, UploadTypeOK
<1>3. ASSUME NEW j \in Keys PROVE Sound(row[j], stored[j], hour, Opened)'
  <2>1. Sound(row[j], stored[j], hour, Opened) /\ row[j] \in Rows
    BY DEF UploadInv, UploadTypeOK
  <2>2. Opened' = Opened
    BY <1>1 DEF Opened, Open
  <2>3. row[j].signedAt \in Nat
    BY <2>1 DEF Rows
  <2>4. hour + 1 < row[j].signedAt + SignatureKept => hour < row[j].signedAt + SignatureKept
    BY <1>1, <2>3
  <2>5. Sound(row[j], stored[j], hour + 1, Opened)
    BY <2>1, <2>4 DEF Sound
  <2> QED
    BY <1>1, <2>2, <2>5
<1>4. \A c \in Calls : Know(c)'
  BY <1>1, KnowStays DEF Open
<1>5. KeysApart'
  BY <1>1 DEF UploadInv, KeysApart
<1>6. \A j \in Keys : Follows(row[j], row'[j])
  BY <1>1, SameRows DEF UploadInv
<1> QED
  BY <1>2, <1>3, <1>4, <1>5, <1>6 DEF Keeps, UploadInv

LEMMA UploadStarts == UploadAssumption /\ UploadInit => UploadInv
<1> SUFFICES ASSUME UploadAssumption, UploadInit PROVE UploadInv
  OBVIOUS
<1>1. PICK asked \in [Calls -> Requests] : call = [c \in Calls |-> Fresh(asked[c])]
  BY DEF UploadInit
<1>2. ASSUME NEW q \in Requests
      PROVE  /\ Fresh(q) \in Transactions /\ Fresh(q).step \in {"key", "prepare", "discover"}
             /\ Fresh(q).reply = "none" /\ Fresh(q).object = "skip" /\ Fresh(q).locks = {}
  BY DEF Fresh, Bare, Transactions, Steps, Replies
<1>3. UploadTypeOK
  <2>1. hour \in 0 .. LastHour
    BY DEF UploadInit, UploadAssumption
  <2>2. row \in [Keys -> Rows]
    BY NoRowSound DEF UploadInit
  <2>3. call \in [Calls -> Transactions]
    BY <1>1, <1>2
  <2> QED
    BY <2>1, <2>2, <2>3 DEF UploadInit, UploadTypeOK
<1>4. \A k \in Keys : Sound(row[k], stored[k], hour, Opened)
  BY NoRowSound DEF UploadInit
<1>5. \A c \in Calls : Know(c)
  BY <1>1, <1>2 DEF Know
<1>6. KeysApart
  BY <1>1, <1>2 DEF KeysApart
<1> QED
  BY <1>3, <1>4, <1>5, <1>6 DEF UploadInv

LEMMA UploadStepKeeps == UploadAssumption /\ UploadInv /\ UploadNext => Keeps
<1> SUFFICES ASSUME UploadAssumption, UploadInv, UploadNext PROVE Keeps
  OBVIOUS
<1>1. ASSUME NEW c \in Calls, CallStep(c) PROVE Keeps
  BY <1>1, CreateKeyKeeps, CreateReceptionKeeps, CreateMediaKeeps, CreateInsertKeeps, PrepareKeeps, InspectKeeps,
     DiscoverKeeps, LockReceptionKeeps, LockMediaKeeps, CompleteWriteKeeps, AttachWriteKeeps, SignWriteKeeps,
     RemoveWriteKeeps DEF CallStep
<1> QED
  BY <1>1, PutKeeps, CloseReceptionKeeps, RevokeConsentKeeps, HourPassesKeeps DEF UploadNext

LEMMA UploadStutters == UploadInv /\ UNCHANGED uploadVars => Keeps
<1> SUFFICES ASSUME UploadInv, UNCHANGED uploadVars PROVE Keeps
  OBVIOUS
<1>1. UploadInv'
  <2>1. UNCHANGED <<hour, reception, row, stored, call>>
    BY DEF uploadVars
  <2>2. UploadTypeOK' /\ KeysApart'
    BY <2>1 DEF UploadInv, UploadTypeOK, KeysApart
  <2>3. \A k \in Keys : Sound(row[k], stored[k], hour, Opened)'
    BY <2>1 DEF UploadInv, Opened, Open
  <2>4. \A c \in Calls : Know(c)'
    BY <2>1, KnowStays, SameRows DEF UploadInv, Open
  <2> QED
    BY <2>2, <2>3, <2>4 DEF UploadInv
<1>2. \A k \in Keys : Follows(row[k], row'[k])
  BY SameRows DEF uploadVars, UploadInv
<1> QED
  BY <1>1, <1>2 DEF Keeps

\* The invariant of the uploads.
THEOREM UploadInvariance == UploadSpec => []UploadInv
<1>1. UploadInit => UploadInv
  BY UploadStarts, UploadAssumption
<1>2. UploadInv /\ [UploadNext]_uploadVars => UploadInv'
  BY UploadStepKeeps, UploadStutters, UploadAssumption DEF Keeps
<1> QED
  BY <1>1, <1>2, PTL DEF UploadSpec

\* What the rows of an upload say of its object is so at every moment: an active
\* asset has the object that was verified, a quarantined one an object that was
\* not what was announced, and what is attached, or signs within its term, is
\* active (completeUploadSession, request_media_deletion and their locks).
THEOREM UploadsSound == UploadSpec => []UploadsAreSound
<1>1. UploadInv => UploadsAreSound
  BY DEF UploadInv, UploadsAreSound, Sound
<1> QED
  BY <1>1, UploadInvariance, PTL

\* What a request answers is so: the place to upload to belongs to the reception
\* that was named, a completion with a digest is recorded with that digest, an
\* attachment is there, and nobody is answered with an internal error.
THEOREM UploadAnswersTrue == UploadSpec => []UploadAnswersHold
<1>1. UploadInv => UploadAnswersHold
  BY DEF UploadInv, UploadAnswersHold, Know
<1> QED
  BY <1>1, UploadInvariance, PTL

\* An upload completed for a reception that is still open can be attached to it:
\* no sweep and no removal comes between (createUploadSession binds it, and the
\* binding protects it under the locks of lockMediaRetention).
THEOREM AttachableStays == UploadSpec => []CompletedCanBeAttached
<1>1. UploadInv => CompletedCanBeAttached
  <2> SUFFICES ASSUME UploadInv, NEW c \in Calls, NEW q, q = call[c].req, NEW r, r = row[q.key],
                      q.op = "attach", r.session = "completed", r.bound = q.target, Open(q.target)
               PROVE  r.asset = "active"
    BY DEF CompletedCanBeAttached
  <2>1. q \in Requests /\ Sound(r, stored[q.key], hour, Opened)
    BY Request
  <2>2. q.target \in Opened
    BY <2>1 DEF Requests, Receptions0, Opened
  <2> QED
    BY <2>1, <2>2 DEF Sound
<1> QED
  BY <1>1, UploadInvariance, PTL

\* No step of any request takes back what was committed: the end of a session, a
\* checksum, an attachment, a signature, a tombstone; and no retention date
\* comes nearer.
THEOREM PromisesKept == UploadSpec => PromisesStand
<1>1. UploadInv /\ [UploadNext]_uploadVars =>
        [\A k \in Keys :
           /\ row[k].session \notin {"none", "pending"} => row'[k].session = row[k].session
           /\ row[k].sum # "none" => row'[k].sum = row[k].sum
           /\ row[k].linked => row'[k].linked
           /\ row[k].signed # NoId => row'[k].signed = row[k].signed
           /\ row[k].asset = "deleted" => row'[k].asset = "deleted"
           /\ row[k].floor <= row'[k].floor]_uploadVars
  BY UploadStepKeeps, UploadAssumption DEF Keeps, Follows
<1> QED
  BY <1>1, UploadInvariance, PTL DEF UploadSpec, PromisesStand
-----------------------------------------------------------------------------
(* Who waits for whom. *)

\* The locks of a request at each of its steps: receptions in the order of their
\* ids, the media row after them and last.
LocksInOrder(t) ==
  LET k == t.req.key  p == t.req.target IN
  /\ t.step \in {"key", "prepare", "inspect", "discover", "done"} => t.locks = {}
  /\ t.step = "reception" => t.locks = {<<"key", k>>}
  /\ t.step \in {"media", "insert"} => t.locks \subseteq {<<"key", k>>, <<"reception", p>>, <<"consent", p>>}
  /\ t.step = "lock" =>
       /\ t.locks \subseteq {"reception"} \X t.parents
       /\ \A r, s \in t.parents : <<"reception", r>> \in t.locks /\ <<"reception", s>> \notin t.locks => r < s
  /\ t.step = "write" => t.locks \subseteq ({"reception"} \X t.parents) \cup {<<"media", k>>}

WaitInv == UploadInv /\ \A c \in Calls : LocksInOrder(call[c])

\* The lock that the next step of a request asks for.
Wanted(c) ==
  LET t == call[c] IN
  IF t.step = "key" THEN {<<"key", t.req.key>>}
  ELSE IF t.step = "reception" THEN {<<"reception", t.req.target>>}
  ELSE IF t.step = "lock" /\ ToLock(c) # {} THEN {<<"reception", NextReception(c)>>}
  ELSE IF t.step \in {"media", "lock"} THEN {<<"media", t.req.key>>}
  ELSE {}

Unanswered == {c \in Calls : call[c].step # "done"}
SomeoneIsServed == Unanswered # {} => \E c \in Unanswered : \A l \in Wanted(c) : Free(l, c)

LEMMA BareHoldsNothing ==
  ASSUME NEW req, NEW step \in {"key", "prepare", "discover", "done"}, NEW reply
  PROVE  LocksInOrder(Bare(req, step, reply))
BY DEF LocksInOrder, Bare

\* A request goes on or ends; the others stand where they were.
LEMMA OneMoves ==
  ASSUME WaitInv, NEW c \in Calls, NEW t, LocksInOrder(t), call' = [call EXCEPT ![c] = t]
  PROVE  \A d \in Calls : LocksInOrder(call'[d])
BY DEF WaitInv, UploadInv, UploadTypeOK

LEMMA EndsInOrder ==
  ASSUME WaitInv, NEW c \in Calls, NEW answer, End(c, answer)
  PROVE  \A d \in Calls : LocksInOrder(call'[d])
BY BareHoldsNothing, OneMoves DEF End, WaitInv, UploadInv, UploadTypeOK

LEMMA AnswersInOrder ==
  ASSUME WaitInv, NEW c \in Calls
  PROVE  /\ \A answer : Answer(c, answer) => \A d \in Calls : LocksInOrder(call'[d])
         /\ \A r, answer : Write(c, r, answer) => \A d \in Calls : LocksInOrder(call'[d])
BY EndsInOrder DEF Answer, Write

\* What a step of the request changes of it besides its locks.
LEMMA Stepped ==
  ASSUME WaitInv, NEW c \in Calls
  PROVE  /\ call[c] \in Transactions /\ LocksInOrder(call[c]) /\ call[c].req \in Requests
         /\ call[c].parents \subseteq ReceptionIds
BY DEF WaitInv, UploadInv, UploadTypeOK, Transactions

LEMMA CreateInOrder ==
  ASSUME WaitInv, NEW c \in Calls, CreateKey(c) \/ CreateReception(c) \/ CreateMedia(c) \/ CreateInsert(c)
  PROVE  \A d \in Calls : LocksInOrder(call'[d])
<1> DEFINE t == call[c]  q == t.req
<1>0. t \in Transactions /\ LocksInOrder(t)
  BY Stepped
<1>1. CASE CreateKey(c)
  <2> DEFINE s == [t EXCEPT !.new = row[q.key].session = "none", !.locks = {<<"key", q.key>>},
                            !.step = IF q.target = NoId THEN "media" ELSE "reception"]
  <2>1. LocksInOrder(s)
    BY <1>0 DEF LocksInOrder, Transactions
  <2>2. Advance(c, s) => \A d \in Calls : LocksInOrder(call'[d])
    BY <2>1, OneMoves DEF Advance
  <2> QED
    BY <1>1, <2>2, AnswersInOrder DEF CreateKey
<1>2. CASE CreateReception(c)
  <2>1. ASSUME NEW shared \in {{<<"consent", q.target>>}, {}}
        PROVE  LocksInOrder([t EXCEPT !.step = "media", !.locks = @ \cup {<<"reception", q.target>>} \cup shared])
    BY <1>0, <1>2 DEF LocksInOrder, Transactions, CreateReception, At
  <2>2. \A shared \in {{<<"consent", q.target>>}, {}} :
          Advance(c, [t EXCEPT !.step = "media", !.locks = @ \cup {<<"reception", q.target>>} \cup shared])
          => \A d \in Calls : LocksInOrder(call'[d])
    BY <2>1, OneMoves DEF Advance
  <2> QED
    BY <1>2, <2>2, AnswersInOrder DEF CreateReception
<1>3. CASE CreateMedia(c)
  <2>1. LocksInOrder([t EXCEPT !.step = "insert"])
    BY <1>0, <1>3 DEF LocksInOrder, Transactions, CreateMedia, At
  <2>2. Advance(c, [t EXCEPT !.step = "insert"]) => \A d \in Calls : LocksInOrder(call'[d])
    BY <2>1, OneMoves DEF Advance
  <2> QED
    BY <1>3, <2>2, AnswersInOrder DEF CreateMedia
<1>4. CASE CreateInsert(c)
  BY <1>4, AnswersInOrder DEF CreateInsert
<1> QED
  BY <1>1, <1>2, <1>3, <1>4

LEMMA DiscoverInOrder ==
  ASSUME WaitInv, NEW c \in Calls, CompletePrepare(c) \/ Inspect(c) \/ Discover(c)
  PROVE  \A d \in Calls : LocksInOrder(call'[d])
<1> DEFINE t == call[c]  q == t.req
<1>0. t \in Transactions /\ LocksInOrder(t)
  BY Stepped
<1>1. CASE CompletePrepare(c)
  <2> DEFINE s == [t EXCEPT !.step = IF Live(row[q.key]) THEN "inspect" ELSE "discover"]
  <2>1. LocksInOrder(s)
    BY <1>0, <1>1 DEF LocksInOrder, Transactions, CompletePrepare, At
  <2>2. Advance(c, s) => \A d \in Calls : LocksInOrder(call'[d])
    BY <2>1, OneMoves DEF Advance
  <2> QED
    BY <1>1, <2>2, AnswersInOrder DEF CompletePrepare
<1>2. CASE Inspect(c)
  <2> DEFINE s == [t EXCEPT !.object = stored[q.key], !.step = "discover"]
  <2>1. LocksInOrder(s)
    BY <1>0, <1>2 DEF LocksInOrder, Transactions, Inspect, At
  <2>2. Advance(c, s) => \A d \in Calls : LocksInOrder(call'[d])
    BY <2>1, OneMoves DEF Advance
  <2> QED
    BY <1>2, <2>2, AnswersInOrder DEF Inspect
<1>3. CASE Discover(c)
  <2> DEFINE targets == IF q.op \in {"attach", "sign"} THEN {q.target} ELSE {}
             parents == Parents(row[q.key]) \cup targets
             s == [t EXCEPT !.parents = parents, !.orders = {p \in parents : ~Open(p)}, !.step = "lock"]
  <2>1. t.locks = {}
    BY <1>0, <1>3 DEF LocksInOrder, Discover
  <2>2. LocksInOrder(s)
    <3>1. s.locks = {} /\ s.step = "lock"
      BY <1>0, <2>1 DEF Transactions
    <3> QED
      BY <3>1 DEF LocksInOrder
  <2>3. Advance(c, s) => \A d \in Calls : LocksInOrder(call'[d])
    BY <2>2, OneMoves DEF Advance
  <2> QED
    BY <1>3, <2>3, AnswersInOrder DEF Discover
<1> QED
  BY <1>1, <1>2, <1>3

\* The reception that is locked next comes before the others that are left.
LEMMA NextIsLeast ==
  ASSUME UploadAssumption, WaitInv, NEW c \in Calls, ToLock(c) # {}
  PROVE  NextReception(c) \in ToLock(c) /\ \A p \in ToLock(c) : NextReception(c) <= p
<1>1. ToLock(c) \subseteq Nat
  BY Stepped, UploadAssumption DEF ToLock
<1> QED
  BY <1>1, MinNat, ToLock(c) # {} DEF NextReception

LEMMA LockInOrder ==
  ASSUME UploadAssumption, WaitInv, NEW c \in Calls, LockReception(c) \/ LockMedia(c)
  PROVE  \A d \in Calls : LocksInOrder(call'[d])
<1> DEFINE t == call[c]  q == t.req
<1>0. t \in Transactions /\ LocksInOrder(t) /\ t.parents \subseteq ReceptionIds /\ ReceptionIds \subseteq Nat
  BY Stepped, UploadAssumption
<1>1. CASE LockReception(c)
  <2> DEFINE n == NextReception(c)
             s == [t EXCEPT !.locks = @ \cup {<<"reception", n>>}]
  <2>1. t.step = "lock" /\ ToLock(c) # {}
    BY <1>1 DEF LockReception
  <2>2. n \in t.parents /\ \A p \in t.parents : <<"reception", p>> \notin t.locks => n <= p
    BY <2>1, NextIsLeast DEF ToLock
  <2>3. s.step = "lock" /\ s.parents = t.parents /\ s.locks = t.locks \cup {<<"reception", n>>}
    BY <1>0, <2>1 DEF Transactions
  <2> HIDE DEF s, n
  <2>4. s.locks \subseteq {"reception"} \X s.parents
    BY <1>0, <2>1, <2>2, <2>3 DEF LocksInOrder
  <2>5. ASSUME NEW x \in s.parents, NEW y \in s.parents,
               <<"reception", x>> \in s.locks, <<"reception", y>> \notin s.locks
        PROVE  x < y
    <3>1. n <= y /\ n # y /\ n \in Nat /\ y \in Nat /\ x \in Nat
      BY <1>0, <2>2, <2>3, <2>5
    <3>2. CASE x = n
      BY <3>1, <3>2
    <3>3. CASE x # n
      BY <1>0, <2>1, <2>3, <2>5, <3>3 DEF LocksInOrder
    <3> QED
      BY <3>2, <3>3
  <2>6. LocksInOrder(s)
    BY <2>3, <2>4, <2>5 DEF LocksInOrder
  <2>7. call' = [call EXCEPT ![c] = s]
    BY <1>1 DEF LockReception, Advance, s, n
  <2> QED
    BY <2>6, <2>7, OneMoves
<1>2. CASE LockMedia(c)
  <2>1. t.step = "lock"
    BY <1>2 DEF LockMedia
  <2>2. CASE Again(c)
    <3>1. LocksInOrder([t EXCEPT !.tries = @ + 1, !.step = "discover", !.locks = {}])
      BY <1>0 DEF LocksInOrder, Transactions
    <3>2. Advance(c, [t EXCEPT !.tries = @ + 1, !.step = "discover", !.locks = {}])
          => \A d \in Calls : LocksInOrder(call'[d])
      BY <3>1, OneMoves DEF Advance
    <3> QED
      BY <2>2, <3>2, AnswersInOrder DEF Again
  <2>3. CASE Advance(c, [t EXCEPT !.locks = @ \cup {<<"media", q.key>>}, !.step = "write"])
    <3> DEFINE s == [t EXCEPT !.locks = @ \cup {<<"media", q.key>>}, !.step = "write"]
    <3>1. s.locks = t.locks \cup {<<"media", q.key>>} /\ s.step = "write" /\ s.parents = t.parents /\ s.req = q
      BY <1>0 DEF Transactions
    <3>2. t.locks \subseteq {"reception"} \X t.parents
      BY <1>0, <2>1 DEF LocksInOrder
    <3> HIDE DEF s
    <3>3. LocksInOrder(s)
      BY <3>1, <3>2 DEF LocksInOrder
    <3> QED
      BY <2>3, <3>3, OneMoves DEF Advance, s
  <2> QED
    BY <1>2, <2>2, <2>3 DEF LockMedia
<1> QED
  BY <1>1, <1>2

LEMMA WriteInOrder ==
  ASSUME WaitInv, NEW c \in Calls, CompleteWrite(c) \/ AttachWrite(c) \/ SignWrite(c) \/ RemoveWrite(c)
  PROVE  \A d \in Calls : LocksInOrder(call'[d])
BY AnswersInOrder DEF CompleteWrite, AttachWrite, SignWrite, RemoveWrite

LEMMA StartsInOrder == UploadInit => \A c \in Calls : LocksInOrder(call[c])
<1> SUFFICES ASSUME UploadInit, NEW c \in Calls PROVE LocksInOrder(call[c])
  OBVIOUS
<1>1. PICK asked \in [Calls -> Requests] : call = [d \in Calls |-> Fresh(asked[d])]
  BY DEF UploadInit
<1>2. call[c] = Fresh(asked[c])
  BY <1>1
<1> QED
  BY <1>2, BareHoldsNothing DEF Fresh

LEMMA StepsInOrder ==
  ASSUME UploadAssumption, WaitInv, UploadNext
  PROVE  \A d \in Calls : LocksInOrder(call'[d])
<1>1. CASE \E c \in Calls : CallStep(c)
  BY <1>1, CreateInOrder, DiscoverInOrder, LockInOrder, WriteInOrder DEF CallStep
<1>2. CASE UNCHANGED call
  BY <1>2 DEF WaitInv
<1> QED
  BY <1>1, <1>2 DEF UploadNext, Put, CloseReception, RevokeConsent, HourPasses

\* Locks are taken in one order by every request, at every step of it: key,
\* receptions by their ids, media row.
THEOREM WaitInvariance == UploadSpec => []WaitInv
<1>1. UploadInit => WaitInv
  BY UploadAssumption, UploadStarts, StartsInOrder DEF WaitInv
<1>2. WaitInv /\ UploadInv' /\ [UploadNext]_uploadVars => WaitInv'
  <2>1. CASE UploadNext
    BY <2>1, UploadAssumption, StepsInOrder DEF WaitInv
  <2>2. CASE UNCHANGED uploadVars
    BY <2>2 DEF WaitInv, uploadVars
  <2> QED
    BY <2>1, <2>2
<1> QED
  BY <1>1, <1>2, UploadInvariance, PTL DEF UploadSpec
-----------------------------------------------------------------------------
\* A finite set of numbers has a greatest one.
LEMMA GreatestOf ==
  ASSUME NEW S \in SUBSET Nat, IsFiniteSet(S), S # {}
  PROVE  \E p \in S : \A q \in S : q <= p
<1> DEFINE Over(p) == {q \in S : q > p}
           N == {Cardinality(Over(p)) : p \in S}
<1>1. \A p \in S : IsFiniteSet(Over(p)) /\ Cardinality(Over(p)) \in Nat
  BY FS_Subset, FS_CardinalityType
<1>2. N # {} /\ N \subseteq Nat
  BY <1>1
<1>3. PICK n \in N : \A m \in N : n <= m
  BY <1>2, LeastNat
<1>4. PICK p \in S : n = Cardinality(Over(p))
  OBVIOUS
<1>5. ASSUME NEW q \in S, p < q PROVE FALSE
  <2>1. Over(q) \subseteq Over(p) /\ q \in Over(p) \ Over(q)
    <3>1. q \in Over(p) /\ q \notin Over(q)
      BY <1>5
    <3>2. ASSUME NEW x \in Over(q) PROVE x \in Over(p)
      BY <1>5, <3>2
    <3> QED
      BY <3>1, <3>2
  <2>2. Cardinality(Over(q)) <= Cardinality(Over(p)) /\ Cardinality(Over(q)) # Cardinality(Over(p))
    BY <1>1, <2>1, FS_Subset
  <2>3. n <= Cardinality(Over(q))
    BY <1>3
  <2> QED
    BY <1>1, <1>4, <2>2, <2>3
<1> QED
  BY <1>5

\* Who holds the lock of a media row waits for nothing, and who holds that of a
\* reception for a later one at most.
LEMMA HolderWaits ==
  ASSUME UploadAssumption, WaitInv, NEW d \in Calls, NEW l \in call[d].locks, NEW w \in Wanted(d)
  PROVE  /\ d \in Unanswered
         /\ \A k : l # <<"media", k>>
         /\ \A k : w # <<"key", k>>
         /\ \/ \E k \in Keys : w = <<"media", k>>
            \/ \E r \in ReceptionIds : w = <<"reception", r>> /\ \A p \in ReceptionIds : l = <<"reception", p>> => p < r
<1> DEFINE t == call[d]
<1>1. /\ t \in Transactions /\ LocksInOrder(t) /\ t.parents \subseteq ReceptionIds /\ ReceptionIds \subseteq Nat
      /\ t.req.key \in Keys /\ Know(d) /\ (t.req.target # NoId => t.req.target \in ReceptionIds)
  BY Stepped, UploadAssumption DEF WaitInv, UploadInv, Requests, Receptions0
<1>2. t.step \in {"reception", "media", "lock"}
  BY <1>1 DEF Wanted, LocksInOrder
<1>3. CASE t.step = "reception"
  <2>1. w = <<"reception", t.req.target>> /\ l = <<"key", t.req.key>>
    BY <1>1, <1>3 DEF Wanted, LocksInOrder
  <2>2. t.req.target \in ReceptionIds
    BY <1>1, <1>3 DEF Know
  <2> QED
    BY <1>3, <2>1, <2>2 DEF Unanswered
<1>4. CASE t.step = "media"
  BY <1>1, <1>4 DEF Wanted, LocksInOrder, Unanswered
<1>5. CASE t.step = "lock"
  <2>1. PICK p \in t.parents : l = <<"reception", p>>
    BY <1>1, <1>5 DEF LocksInOrder
  <2>2. CASE ToLock(d) # {}
    <3>1. w = <<"reception", NextReception(d)>>
      BY <1>5, <2>2 DEF Wanted
    <3>2. NextReception(d) \in t.parents /\ <<"reception", NextReception(d)>> \notin t.locks
      BY <2>2, NextIsLeast DEF ToLock
    <3>3. p < NextReception(d)
      BY <1>1, <1>5, <2>1, <3>2 DEF LocksInOrder
    <3> QED
      BY <1>1, <1>5, <2>1, <3>1, <3>2, <3>3 DEF Unanswered
  <2>3. CASE ToLock(d) = {}
    BY <1>1, <1>5, <2>1, <2>3 DEF Wanted, Unanswered
  <2> QED
    BY <2>2, <2>3
<1> QED
  BY <1>2, <1>3, <1>4, <1>5

LEMMA NoCircle ==
  ASSUME UploadAssumption, WaitInv
  PROVE  SomeoneIsServed
<1> SUFFICES ASSUME NEW c0 \in Unanswered,
                    \A c \in Unanswered : \E l \in Wanted(c) : ~Free(l, c)
             PROVE  FALSE
  BY DEF SomeoneIsServed
<1>1. \A c \in Unanswered : \E l \in Wanted(c) : \E d \in Calls : l \in call[d].locks
  BY DEF Free
<1>2. \A d \in Calls : call[d].locks # {} => d \in Unanswered
  BY DEF WaitInv, LocksInOrder, Unanswered
<1>3. ASSUME NEW c \in Unanswered, NEW k, <<"media", k>> \in Wanted(c) PROVE FALSE
  <2>1. PICK d \in Calls : <<"media", k>> \in call[d].locks
    BY <1>1, <1>3 DEF Wanted
  <2>2. PICK w \in Wanted(d) : TRUE
    BY <1>1, <1>2, <2>1
  <2> QED
    BY <2>1, <2>2, HolderWaits
<1>4. ASSUME NEW d \in Calls, NEW l \in call[d].locks
      PROVE  \E r \in ReceptionIds : /\ <<"reception", r>> \in Wanted(d)
                                     /\ \A p \in ReceptionIds : l = <<"reception", p>> => p < r
  <2>1. d \in Unanswered
    BY <1>2
  <2>2. PICK w \in Wanted(d) : TRUE
    BY <1>1, <2>1
  <2>3. \A k : w # <<"media", k>>
    BY <1>3, <2>1, <2>2
  <2> QED
    BY <2>2, <2>3, HolderWaits
<1> DEFINE Awaited == {r \in ReceptionIds : \E d \in Unanswered : <<"reception", r>> \in Wanted(d)}
<1>5. Awaited # {}
  <2>1. PICK l \in Wanted(c0), d \in Calls : l \in call[d].locks
    BY <1>1
  <2> QED
    BY <1>2, <1>4, <2>1
<1>6. ASSUME NEW p \in Awaited PROVE \E r \in Awaited : p < r
  <2>1. PICK c \in Unanswered : <<"reception", p>> \in Wanted(c)
    OBVIOUS
  <2>2. Wanted(c) = {<<"reception", p>>}
    BY <2>1 DEF Wanted
  <2>3. PICK d \in Calls : <<"reception", p>> \in call[d].locks
    BY <1>1, <2>2
  <2> QED
    BY <1>2, <1>4, <2>3
<1>7. Awaited \in SUBSET Nat /\ IsFiniteSet(Awaited)
  BY FS_Subset, UploadAssumption DEF UploadAssumption
<1>8. PICK p \in Awaited : \A r \in Awaited : r <= p
  BY <1>5, <1>7, GreatestOf
<1> QED
  <2>1. PICK r \in Awaited : p < r
    BY <1>6, <1>8
  <2>2. r <= p /\ p \in Nat /\ r \in Nat
    BY <1>7, <1>8, <2>1
  <2> QED
    BY <2>1, <2>2

\* However many requests there are, and however many receptions they lock, they
\* do not wait for each other in a circle: as long as one is unanswered, there
\* is one that finds the lock it asks for free (lockMediaRetention locks by id,
\* the creation of a session key, reception, media row).
THEOREM NoCircleOfWaits == UploadSpec => []SomeoneIsServed
<1>1. WaitInv => SomeoneIsServed
  BY UploadAssumption, NoCircle
<1> QED
  BY <1>1, WaitInvariance, PTL
-----------------------------------------------------------------------------
(* Reconciliation: what the scan has seen and what lies ahead of it. *)

\* How far a row has come.
Rank(r) ==
  IF r.status = "pending_upload" THEN 0
  ELSE IF r.status \in {"uploaded", "active", "quarantined"} THEN 1
  ELSE IF r.job = "open" THEN 2 ELSE 3

\* The row s may come after the row r.
Becomes(r, s) ==
  r # NoMedia =>
    /\ s # NoMedia /\ s.tenant = r.tenant /\ s.place = r.place
    /\ \/ s = r
       \/ r.live /\ s = [r EXCEPT !.live = FALSE]
       \/ Rank(r) < Rank(s)

\* What a HEAD of the first round says is so, unless the row has changed.
RowLook(k) ==
  LET w == scan.work[k] IN
  /\ InBucket(k) /\ w.seen # NoMedia
  /\ Version(media[k]) = Version(w.seen) \/ Rank(w.seen) < Rank(media[k])
  /\ w.head # "none" /\ Version(media[k]) = Version(w.seen) =>
       /\ <<k, Lifecycle(media[k], w.head)>> \in ever
       /\ \A f \in always : f[1] = k => f[2] = Lifecycle(media[k], w.head)

\* An object without a row was there, or has been gone.
ObjectLook(k) ==
  LET w == scan.work[k] IN
  /\ w.head = "exists" /\ ~InBucket(k) => <<k, "orphan_candidate">> \in ever
  /\ w.head = "missing" => <<k, "orphan_candidate">> \notin always

Truths ==
  /\ always \subseteq Facts /\ Facts \subseteq ever
  /\ \A o \in observed : o.class \in Said => <<o.on, o.class>> \in ever
  /\ \A o \in scan.candidates : o.class = "orphan_candidate" => <<o.on, o.class>> \in ever
  /\ \A k \in AtWork : /\ scan.at = "database" => RowLook(k)
                       /\ scan.at = "recheck" => ObjectLook(k)

\* Nothing has gone wrong so far.
Clean == stopped = "no" /\ ~scan.dbFailed /\ ~scan.storageFailed

Seen(f) == \E o \in observed : o.on = f[1] /\ o.class \in {f[2], "lifecycle_changed"}
Orphan(k) == <<k, "orphan_candidate">> \in always
OfTenant(k, i) == IsRow(k) /\ media[k].tenant = options.tenants[i]

\* The rows of the workshops up to here are observed, or will be with the page.
RowsReached ==
  \A f \in always : \A i \in DOMAIN options.tenants :
    InBucket(f[1]) /\ OfTenant(f[1], i)
    /\ (i < scan.tenant \/ (i = scan.tenant /\ (f[1] <= scan.after \/ (~scan.reading /\ f[1] \in scan.page))))
    => Seen(f) \/ f[1] \in AtWork

\* What a page leaves out comes after it.
PageWhole(rest) == \A k \in rest : k \notin scan.page => 
                      /\ options.pageSize <= Cardinality(scan.page)
                      /\ \A j \in scan.page : j < k

Coverage ==
  /\ scan.finished = scan.tenant - 1
  /\ scan.at = "database" /\ scan.reading => AtWork = {}
  /\ scan.at = "database" /\ Clean =>
       /\ RowsReached
       /\ ~scan.reading => 
            PageWhole({k \in MediaKeys : /\ OfTenant(k, scan.tenant) /\ scan.after < k
                                         /\ InBucket(k) /\ \E f \in always : f[1] = k})
  /\ scan.databaseComplete /\ Clean =>
       /\ scan.at # "database"
       /\ \A f \in always : \A i \in DOMAIN options.tenants :
               InBucket(f[1]) /\ OfTenant(f[1], i) => Seen(f)
  /\ scan.at \in {"database", "inventory", "matching"} /\ Clean =>
       \A k \in MediaKeys : Orphan(k) /\ k <= scan.token => k \in scan.provisional
  /\ scan.at = "matching" /\ Clean =>
       \A k \in MediaKeys : Orphan(k) /\ scan.token < k /\ k \notin scan.page =>
          scan.truncated /\ \A j \in scan.page : j < k
  /\ scan.at \in {"recheck", "done"} /\ scan.inventoryComplete /\ Clean =>
       \A k \in MediaKeys : Orphan(k) => k \in scan.provisional
  /\ scan.at = "recheck" /\ scan.inventoryComplete /\ scan.databaseComplete /\ Clean =>
       \A k \in scan.provisional : Orphan(k) =>
          k \in AtWork \/ [on |-> k, class |-> "orphan_candidate"] \in scan.candidates
  /\ scan.at # "done" => verdict = NoReport
  /\ scan.at = "done" => CompleteReportsMissNothing

ReconInv == ReconTypeOK /\ Truths /\ Coverage
-----------------------------------------------------------------------------
(* Rows and facts. *)

Media0 == MediaRows \cup {NoMedia}
Here(r) == r # NoMedia /\ r.place = "here"
FactsOf(m, b) ==
  {<<k, Lifecycle(m[k], IF k \in b THEN "exists" ELSE "missing")>> : k \in {j \in MediaKeys : Here(m[j])}}
  \cup {<<k, "orphan_candidate">> : k \in {j \in b : ~Here(m[j])}}

LEMMA FactsAre == Facts = FactsOf(media, bucket) /\ Facts' = FactsOf(media', bucket')
BY DEF Facts, FactsOf, Here, InBucket, IsRow, Presence

LEMMA FactIs ==
  ASSUME NEW m, NEW b \in SUBSET MediaKeys, NEW f \in FactsOf(m, b)
  PROVE  /\ f[1] \in MediaKeys /\ f = <<f[1], f[2]>>
         /\ Here(m[f[1]]) => /\ f[2] = Lifecycle(m[f[1]], IF f[1] \in b THEN "exists" ELSE "missing")
                             /\ f[2] # "orphan_candidate"
         /\ ~Here(m[f[1]]) => f[2] = "orphan_candidate" /\ f[1] \in b
<1>1. CASE f \in {<<k, Lifecycle(m[k], IF k \in b THEN "exists" ELSE "missing")>> : k \in {j \in MediaKeys : Here(m[j])}}
  <2>1. PICK k \in MediaKeys : Here(m[k]) /\ f = <<k, Lifecycle(m[k], IF k \in b THEN "exists" ELSE "missing")>>
    BY <1>1
  <2>2. Lifecycle(m[k], IF k \in b THEN "exists" ELSE "missing") # "orphan_candidate"
    BY DEF Lifecycle
  <2> QED
    BY <2>1, <2>2
<1>2. CASE f \in {<<k, "orphan_candidate">> : k \in {j \in b : ~Here(m[j])}}
  BY <1>2
<1> QED
  BY <1>1, <1>2 DEF FactsOf

LEMMA IsFact ==
  ASSUME NEW m, NEW b \in SUBSET MediaKeys, NEW k \in MediaKeys
  PROVE  /\ Here(m[k]) => <<k, Lifecycle(m[k], IF k \in b THEN "exists" ELSE "missing")>> \in FactsOf(m, b)
         /\ k \in b /\ ~Here(m[k]) => <<k, "orphan_candidate">> \in FactsOf(m, b)
BY DEF FactsOf

LEMMA NoMediaNoRow == NoMedia \notin MediaRows
<1>1. DOMAIN NoMedia = {"tenant"}
  BY DEF NoMedia
<1>2. \A r \in MediaRows : "live" \in DOMAIN r
  BY DEF MediaRows
<1> QED
  BY <1>1, <1>2

\* One step of a row.
LEMMA RowSteps ==
  ASSUME NEW r \in MediaRows
  PROVE  /\ r.live => LET s == [r EXCEPT !.live = FALSE]
                       IN  s \in MediaRows /\ s.tenant = r.tenant /\ s.place = r.place
         /\ \A status \in {"active", "quarantined"} :
              r.live => LET s == [r EXCEPT !.status = status, !.job = "none", !.live = FALSE]
                        IN  s \in MediaRows /\ s.tenant = r.tenant /\ s.place = r.place /\ Rank(r) < Rank(s)
         /\ r.status \in {"pending_upload", "active", "quarantined"} =>
              LET s == [r EXCEPT !.status = "deleted", !.job = "open", !.live = FALSE]
              IN  s \in MediaRows /\ s.tenant = r.tenant /\ s.place = r.place /\ Rank(r) < Rank(s)
         /\ r.job = "open" =>
              /\ LET s == [r EXCEPT !.status = "purged", !.job = "completed", !.live = FALSE]
                 IN  s \in MediaRows /\ s.tenant = r.tenant /\ s.place = r.place /\ Rank(r) < Rank(s)
              /\ LET s == [r EXCEPT !.status = "deleted", !.job = "reconciliation_required", !.live = FALSE]
                 IN  s \in MediaRows /\ s.tenant = r.tenant /\ s.place = r.place /\ Rank(r) < Rank(s)
<1>1. ASSUME r.live, NEW s, s = [r EXCEPT !.live = FALSE]
      PROVE  s \in MediaRows /\ s.tenant = r.tenant /\ s.place = r.place
  BY <1>1 DEF MediaRows
<1>2. ASSUME NEW status \in {"active", "quarantined"}, r.live,
             NEW s, s = [r EXCEPT !.status = status, !.job = "none", !.live = FALSE]
      PROVE  s \in MediaRows /\ s.tenant = r.tenant /\ s.place = r.place /\ Rank(r) < Rank(s)
  <2>1. /\ s.status = status /\ s.job = "none" /\ s.tenant = r.tenant /\ s.place = r.place /\ s.live = FALSE
    BY <1>2 DEF MediaRows
  <2>2. s \in MediaRows
    BY <1>2 DEF MediaRows
  <2>3. Rank(r) = 0
    BY <1>2 DEF MediaRows, Rank
  <2>4. Rank(s) = 1
    BY <1>2, <2>1 DEF Rank
  <2> QED
    BY <2>1, <2>2, <2>3, <2>4
<1>3. ASSUME r.status \in {"pending_upload", "active", "quarantined"},
             NEW s, s = [r EXCEPT !.status = "deleted", !.job = "open", !.live = FALSE]
      PROVE  s \in MediaRows /\ s.tenant = r.tenant /\ s.place = r.place /\ Rank(r) < Rank(s)
  <2>1. /\ s.status = "deleted" /\ s.job = "open" /\ s.tenant = r.tenant /\ s.place = r.place /\ s.live = FALSE
    BY <1>3 DEF MediaRows
  <2>2. s \in MediaRows
    BY <1>3 DEF MediaRows
  <2>3. Rank(r) \in {0, 1}
    BY <1>3 DEF MediaRows, Rank
  <2>4. Rank(s) = 2
    BY <1>3, <2>1 DEF Rank
  <2> QED
    BY <2>1, <2>2, <2>3, <2>4
<1>4. ASSUME r.job = "open",
             NEW s, s = [r EXCEPT !.status = "purged", !.job = "completed", !.live = FALSE]
      PROVE  s \in MediaRows /\ s.tenant = r.tenant /\ s.place = r.place /\ Rank(r) < Rank(s)
  <2>1. /\ s.status = "purged" /\ s.job = "completed" /\ s.tenant = r.tenant /\ s.place = r.place /\ s.live = FALSE
    BY <1>4 DEF MediaRows
  <2>2. s \in MediaRows
    BY <1>4 DEF MediaRows
  <2>3. Rank(r) = 2
    BY <1>4 DEF MediaRows, Rank
  <2>4. Rank(s) = 3
    BY <1>4, <2>1 DEF Rank
  <2> QED
    BY <2>1, <2>2, <2>3, <2>4
<1>5. ASSUME r.job = "open",
             NEW s, s = [r EXCEPT !.status = "deleted", !.job = "reconciliation_required", !.live = FALSE]
      PROVE  s \in MediaRows /\ s.tenant = r.tenant /\ s.place = r.place /\ Rank(r) < Rank(s)
  <2>1. /\ s.status = "deleted" /\ s.job = "reconciliation_required" /\ s.tenant = r.tenant /\ s.place = r.place /\ s.live = FALSE
    BY <1>5 DEF MediaRows
  <2>2. s \in MediaRows
    BY <1>5 DEF MediaRows
  <2>3. Rank(r) = 2
    BY <1>5 DEF MediaRows, Rank
  <2>4. Rank(s) = 3
    BY <1>5, <2>1 DEF Rank
  <2> QED
    BY <2>1, <2>2, <2>3, <2>4
<1> QED
  BY <1>1, <1>2, <1>3, <1>4, <1>5

LEMMA ChangedRow ==
  ASSUME media \in [MediaKeys -> Media0], NEW k \in MediaKeys, NEW s \in Media0, Becomes(media[k], s),
         media' = [media EXCEPT ![k] = s]
  PROVE  media' \in [MediaKeys -> Media0] /\ \A j \in MediaKeys : Becomes(media[j], media'[j])
<1>1. media'[k] = s /\ \A j \in MediaKeys : j # k => media'[j] = media[j]
  OBVIOUS
<1> QED
  BY <1>1 DEF Becomes

\* The world moves rows forward only.
LEMMA WorldMoves ==
  ASSUME ReconAssumption, ReconTypeOK, NEW k \in MediaKeys, WorldChanges(k)
  PROVE  /\ media' \in [MediaKeys -> Media0] /\ bucket' \in SUBSET MediaKeys
         /\ \A j \in MediaKeys : Becomes(media[j], media'[j])
<1>1. /\ media \in [MediaKeys -> Media0] /\ bucket \in SUBSET MediaKeys /\ media[k] \in Media0
      /\ options.tenants \in Seq(STRING)
  BY DEF ReconTypeOK, Media0, Options
<1>2. IsRow(k) => media[k] \in MediaRows
  BY <1>1 DEF IsRow, Media0
<1>3. CASE UNCHANGED media /\ bucket' \in SUBSET MediaKeys
  BY <1>1, <1>3 DEF Becomes
<1>4. ASSUME NEW s \in MediaRows, IsRow(k), media' = [media EXCEPT ![k] = s], UNCHANGED bucket,
             s.tenant = media[k].tenant /\ s.place = media[k].place,
             Rank(media[k]) < Rank(s) \/ (media[k].live /\ s = [media[k] EXCEPT !.live = FALSE])
      PROVE  /\ media' \in [MediaKeys -> Media0] /\ bucket' \in SUBSET MediaKeys
             /\ \A j \in MediaKeys : Becomes(media[j], media'[j])
  <2>1. s \in Media0 /\ s # NoMedia
    BY <1>4, NoMediaNoRow DEF Media0
  <2>2. Becomes(media[k], s)
    BY <1>4, <2>1 DEF Becomes
  <2> QED
    BY <1>1, <1>4, <2>1, <2>2, ChangedRow
<1>5. ASSUME NEW t \in {options.tenants[i] : i \in DOMAIN options.tenants}, CreateUpload(k, t)
      PROVE  /\ media' \in [MediaKeys -> Media0] /\ bucket' \in SUBSET MediaKeys
             /\ \A j \in MediaKeys : Becomes(media[j], media'[j])
  <2> DEFINE s == [tenant |-> t, place |-> "here", status |-> "pending_upload", job |-> "none", live |-> TRUE]
  <2>1. t \in STRING
    BY <1>1, <1>5
  <2>2. s \in Media0
    BY <2>1 DEF MediaRows, Media0
  <2>3. Becomes(media[k], s)
    BY <1>5 DEF CreateUpload, IsRow, Becomes
  <2>4. media' = [media EXCEPT ![k] = s] /\ UNCHANGED bucket
    BY <1>5 DEF CreateUpload
  <2> HIDE DEF s
  <2> QED
    BY <1>1, <2>2, <2>3, <2>4, ChangedRow
<1>6. CASE PutUpload(k) \/ PurgerDeletes(k) \/ BucketChanges(k)
  BY <1>1, <1>3, <1>6 DEF PutUpload, PurgerDeletes, BucketChanges
<1>7. ASSUME NEW status \in {"active", "quarantined"}, CompleteUpload(k, status)
      PROVE  /\ media' \in [MediaKeys -> Media0] /\ bucket' \in SUBSET MediaKeys
             /\ \A j \in MediaKeys : Becomes(media[j], media'[j])
  <2> DEFINE s == [media[k] EXCEPT !.status = status, !.job = "none", !.live = FALSE]
  <2>1. /\ IsRow(k) /\ media[k].live /\ UNCHANGED bucket
        /\ media' = [media EXCEPT ![k].status = status, ![k].job = "none", ![k].live = FALSE]
    BY <1>7 DEF CompleteUpload, ChangeRow, InBucket
  <2>2. media' = [media EXCEPT ![k] = s]
    BY <1>1, <2>1
  <2>3. s \in MediaRows /\ s.tenant = media[k].tenant /\ s.place = media[k].place /\ Rank(media[k]) < Rank(s)
    BY <1>2, <2>1, RowSteps
  <2> HIDE DEF s
  <2> QED
    BY <1>4, <2>1, <2>2, <2>3
<1>8. CASE SessionLapses(k)
  <2> DEFINE s == [media[k] EXCEPT !.live = FALSE]
  <2>1. /\ IsRow(k) /\ media[k].live /\ UNCHANGED bucket
        /\ media' = [media EXCEPT ![k].live = FALSE]
    BY <1>8 DEF SessionLapses
  <2>2. media' = [media EXCEPT ![k] = s]
    BY <1>1, <2>1
  <2>3. s \in MediaRows /\ s.tenant = media[k].tenant /\ s.place = media[k].place
    BY <1>2, <2>1, RowSteps
  <2>4. media[k].live /\ s = [media[k] EXCEPT !.live = FALSE]
    BY <2>1
  <2> HIDE DEF s
  <2> QED
    BY <1>4, <2>1, <2>2, <2>3, <2>4
<1>9. CASE RequestRemoval(k)
  <2> DEFINE s == [media[k] EXCEPT !.status = "deleted", !.job = "open", !.live = FALSE]
  <2>1. /\ IsRow(k) /\ media[k].status \in {"pending_upload", "active", "quarantined"} /\ UNCHANGED bucket
        /\ media' = [media EXCEPT ![k].status = "deleted", ![k].job = "open", ![k].live = FALSE]
    BY <1>9 DEF RequestRemoval, ChangeRow
  <2>2. media' = [media EXCEPT ![k] = s]
    BY <1>1, <2>1
  <2>3. s \in MediaRows /\ s.tenant = media[k].tenant /\ s.place = media[k].place /\ Rank(media[k]) < Rank(s)
    BY <1>2, <2>1, RowSteps
  <2> HIDE DEF s
  <2> QED
    BY <1>4, <2>1, <2>2, <2>3
<1>10. CASE PurgerEnds(k)
  <2> DEFINE s == [media[k] EXCEPT !.status = "purged", !.job = "completed", !.live = FALSE]
             t == [media[k] EXCEPT !.status = "deleted", !.job = "reconciliation_required", !.live = FALSE]
  <2>1. /\ IsRow(k) /\ media[k].job = "open" /\ UNCHANGED bucket
        /\ \/ media' = [media EXCEPT ![k].status = "purged", ![k].job = "completed", ![k].live = FALSE]
           \/ media' = [media EXCEPT ![k].status = "deleted", ![k].job = "reconciliation_required", ![k].live = FALSE]
    BY <1>10 DEF PurgerEnds, ChangeRow, InBucket
  <2>2. media' = [media EXCEPT ![k] = s] \/ media' = [media EXCEPT ![k] = t]
    BY <1>1, <2>1
  <2>3. /\ s \in MediaRows /\ s.tenant = media[k].tenant /\ s.place = media[k].place /\ Rank(media[k]) < Rank(s)
        /\ t \in MediaRows /\ t.tenant = media[k].tenant /\ t.place = media[k].place /\ Rank(media[k]) < Rank(t)
    BY <1>2, <2>1, RowSteps
  <2> HIDE DEF s, t
  <2> QED
    BY <1>4, <2>1, <2>2, <2>3
<1> QED
  BY <1>5, <1>6, <1>7, <1>8, <1>9, <1>10 DEF WorldChanges
-----------------------------------------------------------------------------
(* Pages. *)

LEMMA KeysFinite == ReconAssumption => /\ MediaKeys \subseteq Nat \ {0} /\ IsFiniteSet(MediaKeys)
                                       /\ \A S \in SUBSET MediaKeys : IsFiniteSet(S) /\ Cardinality(S) \in Nat
<1> SUFFICES ASSUME ReconAssumption
             PROVE  /\ MediaKeys \subseteq Nat \ {0} /\ IsFiniteSet(MediaKeys)
                    /\ \A S \in SUBSET MediaKeys : IsFiniteSet(S) /\ Cardinality(S) \in Nat
  OBVIOUS
<1>1. MediaKeys \subseteq Nat \ {0} /\ IsFiniteSet(MediaKeys)
  BY FS_Interval DEF MediaKeys, ReconAssumption
<1> QED
  BY <1>1, FS_Subset, FS_CardinalityType

\* ORDER BY id LIMIT n: what a page leaves out comes after it, and only a full page leaves something out.
LEMMA LowestIs ==
  ASSUME ReconAssumption, NEW S \in SUBSET MediaKeys, NEW n \in Nat
  PROVE  /\ Lowest(S, n) \in SUBSET S
         /\ \A j \in S \ Lowest(S, n) : /\ \A k \in Lowest(S, n) : k < j
                                        /\ n <= Cardinality(Lowest(S, n))
                                        /\ n < Cardinality(S)
<1> DEFINE below(k) == {j \in S : j < k}
           page == Lowest(S, n)
<1>1. page = {k \in S : Cardinality(below(k)) < n}
  BY DEF Lowest
<1>2. S \subseteq Nat /\ IsFiniteSet(S) /\ \A T \in SUBSET S : IsFiniteSet(T) /\ Cardinality(T) \in Nat
  BY KeysFinite
<1>3. \A k \in S : below(k) \in SUBSET S /\ \A j : j \in below(k) <=> j \in S /\ j < k
  OBVIOUS
<1> HIDE DEF page, below
<1>4. ASSUME NEW j \in S \ page, NEW k \in page PROVE k < j
  <2>1. SUFFICES ASSUME j < k PROVE FALSE
    <3>1. j \in Nat /\ k \in Nat /\ j # k
      BY <1>1, <1>2, <1>4
    <3> QED
      BY <3>1
  <2>2. below(j) \subseteq below(k)
    <3>1. \A i \in S : i \in Nat
      BY <1>2
    <3>2. k \in S /\ j \in S
      BY <1>1, <1>4
    <3> QED
      BY <1>3, <2>1, <3>1, <3>2
  <2>3. Cardinality(below(j)) <= Cardinality(below(k))
    BY <1>2, <1>3, <1>1, <1>4, <2>2, FS_Subset
  <2>4. Cardinality(below(k)) < n /\ Cardinality(below(k)) \in Nat /\ Cardinality(below(j)) \in Nat
    BY <1>1, <1>2, <1>3, <1>4
  <2>5. Cardinality(below(j)) < n
    BY <2>3, <2>4
  <2> QED
    BY <1>1, <1>4, <2>5
<1>5. ASSUME NEW j \in S \ page PROVE n <= Cardinality(page) /\ n < Cardinality(S)
  <2>1. PICK m \in S \ page : \A i \in S \ page : m <= i
    BY <1>2, <1>5, LeastNat
  <2>2. below(m) \subseteq page
    <3>1. \A i \in S : i \in Nat
      BY <1>2
    <3> QED
      BY <1>3, <2>1, <3>1
  <2>3. page \in SUBSET S
    BY <1>1
  <2>4. Cardinality(below(m)) <= Cardinality(page)
    BY <1>2, <2>2, <2>3, FS_Subset
  <2>5. ~(Cardinality(below(m)) < n)
    BY <1>1, <2>1
  <2>6. Cardinality(below(m)) \in Nat /\ Cardinality(page) \in Nat /\ Cardinality(S) \in Nat
    BY <1>2, <1>3, <2>1, <2>3
  <2>7. Cardinality(page \cup {j}) = Cardinality(page) + 1
    BY <1>2, <1>5, <2>3, FS_AddElement
  <2>8. page \cup {j} \subseteq S
    BY <1>5, <2>3
  <2>9. Cardinality(page \cup {j}) <= Cardinality(S)
    BY <1>2, <2>8, FS_Subset
  <2> QED
    BY <2>4, <2>5, <2>6, <2>7, <2>9
<1>6. page \in SUBSET S
  BY <1>1
<1> QED
  BY <1>4, <1>5, <1>6 DEF page

LEMMA GreatestIs ==
  ASSUME ReconAssumption, NEW S \in SUBSET MediaKeys, NEW otherwise \in Nat
  PROVE  /\ S = {} => Greatest(S, otherwise) = otherwise
         /\ S # {} => Greatest(S, otherwise) \in S /\ \A j \in S : j <= Greatest(S, otherwise)
         /\ Greatest(S, otherwise) \in Nat
<1>1. CASE S = {}
  BY <1>1 DEF Greatest
<1>2. CASE S # {}
  <2> DEFINE U == {u \in Nat : \A j \in S : j <= u}
  <2>1. S \subseteq Nat /\ LastKey \in U
    BY KeysFinite DEF MediaKeys, ReconAssumption
  <2>2. PICK m \in U : \A u \in U : m <= u
    BY <2>1, LeastNat
  <2>3. m \in S
    <3>1. SUFFICES ASSUME m \notin S PROVE FALSE
      OBVIOUS
    <3>2. \A j \in S : j \in Nat /\ j < m
      BY <2>1, <2>2, <3>1
    <3>3. m \in Nat /\ m # 0
      BY <1>2, <2>2, <3>2
    <3>4. m - 1 \in U
      BY <3>2, <3>3
    <3> QED
      BY <2>2, <3>3, <3>4
  <2>4. \E k \in S : \A j \in S : j <= k
    BY <2>2, <2>3
  <2>5. Greatest(S, otherwise) \in S /\ \A j \in S : j <= Greatest(S, otherwise)
    BY <1>2, <2>4 DEF Greatest
  <2> QED
    BY <1>2, <2>1, <2>5
<1> QED
  BY <1>1, <1>2
-----------------------------------------------------------------------------
(* The world changes. *)

\* What is known of every fact that has held ever since the scan began.
LEMMA AlwaysIs ==
  ASSUME ReconTypeOK, Truths, NEW f \in always
  PROVE  /\ f[1] \in MediaKeys /\ f = <<f[1], f[2]>>
         /\ InBucket(f[1]) => f[2] = Lifecycle(media[f[1]], Presence(f[1])) /\ f[2] # "orphan_candidate"
         /\ ~InBucket(f[1]) => f[2] = "orphan_candidate" /\ f[1] \in bucket
<1>1. f \in FactsOf(media, bucket) /\ bucket \in SUBSET MediaKeys
  BY FactsAre DEF Truths, ReconTypeOK
<1> QED
  BY <1>1, FactIs DEF Here, InBucket, IsRow, Presence

LEMMA OrphanIs ==
  ASSUME ReconTypeOK, Truths, NEW k, Orphan(k)
  PROVE  k \in MediaKeys /\ k \in bucket /\ ~InBucket(k)
<1>1. \A f \in always : f = <<k, "orphan_candidate">> => f[1] = k /\ f[2] = "orphan_candidate"
  OBVIOUS
<1> QED
  BY <1>1, AlwaysIs DEF Orphan

LEMMA VersionIs ==
  ASSUME NEW r \in MediaRows, NEW s \in MediaRows
  PROVE  /\ Version(r) = Version(s) <=> /\ r.tenant = s.tenant /\ r.place = s.place
                                        /\ r.status = s.status /\ r.job = s.job
         /\ Version(r) = Version(s) => Rank(r) = Rank(s)
         /\ Rank(r) \in Nat
<1>1. r # NoMedia /\ s # NoMedia
  BY NoMediaNoRow
<1>2. Version(r) = <<r.tenant, r.place, r.status, r.job>> /\ Version(s) = <<s.tenant, s.place, s.status, s.job>>
  BY <1>1 DEF Version
<1> QED
  BY <1>2 DEF Rank

\* A row that is what it was, or whose session has lapsed.
LEMMA Lapsed ==
  ASSUME NEW r \in MediaRows, NEW s \in MediaRows, r.live, s = [r EXCEPT !.live = FALSE]
  PROVE  Version(s) = Version(r) /\ \A a, b : Lifecycle(s, a) = Lifecycle(s, b)
<1>1. s.tenant = r.tenant /\ s.place = r.place /\ s.status = r.status /\ s.job = r.job /\ s.live = FALSE
      /\ r.status = "pending_upload"
  BY DEF MediaRows
<1>2. Version(s) = Version(r)
  BY <1>1, VersionIs
<1>3. \A a, b : Lifecycle(s, a) = Lifecycle(s, b)
  BY <1>1 DEF Lifecycle
<1> QED
  BY <1>2, <1>3

\* One look at a row survives a step of the world.
LEMMA RowLookStays ==
  ASSUME ReconTypeOK, Truths, NEW k \in MediaKeys, RowLook(k), UNCHANGED scan,
         media' \in [MediaKeys -> Media0], bucket' \in SUBSET MediaKeys, Becomes(media[k], media'[k]),
         ever' = ever \cup Facts', always' = always \cap Facts'
  PROVE  RowLook(k)'
<1> SUFFICES ASSUME NEW w, w = scan.work[k], NEW r, r = media[k], NEW s, s = media'[k] PROVE RowLook(k)'
  OBVIOUS
<1>1. /\ r # NoMedia /\ r \in MediaRows /\ r.place = "here" /\ w.seen # NoMedia /\ w.seen \in MediaRows
  BY DEF RowLook, InBucket, IsRow, ReconTypeOK, Media0, Scans, Looks
<1>2. s \in MediaRows /\ s # NoMedia /\ s.place = "here" /\ s.tenant = r.tenant
      /\ (s = r \/ (r.live /\ s = [r EXCEPT !.live = FALSE]) \/ Rank(r) < Rank(s))
  BY <1>1 DEF Becomes, Media0
<1>3. InBucket(k)'
  BY <1>2 DEF InBucket, IsRow
<1>4. Rank(r) \in Nat /\ Rank(s) \in Nat /\ Rank(w.seen) \in Nat
  BY <1>1, <1>2, VersionIs
<1>5. Version(r) = Version(w.seen) \/ Rank(w.seen) < Rank(r)
  BY DEF RowLook
<1>6. Version(s) = Version(w.seen) \/ Rank(w.seen) < Rank(s)
  <2>1. CASE s = r
    BY <1>5, <2>1
  <2>2. CASE r.live /\ s = [r EXCEPT !.live = FALSE]
    <3>1. Version(s) = Version(r)
      BY <1>1, <1>2, <2>2, Lapsed
    <3>2. Rank(s) = Rank(r)
      BY <1>1, <1>2, <3>1, VersionIs
    <3> QED
      BY <1>5, <3>1, <3>2
  <2>3. CASE Rank(r) < Rank(s)
    <3>1. Version(r) = Version(w.seen) => Rank(r) = Rank(w.seen)
      BY <1>1, VersionIs
    <3> QED
      BY <1>4, <1>5, <2>3, <3>1
  <2> QED
    BY <1>2, <2>1, <2>2, <2>3
<1>7. ASSUME w.head # "none", Version(s) = Version(w.seen)
      PROVE  <<k, Lifecycle(s, w.head)>> \in ever' /\ \A f \in always' : f[1] = k => f[2] = Lifecycle(s, w.head)
  <2>1. Rank(s) = Rank(w.seen)
    BY <1>1, <1>2, <1>7, VersionIs
  <2>2. ~(Rank(r) < Rank(s))
    <3>1. Version(r) = Version(w.seen) => Rank(r) = Rank(w.seen)
      BY <1>1, VersionIs
    <3> QED
      BY <1>4, <1>5, <2>1, <3>1
  <2>3. CASE s = r
    <3>1. <<k, Lifecycle(r, w.head)>> \in ever /\ \A f \in always : f[1] = k => f[2] = Lifecycle(r, w.head)
      BY <1>7, <2>3 DEF RowLook
    <3> QED
      BY <2>3, <3>1
  <2>4. CASE r.live /\ s = [r EXCEPT !.live = FALSE]
    <3> DEFINE today == IF k \in bucket' THEN "exists" ELSE "missing"
    <3>1. Lifecycle(s, w.head) = Lifecycle(s, today)
      BY <1>1, <1>2, <2>4, Lapsed
    <3>2. Here(media'[k])
      BY <1>2 DEF Here
    <3>3. <<k, Lifecycle(s, today)>> \in Facts'
      BY <3>2, IsFact, FactsAre
    <3>4. \A f \in Facts' : f[1] = k => f[2] = Lifecycle(s, today)
      <4>1. \A f \in FactsOf(media', bucket') : f[1] = k => f[2] = Lifecycle(s, today)
        BY <3>2, FactIs
      <4> QED
        BY <4>1, FactsAre
    <3> HIDE DEF today
    <3> QED
      BY <3>1, <3>3, <3>4
  <2> QED
    BY <1>2, <2>2, <2>3, <2>4
<1>8. /\ scan'.work[k] = w
      /\ media'[k] = s
  OBVIOUS
<1> QED
  BY <1>1, <1>3, <1>6, <1>7, <1>8 DEF RowLook

\* Nor do the facts that hold all along move.
LEMMA WorldFacts ==
  ASSUME ReconTypeOK, Truths, media' \in [MediaKeys -> Media0], bucket' \in SUBSET MediaKeys,
         \A j \in MediaKeys : Becomes(media[j], media'[j]),
         always' = always \cap Facts'
  PROVE  /\ \A j \in MediaKeys : InBucket(j) => InBucket(j)'
         /\ \A f \in always' : /\ f \in always
                               /\ InBucket(f[1])' => InBucket(f[1])
                               /\ InBucket(f[1]) => media'[f[1]].tenant = media[f[1]].tenant
<1>1. ASSUME NEW j \in MediaKeys, InBucket(j) PROVE InBucket(j)' /\ media'[j].tenant = media[j].tenant
  BY <1>1 DEF InBucket, IsRow, Becomes
<1>2. ASSUME NEW f \in always'
      PROVE  /\ f \in always /\ (InBucket(f[1])' => InBucket(f[1]))
             /\ (InBucket(f[1]) => media'[f[1]].tenant = media[f[1]].tenant)
  <2>1. f \in always /\ f \in FactsOf(media', bucket')
    BY <1>2, FactsAre
  <2>2. f[1] \in MediaKeys /\ (~InBucket(f[1]) => f[2] = "orphan_candidate")
    BY <2>1, AlwaysIs
  <2>3. Here(media'[f[1]]) => f[2] # "orphan_candidate"
    BY <2>1, FactIs
  <2>4. InBucket(f[1])' => Here(media'[f[1]])
    BY DEF InBucket, IsRow, Here
  <2> QED
    BY <1>1, <2>1, <2>2, <2>3, <2>4
<1> QED
  BY <1>1, <1>2

LEMMA WorldKeepsTruths ==
  ASSUME ReconTypeOK, Truths, media' \in [MediaKeys -> Media0], bucket' \in SUBSET MediaKeys,
         \A j \in MediaKeys : Becomes(media[j], media'[j]),
         UNCHANGED <<scan, observed>>, ever' = ever \cup Facts', always' = always \cap Facts'
  PROVE  Truths'
<1>1. always' \subseteq Facts' /\ Facts' \subseteq ever'
  OBVIOUS
<1>2. \A o \in observed' : o.class \in Said => <<o.on, o.class>> \in ever'
  BY DEF Truths
<1>3. \A o \in scan'.candidates : o.class = "orphan_candidate" => <<o.on, o.class>> \in ever'
  BY DEF Truths
<1>4. AtWork' = AtWork /\ AtWork \subseteq MediaKeys
  BY DEF AtWork
<1>5. ASSUME NEW j \in AtWork, scan.at = "database" PROVE RowLook(j)'
  BY <1>4, <1>5, RowLookStays DEF Truths
<1>6. ASSUME NEW j \in AtWork, scan.at = "recheck" PROVE ObjectLook(j)'
  <2>1. ObjectLook(j)
    BY <1>6 DEF Truths
  <2>2. InBucket(j) => InBucket(j)'
    BY <1>4, <1>6, WorldFacts
  <2> QED
    BY <2>1, <2>2 DEF ObjectLook
<1> QED
  BY <1>1, <1>2, <1>3, <1>4, <1>5, <1>6 DEF Truths

LEMMA WorldKeepsCoverage ==
  ASSUME ReconTypeOK, Truths, Coverage, media' \in [MediaKeys -> Media0], bucket' \in SUBSET MediaKeys,
         \A j \in MediaKeys : Becomes(media[j], media'[j]), scan.at # "done",
         UNCHANGED <<options, stopped, scan, observed, verdict>>, always' = always \cap Facts'
  PROVE  Coverage'
<1>1. /\ \A j \in MediaKeys : InBucket(j) => InBucket(j)'
      /\ \A f \in always' : /\ f \in always
                            /\ InBucket(f[1])' => InBucket(f[1])
                            /\ InBucket(f[1]) => media'[f[1]].tenant = media[f[1]].tenant
  BY WorldFacts
<1>2. /\ Clean' = Clean /\ AtWork' = AtWork /\ \A f : Seen(f)' = Seen(f)
      /\ \A j : Orphan(j)' => Orphan(j)
  BY DEF Clean, AtWork, Seen, Orphan
<1>3. \A f \in always' : \A i : InBucket(f[1])' /\ OfTenant(f[1], i)' => InBucket(f[1]) /\ OfTenant(f[1], i)
  BY <1>1 DEF InBucket, IsRow, OfTenant
<1>4. RowsReached => RowsReached'
  BY <1>1, <1>2, <1>3 DEF RowsReached
<1>5. ASSUME PageWhole({k \in MediaKeys : /\ OfTenant(k, scan.tenant) /\ scan.after < k
                                          /\ InBucket(k) /\ \E f \in always : f[1] = k})
      PROVE  PageWhole({k \in MediaKeys : /\ OfTenant(k, scan.tenant) /\ scan.after < k
                                          /\ InBucket(k) /\ \E f \in always : f[1] = k})'
  <2>1. {k \in MediaKeys : /\ OfTenant(k, scan.tenant) /\ scan.after < k
                                          /\ InBucket(k) /\ \E f \in always : f[1] = k}'
        \subseteq {k \in MediaKeys : /\ OfTenant(k, scan.tenant) /\ scan.after < k
                                          /\ InBucket(k) /\ \E f \in always : f[1] = k}
    BY <1>1, <1>3
  <2> QED
    BY <1>5, <2>1 DEF PageWhole
<1>6. \A f \in always' : f \in always
  BY <1>1
<1>7. scan.databaseComplete /\ Clean =>
       \A f \in always' : \A i \in DOMAIN options.tenants :
               InBucket(f[1])' /\ OfTenant(f[1], i)' => Seen(f)
  BY <1>1, <1>3 DEF Coverage
<1> QED
  BY <1>2, <1>4, <1>5, <1>7 DEF Coverage
-----------------------------------------------------------------------------
(* The scan goes on. *)

\* A step of the scan, for what it reads.
Unmoved == UNCHANGED <<media, bucket, options>> /\ ever' = ever /\ always' = always

LEMMA LooksStay ==
  ASSUME Unmoved, NEW j, scan'.work[j] = scan.work[j]
  PROVE  (RowLook(j) => RowLook(j)') /\ (ObjectLook(j) => ObjectLook(j)')
BY DEF Unmoved, RowLook, ObjectLook, InBucket, IsRow

LEMMA ScanKeepsTruths ==
  ASSUME Truths, Unmoved,
         \A o \in observed' : o \in observed \/ o.class \notin Said \/ <<o.on, o.class>> \in ever,
         \A o \in scan'.candidates : o \in scan.candidates \/ o.class # "orphan_candidate" \/ <<o.on, o.class>> \in ever,
         \A j \in AtWork' : /\ scan'.at = "database" => RowLook(j)'
                            /\ scan'.at = "recheck" => ObjectLook(j)'
  PROVE  Truths'
<1>1. Facts' = Facts
  BY FactsAre DEF Unmoved
<1> QED
  BY <1>1 DEF Truths, Unmoved

\* After a failure or a stop the report owes nothing.
LEMMA UncleanCovers ==
  ASSUME Coverage, UNCHANGED verdict, scan.at # "done", scan'.at # "done", ~Clean',
         scan'.finished = scan'.tenant - 1, scan'.at = "database" /\ scan'.reading => AtWork' = {}
  PROVE  Coverage'
BY DEF Coverage

\* What a failed read leaves behind.
LEMMA FailsIs ==
  ASSUME NEW s \in Scans, scan \in Scans, NEW which \in {"dbFailed", "storageFailed"}, Fails(s, which)
  PROVE  /\ scan' \in Scans /\ scan'.at = s.at /\ scan'.work = s.work /\ scan'.candidates = s.candidates
         /\ scan'.finished = s.finished /\ scan'.tenant = s.tenant /\ scan'.reading = s.reading /\ ~Clean'
         /\ \A o \in observed' : o \in observed \/ o.class \notin Said
<1>1. scan' = [s EXCEPT ![which] = TRUE, !.failures = @ + 1]
  BY DEF Fails
<1>4. \A o \in observed' : o \in observed \/ o.class \notin Said
  <2>1. observed' = observed \cup {[on |-> 0, class |-> "uncertain"]}
    BY DEF Fails, Observe
  <2>2. "uncertain" \notin Said
    BY DEF Said
  <2> QED
    BY <2>1, <2>2
<1>2. CASE which = "dbFailed"
  <2>1. scan' = [s EXCEPT !.dbFailed = TRUE, !.failures = s.failures + 1]
    BY <1>1, <1>2 DEF Scans
  <2>2. scan' \in Scans
    <3>1. s.failures + 1 \in Nat
      BY DEF Scans
    <3> QED
      BY <2>1, <3>1 DEF Scans
  <2>3. /\ scan'.at = s.at /\ scan'.work = s.work /\ scan'.candidates = s.candidates
        /\ scan'.finished = s.finished /\ scan'.tenant = s.tenant /\ scan'.reading = s.reading /\ scan'.dbFailed = TRUE
    BY <2>1 DEF Scans
  <2> QED
    BY <1>4, <2>2, <2>3 DEF Clean
<1>3. CASE which = "storageFailed"
  <2>1. scan' = [s EXCEPT !.storageFailed = TRUE, !.failures = s.failures + 1]
    BY <1>1, <1>3 DEF Scans
  <2>2. scan' \in Scans
    <3>1. s.failures + 1 \in Nat
      BY DEF Scans
    <3> QED
      BY <2>1, <3>1 DEF Scans
  <2>3. /\ scan'.at = s.at /\ scan'.work = s.work /\ scan'.candidates = s.candidates
        /\ scan'.finished = s.finished /\ scan'.tenant = s.tenant /\ scan'.reading = s.reading /\ scan'.storageFailed = TRUE
    BY <2>1 DEF Scans
  <2> QED
    BY <1>4, <2>2, <2>3 DEF Clean
<1> QED
  BY <1>2, <1>3

\* The invariant, but for the variables no step of the scan changes.
ScanInv == scan \in Scans /\ Truths /\ Coverage

LEMMA WorkTyped ==
  ASSUME ReconTypeOK
  PROVE  /\ scan.work \in [MediaKeys -> Looks] /\ AtWork \subseteq MediaKeys /\ InProgress \subseteq AtWork
         /\ NoWork \in [MediaKeys -> Looks]
         /\ \A S, look : /\ (\A k \in S \cap MediaKeys : look[k] \in Looks) => WorkOn(S, look) \in [MediaKeys -> Looks]
                         /\ \A k \in MediaKeys : WorkOn(S, look)[k] = IF k \in S THEN look[k] ELSE NotAtWork
         /\ \A k \in MediaKeys : /\ Without(scan.work, k) \in [MediaKeys -> Looks]
                                 /\ Without(scan.work, k)[k] = NotAtWork
                                 /\ \A j \in MediaKeys : j # k => Without(scan.work, k)[j] = scan.work[j]
<1>1. NotAtWork \in Looks
  BY DEF NotAtWork, Looks
<1>2. scan.work \in [MediaKeys -> Looks]
  BY DEF ReconTypeOK, Scans
<1>3. InProgress \subseteq AtWork /\ AtWork \subseteq MediaKeys
  BY DEF InProgress, Lowest, AtWork
<1>4. NoWork \in [MediaKeys -> Looks]
  BY <1>1 DEF NoWork
<1>5. ASSUME NEW S, NEW look
      PROVE  /\ (\A k \in S \cap MediaKeys : look[k] \in Looks) => WorkOn(S, look) \in [MediaKeys -> Looks]
             /\ \A k \in MediaKeys : WorkOn(S, look)[k] = IF k \in S THEN look[k] ELSE NotAtWork
  BY <1>1 DEF WorkOn
<1>6. ASSUME NEW k \in MediaKeys
      PROVE  /\ Without(scan.work, k) \in [MediaKeys -> Looks]
             /\ Without(scan.work, k)[k] = NotAtWork
             /\ \A j \in MediaKeys : j # k => Without(scan.work, k)[j] = scan.work[j]
  BY <1>1, <1>2 DEF Without
<1> QED
  BY <1>2, <1>3, <1>4, <1>5, <1>6

LEMMA StopKeeps ==
  ASSUME ReconInv, Unmoved, Stop, UNCHANGED verdict
  PROVE  ScanInv'
<1>1. ReconTypeOK /\ Truths /\ Coverage /\ scan \in Scans
  BY DEF ReconInv, ReconTypeOK
<1> DEFINE work == WorkOn(InProgress, scan.work)
<1>2. /\ scan' = [scan EXCEPT !.work = work] /\ scan.at # "done" /\ stopped' # "no" /\ observed' = observed
  BY DEF Stop
<1>3. /\ work \in [MediaKeys -> Looks] 
      /\ \A k \in MediaKeys : work[k] = IF k \in InProgress THEN scan.work[k] ELSE NotAtWork
  BY <1>1, WorkTyped
<1> HIDE DEF work
<1>4. /\ scan' \in Scans /\ scan'.at = scan.at /\ scan'.work = work /\ scan'.candidates = scan.candidates
      /\ scan'.finished = scan.finished /\ scan'.tenant = scan.tenant /\ scan'.reading = scan.reading
  BY <1>1, <1>2, <1>3 DEF Scans
<1>5. \A j \in AtWork' : j \in AtWork /\ scan'.work[j] = scan.work[j]
  BY <1>3, <1>4 DEF AtWork, NotAtWork
<1>6. Truths'
  BY <1>1, <1>2, <1>4, <1>5, LooksStay, ScanKeepsTruths DEF Truths
<1>7. Coverage'
  BY <1>1, <1>2, <1>4, <1>5, UncleanCovers DEF Clean, Coverage
<1> QED
  BY <1>4, <1>6, <1>7 DEF ScanInv

\* A step of the reads that are under way.
LEMMA WorkStepCovers ==
  ASSUME Coverage, Unmoved, UNCHANGED <<verdict, stopped>>, scan.at # "done",
         scan'.at = scan.at, scan'.tenant = scan.tenant, scan'.after = scan.after, scan'.reading = scan.reading,
         scan'.page = scan.page, scan'.finished = scan.finished, scan'.databaseComplete = scan.databaseComplete,
         scan'.token = scan.token, scan'.truncated = scan.truncated,
         scan'.inventoryComplete = scan.inventoryComplete, scan'.provisional = scan.provisional,
         scan'.dbFailed = scan.dbFailed, scan'.storageFailed = scan.storageFailed,
         observed \subseteq observed', scan.candidates \subseteq scan'.candidates, AtWork' \subseteq AtWork,
         scan.at = "database" => \A f \in always : f[1] \in AtWork => f[1] \in AtWork' \/ Seen(f)',
         scan.at = "recheck" => \A k \in AtWork : Orphan(k) =>
           k \in AtWork' \/ [on |-> k, class |-> "orphan_candidate"] \in scan'.candidates
  PROVE  Coverage'
<1>1. /\ Clean' = Clean /\ (\A f : Seen(f) => Seen(f)') /\ \A k : Orphan(k)' = Orphan(k)
      /\ \A k, i : OfTenant(k, i)' = OfTenant(k, i)
      /\ \A k : InBucket(k)' = InBucket(k)
      /\ always' = always /\ options' = options
  BY DEF Clean, Seen, Orphan, OfTenant, IsRow, InBucket, Unmoved
<1>2. scan.at = "database" /\ RowsReached => RowsReached'
  BY <1>1 DEF RowsReached
<1>3. PageWhole({k \in MediaKeys : /\ OfTenant(k, scan.tenant) /\ scan.after < k
                                   /\ InBucket(k) /\ \E f \in always : f[1] = k})
      => PageWhole({k \in MediaKeys : /\ OfTenant(k, scan.tenant) /\ scan.after < k
                                      /\ InBucket(k) /\ \E f \in always : f[1] = k})'
  BY <1>1 DEF PageWhole
<1>4. /\ scan'.finished = scan'.tenant - 1
      /\ scan'.at = "database" /\ scan'.reading => AtWork' = {}
  BY DEF Coverage
<1>5. scan'.databaseComplete /\ Clean' =>
       /\ scan'.at # "database"
       /\ \A f \in always' : \A i \in DOMAIN options'.tenants :
               InBucket(f[1])' /\ OfTenant(f[1], i)' => Seen(f)'
  BY <1>1 DEF Coverage
<1>6. /\ scan'.at \in {"database", "inventory", "matching"} /\ Clean' =>
           \A k \in MediaKeys : Orphan(k)' /\ k <= scan'.token => k \in scan'.provisional
      /\ scan'.at = "matching" /\ Clean' =>
           \A k \in MediaKeys : Orphan(k)' /\ scan'.token < k /\ k \notin scan'.page =>
              scan'.truncated /\ \A j \in scan'.page : j < k
      /\ scan'.at \in {"recheck", "done"} /\ scan'.inventoryComplete /\ Clean' =>
           \A k \in MediaKeys : Orphan(k)' => k \in scan'.provisional
  BY <1>1 DEF Coverage
<1>7. scan'.at = "recheck" /\ scan'.inventoryComplete /\ scan'.databaseComplete /\ Clean' =>
       \A k \in scan'.provisional : Orphan(k)' =>
          k \in AtWork' \/ [on |-> k, class |-> "orphan_candidate"] \in scan'.candidates
  BY <1>1 DEF Coverage
<1>8. scan'.at # "done" /\ verdict' = NoReport
  BY DEF Coverage
<1>9. scan'.at = "database" /\ Clean' => RowsReached' /\ (~scan'.reading =>
            PageWhole({k \in MediaKeys : /\ OfTenant(k, scan.tenant) /\ scan.after < k
                                         /\ InBucket(k) /\ \E f \in always : f[1] = k})')
  BY <1>1, <1>2, <1>3 DEF Coverage
<1> QED
  BY <1>4, <1>5, <1>6, <1>7, <1>8, <1>9 DEF Coverage

\* A look that failed.
LEMMA FailedLookKeeps ==
  ASSUME ReconInv, Unmoved, NEW k \in AtWork, NEW which \in {"dbFailed", "storageFailed"}, scan.at # "done",
         Fails([scan EXCEPT !.work = Without(@, k)], which), UNCHANGED verdict
  PROVE  ScanInv'
<1>1. ReconTypeOK /\ Truths /\ Coverage /\ scan \in Scans /\ k \in MediaKeys
  BY WorkTyped DEF ReconInv, ReconTypeOK
<1> DEFINE work == Without(scan.work, k)
           s == [scan EXCEPT !.work = work]
<1>2. work \in [MediaKeys -> Looks] /\ work[k] = NotAtWork /\ \A j \in MediaKeys : j # k => work[j] = scan.work[j]
  BY <1>1, WorkTyped
<1>3. Fails(s, which)
  OBVIOUS
<1> HIDE DEF work
<1>4. /\ s \in Scans /\ s.at = scan.at /\ s.work = work /\ s.candidates = scan.candidates
      /\ s.finished = scan.finished /\ s.tenant = scan.tenant /\ s.reading = scan.reading
  BY <1>1, <1>2 DEF Scans
<1> HIDE DEF s
<1>5. /\ scan' \in Scans /\ scan'.at = s.at /\ scan'.work = s.work /\ scan'.candidates = s.candidates
      /\ scan'.finished = s.finished /\ scan'.tenant = s.tenant /\ scan'.reading = s.reading /\ ~Clean'
      /\ \A o \in observed' : o \in observed \/ o.class \notin Said
  BY <1>1, <1>3, <1>4, FailsIs
<1>6. \A j \in AtWork' : j \in AtWork /\ scan'.work[j] = scan.work[j]
  BY <1>2, <1>4, <1>5 DEF AtWork, NotAtWork
<1>7. Truths'
  BY <1>1, <1>4, <1>5, <1>6, LooksStay, ScanKeepsTruths DEF Truths
<1>8. Coverage'
  BY <1>1, <1>4, <1>5, <1>6, UncleanCovers DEF Coverage
<1> QED
  BY <1>5, <1>7, <1>8 DEF ScanInv

LEMMA HeadKeeps ==
  ASSUME ReconInv, Unmoved, NEW k \in MediaKeys, HeadObject(k), UNCHANGED <<verdict, stopped>>
  PROVE  ScanInv'
<1>1. ReconTypeOK /\ Truths /\ Coverage /\ scan \in Scans /\ k \in AtWork /\ scan.at \in {"database", "recheck"}
      /\ Presence(k) \in {"exists", "missing"} /\ scan.work \in [MediaKeys -> Looks] /\ AtWork \subseteq MediaKeys
      /\ scan.work[k].head = "none"
  BY WorkTyped DEF ReconInv, ReconTypeOK, HeadObject, Reads, Presence
<1>2. CASE scan' = [scan EXCEPT !.work[k].head = Presence(k)] /\ UNCHANGED observed
  <2> DEFINE w == [scan.work[k] EXCEPT !.head = Presence(k)]
             work == [scan.work EXCEPT ![k] = w]
  <2>1. w \in Looks /\ w.head = Presence(k) /\ w.seen = scan.work[k].seen
    BY <1>1 DEF Looks
  <2>2. scan' = [scan EXCEPT !.work = work]
    BY <1>1, <1>2 DEF Scans
  <2> HIDE DEF w
  <2>3. work \in [MediaKeys -> Looks] /\ work[k] = w /\ \A j \in MediaKeys : j # k => work[j] = scan.work[j]
    BY <1>1, <2>1
  <2> HIDE DEF work
  <2>4. /\ scan' \in Scans /\ scan'.work = work /\ scan'.at = scan.at /\ scan'.tenant = scan.tenant
        /\ scan'.after = scan.after /\ scan'.reading = scan.reading
        /\ scan'.page = scan.page /\ scan'.finished = scan.finished /\ scan'.databaseComplete = scan.databaseComplete
        /\ scan'.token = scan.token /\ scan'.truncated = scan.truncated
        /\ scan'.inventoryComplete = scan.inventoryComplete /\ scan'.provisional = scan.provisional
        /\ scan'.dbFailed = scan.dbFailed /\ scan'.storageFailed = scan.storageFailed
        /\ scan'.candidates = scan.candidates
    BY <1>1, <2>2, <2>3 DEF Scans
  <2>5. AtWork' = AtWork
    BY <1>1, <2>1, <2>3, <2>4 DEF AtWork
  <2>6. scan.at = "database" => RowLook(k)'
    <3>1. SUFFICES ASSUME scan.at = "database" PROVE RowLook(k)'
      OBVIOUS
    <3>2. RowLook(k)
      BY <1>1, <3>1 DEF Truths
    <3>3. <<k, Lifecycle(media[k], Presence(k))>> \in ever
      <4>1. InBucket(k) /\ Facts \subseteq ever
        BY <1>1, <3>2 DEF RowLook, Truths
      <4> QED
        BY <4>1 DEF Facts
    <3>4. \A f \in always : f[1] = k => f[2] = Lifecycle(media[k], Presence(k))
      BY <1>1, <3>2, AlwaysIs DEF RowLook
    <3> QED
      BY <2>1, <2>3, <2>4, <3>2, <3>3, <3>4 DEF RowLook, Unmoved, InBucket, IsRow
  <2>7. scan.at = "recheck" => ObjectLook(k)'
    <3>1. Presence(k) = "exists" /\ ~InBucket(k) => <<k, "orphan_candidate">> \in ever
      BY <1>1 DEF Presence, Truths, Facts
    <3>2. Presence(k) = "missing" => ~Orphan(k)
      BY <1>1, OrphanIs DEF Presence
    <3> QED
      BY <2>1, <2>3, <2>4, <3>1, <3>2 DEF ObjectLook, Orphan, Unmoved, InBucket, IsRow
  <2>8. Truths'
    <3>1. \A j \in AtWork' : /\ scan'.at = "database" => RowLook(j)'
                             /\ scan'.at = "recheck" => ObjectLook(j)'
      BY <1>1, <2>3, <2>4, <2>5, <2>6, <2>7, LooksStay DEF Truths
    <3> QED
      BY <1>1, <1>2, <2>4, <3>1, ScanKeepsTruths
  <2>9. Coverage'
    BY <1>1, <1>2, <2>4, <2>5, WorkStepCovers
  <2> QED
    BY <2>4, <2>8, <2>9 DEF ScanInv
<1>3. CASE Fails([scan EXCEPT !.work = Without(@, k)], "storageFailed")
  BY <1>1, <1>3, FailedLookKeeps
<1> QED
  BY <1>2, <1>3 DEF HeadObject

\* The look is over.
LEMMA LookEnds ==
  ASSUME ReconTypeOK, NEW k \in MediaKeys, NEW cs \in SUBSET Candidates,
         scan' = [scan EXCEPT !.work = Without(@, k), !.candidates = cs]
  PROVE  /\ scan' \in Scans /\ scan'.at = scan.at /\ scan'.tenant = scan.tenant
         /\ scan'.after = scan.after /\ scan'.reading = scan.reading
         /\ scan'.page = scan.page /\ scan'.finished = scan.finished /\ scan'.databaseComplete = scan.databaseComplete
         /\ scan'.token = scan.token /\ scan'.truncated = scan.truncated
         /\ scan'.inventoryComplete = scan.inventoryComplete /\ scan'.provisional = scan.provisional
         /\ scan'.dbFailed = scan.dbFailed /\ scan'.storageFailed = scan.storageFailed
         /\ scan'.candidates = cs
         /\ AtWork' = AtWork \ {k} /\ \A j \in MediaKeys : j # k => scan'.work[j] = scan.work[j]
<1> DEFINE work == Without(scan.work, k)
<1>1. /\ scan \in Scans /\ work \in [MediaKeys -> Looks] /\ work[k] = NotAtWork
      /\ \A j \in MediaKeys : j # k => work[j] = scan.work[j]
  BY WorkTyped DEF ReconTypeOK
<1>2. scan' = [scan EXCEPT !.work = work, !.candidates = cs]
  OBVIOUS
<1> HIDE DEF work
<1>3. scan' \in Scans /\ scan'.work = work /\ scan'.at = scan.at /\ scan'.tenant = scan.tenant
         /\ scan'.after = scan.after /\ scan'.reading = scan.reading
         /\ scan'.page = scan.page /\ scan'.finished = scan.finished /\ scan'.databaseComplete = scan.databaseComplete
         /\ scan'.token = scan.token /\ scan'.truncated = scan.truncated
         /\ scan'.inventoryComplete = scan.inventoryComplete /\ scan'.provisional = scan.provisional
         /\ scan'.dbFailed = scan.dbFailed /\ scan'.storageFailed = scan.storageFailed
         /\ scan'.candidates = cs
  BY <1>1, <1>2, ZenonT(40) DEF Scans
<1>4. AtWork' = AtWork \ {k}
  BY <1>1, <1>3 DEF AtWork, NotAtWork
<1> QED
  BY <1>1, <1>3, <1>4

\* What is said of a row was so when the HEAD was answered, or the row has changed since.
LEMMA ReadAgainKeeps ==
  ASSUME ReconInv, Unmoved, NEW k \in MediaKeys, ReadAgain(k), UNCHANGED <<verdict, stopped>>
  PROVE  ScanInv'
<1> DEFINE w == scan.work[k]
           class == IF Version(media[k]) # Version(w.seen) THEN "lifecycle_changed"
                    ELSE Lifecycle(media[k], w.head)
<1>1. ReconTypeOK /\ Truths /\ Coverage /\ scan \in Scans /\ k \in AtWork /\ scan.at = "database"
      /\ AtWork \subseteq MediaKeys /\ scan.candidates \in SUBSET Candidates /\ w.head # "none"
  BY WorkTyped DEF ReconInv, ReconTypeOK, ReadAgain, Scans
<1>2. CASE scan' = [scan EXCEPT !.work = Without(@, k)] /\ Observe(k, class)
  <2>1. scan' = [scan EXCEPT !.work = Without(@, k), !.candidates = scan.candidates]
    BY <1>1, <1>2 DEF Scans
  <2>2. /\ scan' \in Scans /\ scan'.at = scan.at /\ scan'.tenant = scan.tenant
        /\ scan'.after = scan.after /\ scan'.reading = scan.reading
        /\ scan'.page = scan.page /\ scan'.finished = scan.finished /\ scan'.databaseComplete = scan.databaseComplete
        /\ scan'.token = scan.token /\ scan'.truncated = scan.truncated
        /\ scan'.inventoryComplete = scan.inventoryComplete /\ scan'.provisional = scan.provisional
        /\ scan'.dbFailed = scan.dbFailed /\ scan'.storageFailed = scan.storageFailed
        /\ scan'.candidates = scan.candidates
        /\ AtWork' = AtWork \ {k} /\ \A j \in MediaKeys : j # k => scan'.work[j] = scan.work[j]
    BY <1>1, <2>1, LookEnds
  <2>3. /\ class \in Said => <<k, class>> \in ever
        /\ \A f \in always : f[1] = k => class \in {f[2], "lifecycle_changed"}
    <3>1. RowLook(k) /\ "lifecycle_changed" \notin Said
      BY <1>1 DEF Truths, Said
    <3> QED
      BY <1>1, <3>1 DEF RowLook
  <2> HIDE DEF class
  <2>4. observed' = observed \cup {[on |-> k, class |-> class]}
    BY <1>2 DEF Observe
  <2>5. Truths'
    <3>1. \A j \in AtWork' : scan'.at = "database" => RowLook(j)'
      BY <1>1, <2>2, LooksStay DEF Truths
    <3> QED
      BY <1>1, <2>2, <2>3, <2>4, <3>1, ScanKeepsTruths
  <2>6. \A f \in always : f[1] \in AtWork => f[1] \in AtWork' \/ Seen(f)'
    <3>1. [on |-> k, class |-> class] \in observed' /\ [on |-> k, class |-> class].on = k
          /\ [on |-> k, class |-> class].class = class
      BY <2>4
    <3>2. ASSUME NEW f \in always, f[1] = k PROVE Seen(f)'
      <4>1. class \in {f[2], "lifecycle_changed"}
        BY <2>3, <3>2
      <4> QED
        BY <3>1, <3>2, <4>1 DEF Seen
    <3> QED
      BY <2>2, <3>2
  <2>7. Coverage'
    BY <1>1, <2>2, <2>4, <2>6, WorkStepCovers
  <2> QED
    BY <2>2, <2>5, <2>7 DEF ScanInv
<1>3. CASE Fails([scan EXCEPT !.work = Without(@, k)], "dbFailed")
  BY <1>1, <1>3, FailedLookKeeps
<1> QED
  BY <1>2, <1>3 DEF ReadAgain

LEMMA MatchAgainKeeps ==
  ASSUME ReconInv, Unmoved, NEW k \in MediaKeys, MatchAgain(k), UNCHANGED <<verdict, stopped>>
  PROVE  ScanInv'
<1> DEFINE w == scan.work[k]
           class == IF MetadataExists(k) THEN "metadata_object"
                    ELSE IF w.head = "missing" THEN "inventory_changed" ELSE "orphan_candidate"
           c == [on |-> k, class |-> class]
           cs == scan.candidates \cup {c}
<1>1. ReconTypeOK /\ Truths /\ Coverage /\ scan \in Scans /\ k \in AtWork /\ scan.at = "recheck"
      /\ AtWork \subseteq MediaKeys /\ scan.candidates \in SUBSET Candidates /\ w.head # "none"
      /\ w.head \in {"idle", "none", "exists", "missing"} /\ w.head # "idle"
  BY WorkTyped DEF ReconInv, ReconTypeOK, MatchAgain, Scans, Looks, AtWork
<1>2. CASE scan' = [scan EXCEPT !.work = Without(@, k), !.candidates = @ \cup {c}] /\ UNCHANGED observed
  <2>1. scan' = [scan EXCEPT !.work = Without(@, k), !.candidates = cs]
    BY <1>1, <1>2 DEF Scans
  <2>2. cs \in SUBSET Candidates
    BY <1>1 DEF Candidates
  <2>3. /\ class = "orphan_candidate" => <<k, class>> \in ever
        /\ Orphan(k) => class = "orphan_candidate"
    <3>1. ObjectLook(k)
      BY <1>1 DEF Truths
    <3>2. Orphan(k) => ~InBucket(k) /\ w.head # "missing"
      BY <1>1, <3>1, OrphanIs DEF ObjectLook, Orphan
    <3> QED
      BY <1>1, <3>1, <3>2 DEF ObjectLook, MetadataExists
  <2>4. c.on = k /\ c.class = class
    OBVIOUS
  <2>5. Orphan(k) => [on |-> k, class |-> "orphan_candidate"] \in cs
    BY <2>3
  <2> HIDE DEF class
  <2>6. \A d \in cs : d \in scan.candidates \/ d.class # "orphan_candidate" \/ <<d.on, d.class>> \in ever
    BY <2>3, <2>4
  <2> HIDE DEF cs, c
  <2>7. scan.candidates \subseteq cs
    BY DEF cs
  <2>8. /\ scan' \in Scans /\ scan'.at = scan.at /\ scan'.tenant = scan.tenant
        /\ scan'.after = scan.after /\ scan'.reading = scan.reading
        /\ scan'.page = scan.page /\ scan'.finished = scan.finished /\ scan'.databaseComplete = scan.databaseComplete
        /\ scan'.token = scan.token /\ scan'.truncated = scan.truncated
        /\ scan'.inventoryComplete = scan.inventoryComplete /\ scan'.provisional = scan.provisional
        /\ scan'.dbFailed = scan.dbFailed /\ scan'.storageFailed = scan.storageFailed
        /\ scan'.candidates = cs
        /\ AtWork' = AtWork \ {k} /\ \A j \in MediaKeys : j # k => scan'.work[j] = scan.work[j]
    BY <1>1, <2>1, <2>2, LookEnds
  <2>9. Truths'
    <3>1. \A j \in AtWork' : scan'.at = "recheck" => ObjectLook(j)'
      BY <1>1, <2>8, LooksStay DEF Truths
    <3> QED
      BY <1>1, <1>2, <2>6, <2>8, <3>1, ScanKeepsTruths
  <2>10. Coverage'
    <3>1. \A j \in AtWork : Orphan(j) => j \in AtWork' \/ [on |-> j, class |-> "orphan_candidate"] \in scan'.candidates
      BY <2>5, <2>8
    <3> QED
      BY <1>1, <1>2, <2>7, <2>8, <3>1, WorkStepCovers
  <2> QED
    BY <2>8, <2>9, <2>10 DEF ScanInv
<1>3. CASE Fails([scan EXCEPT !.work = Without(@, k)], "dbFailed")
  BY <1>1, <1>3, FailedLookKeeps
<1> QED
  BY <1>2, <1>3 DEF MatchAgain

\* The objects come after the rows.
LEMMA SweptIs ==
  ASSUME NEW s \in Scans
  PROVE  /\ Swept(s) \in Scans /\ Swept(s).at = "inventory" /\ Swept(s).work = s.work
         /\ Swept(s).databaseComplete => s.finished = Len(options.tenants)
         /\ Swept(s).tenant = s.tenant /\ Swept(s).finished = s.finished /\ Swept(s).reading = s.reading
         /\ Swept(s).token = s.token /\ Swept(s).provisional = s.provisional /\ Swept(s).candidates = s.candidates
         /\ Swept(s).dbFailed = s.dbFailed /\ Swept(s).storageFailed = s.storageFailed
<1> DEFINE c == s.finished = Len(options.tenants) /\ ~s.dbFailed /\ stopped = "no"
<1>1. Swept(s) = [s EXCEPT !.at = "inventory", !.databaseComplete = c]
  BY DEF Swept
<1>2. c \in BOOLEAN /\ (c => s.finished = Len(options.tenants))
  OBVIOUS
<1> HIDE DEF c
<1> QED
  BY <1>1, <1>2 DEF Scans

\* Between the rounds of reads no look is under way that says anything.
LEMMA NoLooks ==
  ASSUME ReconTypeOK, scan.work = NoWork
  PROVE  AtWork = {}
BY DEF NoWork, AtWork, NotAtWork

LEMMA ReadPageKeeps ==
  ASSUME ReconAssumption, ReconInv, Unmoved, ReadPage, UNCHANGED <<verdict, stopped>>
  PROVE  ScanInv'
<1> DEFINE t == options.tenants[scan.tenant]
           S == {k \in RowsOf(t) : k > scan.after}
           rows == Lowest(S, options.pageSize)
           here == {k \in rows : media[k].place = "here"}
           look == [k \in MediaKeys |-> Look(media[k])]
           work == WorkOn(here, look)
           withRows == IF rows = {} THEN scan.withRows ELSE scan.withRows \cup {scan.tenant}
           misconfigured == scan.misconfigured \/ rows # here
<1>1. ReconTypeOK /\ Truths /\ Coverage /\ scan \in Scans /\ scan.at = "database" /\ scan.reading /\ AtWork = {}
      /\ media \in [MediaKeys -> MediaRows \cup {NoMedia}] /\ options.pageSize \in Nat
  BY DEF ReconInv, ReconTypeOK, ReadPage, Coverage, Options
<1>2. scan' = [scan EXCEPT !.reading = FALSE, !.pages = scan.pages + 1, !.page = rows, !.work = work,
                           !.withRows = withRows, !.misconfigured = misconfigured]
  BY <1>1 DEF ReadPage, Scans
<1>3. \A o \in observed' : o \in observed \/ o.class \notin Said
  <2> DEFINE u == [on |-> 0, class |-> "uncertain"]
  <2>1. observed' = observed \cup {u : k \in rows \ here}
    BY DEF ReadPage
  <2>2. u.class \notin Said
    BY DEF Said
  <2> HIDE DEF rows, here, u
  <2> QED
    BY <2>1, <2>2
<1>4. observed \subseteq observed'
  BY DEF ReadPage
<1>5. /\ S \in SUBSET MediaKeys
      /\ \A k \in MediaKeys : k \in S <=> OfTenant(k, scan.tenant) /\ k > scan.after
  BY DEF RowsOf, OfTenant
<1> HIDE DEF S
<1>6. /\ rows \in SUBSET S
      /\ \A j \in S \ rows : options.pageSize <= Cardinality(rows) /\ \A k \in rows : k < j
  BY <1>1, <1>5, LowestIs
<1> HIDE DEF rows
<1>7. /\ here \in SUBSET MediaKeys /\ \A k \in MediaKeys : k \in here <=> k \in rows /\ InBucket(k)
  BY <1>5, <1>6 DEF InBucket, OfTenant
<1> HIDE DEF here
<1>8. \A k \in here : /\ look[k] \in Looks /\ look[k].seen = media[k] /\ look[k].head = "none"
                      /\ look[k].head # "idle"
  BY <1>1, <1>7 DEF Look, Looks
<1> HIDE DEF look
<1>9. work \in [MediaKeys -> Looks] /\ \A k \in MediaKeys : work[k] = IF k \in here THEN look[k] ELSE NotAtWork
  BY <1>1, <1>8, WorkTyped
<1> HIDE DEF work
<1>10. /\ withRows \in SUBSET Nat /\ misconfigured \in BOOLEAN /\ scan.pages + 1 \in Nat /\ rows \in SUBSET MediaKeys
  BY <1>1, <1>5, <1>6 DEF Scans
<1> HIDE DEF withRows, misconfigured
<1>11. /\ scan' \in Scans /\ scan'.work = work /\ scan'.at = scan.at /\ scan'.tenant = scan.tenant
       /\ scan'.after = scan.after /\ scan'.reading = FALSE
       /\ scan'.page = rows /\ scan'.finished = scan.finished /\ scan'.databaseComplete = scan.databaseComplete
       /\ scan'.token = scan.token /\ scan'.truncated = scan.truncated
       /\ scan'.inventoryComplete = scan.inventoryComplete /\ scan'.provisional = scan.provisional
       /\ scan'.dbFailed = scan.dbFailed /\ scan'.storageFailed = scan.storageFailed
       /\ scan'.candidates = scan.candidates
  BY <1>1, <1>2, <1>9, <1>10 DEF Scans
<1>12. AtWork' = here
  BY <1>7, <1>8, <1>9, <1>11 DEF AtWork, NotAtWork
<1>13. Truths'
  <2>1. ASSUME NEW j \in here PROVE RowLook(j)'
    <3>1. scan'.work[j] = look[j] /\ InBucket(j)
      BY <1>7, <1>9, <1>11, <2>1
    <3>2. InBucket(j)' /\ media'[j] = media[j] /\ media[j] # NoMedia
      BY <3>1 DEF Unmoved, InBucket, IsRow
    <3> QED
      BY <1>8, <2>1, <3>1, <3>2 DEF RowLook
  <2> QED
    BY <1>1, <1>3, <1>11, <1>12, <2>1, ScanKeepsTruths
<1>14. Coverage'
  <2>1. /\ Clean' = Clean /\ (\A f : Seen(f) => Seen(f)') /\ (\A k : Orphan(k)' = Orphan(k))
        /\ (\A k, i : OfTenant(k, i)' = OfTenant(k, i)) /\ (\A k : InBucket(k)' = InBucket(k))
        /\ always' = always /\ options' = options
    BY <1>4, <1>11 DEF Clean, Seen, Orphan, OfTenant, IsRow, InBucket, Unmoved
  <2>2. ASSUME RowsReached PROVE RowsReached'
    <3>1. ASSUME NEW f \in always, NEW i \in DOMAIN options.tenants, InBucket(f[1]), OfTenant(f[1], i),
                 i < scan.tenant \/ (i = scan.tenant /\ (f[1] <= scan.after \/ f[1] \in rows))
          PROVE  Seen(f)' \/ f[1] \in AtWork'
      <4>1. CASE i < scan.tenant \/ (i = scan.tenant /\ f[1] <= scan.after)
        BY <1>1, <2>1, <2>2, <3>1, <4>1 DEF RowsReached
      <4>2. CASE f[1] \in rows
        BY <1>7, <1>10, <1>12, <3>1, <4>2
      <4> QED
        BY <3>1, <4>1, <4>2
    <3> QED
      BY <1>11, <2>1, <3>1 DEF RowsReached
  <2>3. PageWhole({k \in MediaKeys : /\ OfTenant(k, scan.tenant) /\ scan.after < k
                                     /\ InBucket(k) /\ \E f \in always : f[1] = k})'
    <3>1. \A k \in MediaKeys : OfTenant(k, scan.tenant) /\ scan.after < k => k \in S
      <4>1. MediaKeys \subseteq Nat /\ scan.after \in Nat
        BY <1>1, KeysFinite DEF Scans
      <4> QED
        BY <1>5, <4>1
    <3>2. \A k \in {k \in MediaKeys : /\ OfTenant(k, scan.tenant) /\ scan.after < k
                                     /\ InBucket(k) /\ \E f \in always : f[1] = k}' : k \in S
      BY <1>11, <2>1, <3>1
    <3>3. options'.pageSize = options.pageSize
      BY DEF Unmoved
    <3> QED
      BY <1>6, <1>11, <3>2, <3>3 DEF PageWhole
  <2>4. /\ scan'.finished = scan'.tenant - 1 /\ ~scan'.reading /\ scan'.at = "database" /\ verdict' = NoReport
        /\ ~(scan'.databaseComplete /\ Clean')
        /\ Clean' => RowsReached /\ \A k \in MediaKeys : Orphan(k)' /\ k <= scan'.token => k \in scan'.provisional
    BY <1>1, <1>11, <2>1 DEF Coverage
  <2>5. Clean' => /\ RowsReached'
                  /\ PageWhole({k \in MediaKeys : /\ OfTenant(k, scan.tenant) /\ scan.after < k
                                     /\ InBucket(k) /\ \E f \in always : f[1] = k})'
    BY <2>2, <2>3, <2>4
  <2> QED
    BY <2>4, <2>5 DEF Coverage
<1> QED
  BY <1>11, <1>13, <1>14 DEF ScanInv

LEMMA FailPageKeeps ==
  ASSUME ReconInv, Unmoved, FailPage, UNCHANGED <<verdict, stopped>>
  PROVE  ScanInv'
<1> DEFINE r == [scan EXCEPT !.dbFailed = TRUE]
           s == Swept(r)
<1>1. ReconTypeOK /\ Truths /\ Coverage /\ scan \in Scans /\ scan.at = "database" /\ scan.reading
  BY DEF ReconInv, ReconTypeOK, FailPage
<1>2. r \in Scans /\ r.finished = scan.finished /\ r.tenant = scan.tenant /\ r.candidates = scan.candidates
  BY <1>1 DEF Scans
<1>3. Fails(s, "dbFailed")
  BY DEF FailPage
<1> HIDE DEF r
<1>4. s \in Scans /\ s.at = "inventory" /\ s.finished = scan.finished /\ s.tenant = scan.tenant
      /\ s.candidates = scan.candidates
  BY <1>2, SweptIs
<1> HIDE DEF s
<1>5. /\ scan' \in Scans /\ scan'.at = s.at /\ scan'.work = s.work /\ scan'.candidates = s.candidates
      /\ scan'.finished = s.finished /\ scan'.tenant = s.tenant /\ scan'.reading = s.reading /\ ~Clean'
      /\ \A o \in observed' : o \in observed \/ o.class \notin Said
  BY <1>1, <1>3, <1>4, FailsIs
<1>6. Truths'
  BY <1>1, <1>4, <1>5, ScanKeepsTruths
<1>7. Coverage'
  BY <1>1, <1>4, <1>5, UncleanCovers DEF Coverage
<1> QED
  BY <1>5, <1>6, <1>7 DEF ScanInv

LEMMA StopReadingKeeps ==
  ASSUME ReconInv, Unmoved, StopReading, UNCHANGED <<verdict, stopped>>
  PROVE  ScanInv'
<1>1. ReconTypeOK /\ Truths /\ Coverage /\ scan \in Scans /\ scan.at = "database" /\ stopped' # "no"
      /\ scan' = Swept(scan) /\ observed' = observed
  BY DEF ReconInv, ReconTypeOK, StopReading
<1>2. scan' \in Scans /\ scan'.at = "inventory" /\ scan'.finished = scan.finished /\ scan'.tenant = scan.tenant
      /\ scan'.candidates = scan.candidates
  BY <1>1, SweptIs
<1>3. Truths'
  BY <1>1, <1>2, ScanKeepsTruths
<1>4. Coverage'
  BY <1>1, <1>2, UncleanCovers DEF Coverage, Clean
<1> QED
  BY <1>2, <1>3, <1>4 DEF ScanInv

\* The batch of a page is over, and all its rows are observed.
LEMMA EndPageKeeps ==
  ASSUME ReconAssumption, ReconInv, Unmoved, EndPage, UNCHANGED <<verdict, stopped>>
  PROVE  ScanInv'
<1> DEFINE ended == Cardinality(scan.page) < options.pageSize /\ stopped = "no" /\ ~scan.dbFailed
           over == stopped # "no" \/ scan.pages >= options.maxDatabasePages
           last == Greatest(scan.page, scan.after)
           next == IF ended THEN [scan EXCEPT !.finished = @ + 1, !.tenant = @ + 1, !.after = 0, !.reading = TRUE]
                   ELSE [scan EXCEPT !.after = Greatest(scan.page, @), !.reading = TRUE]
           more == over \/ next.tenant > Len(options.tenants)
<1>1. /\ ReconTypeOK /\ Truths /\ Coverage /\ scan \in Scans /\ scan.at = "database" /\ ~scan.reading /\ AtWork = {}
      /\ options.pageSize \in Nat \ {0} /\ options.tenants \in Seq(STRING) /\ observed' = observed
      /\ scan' = IF more THEN Swept(next) ELSE next
  BY NoLooks DEF ReconInv, ReconTypeOK, EndPage, Options
<1>2. /\ last \in Nat /\ scan.page \in SUBSET MediaKeys /\ MediaKeys \subseteq Nat \ {0}
      /\ Cardinality(scan.page) \in Nat
      /\ scan.page = {} => last = scan.after
      /\ scan.page # {} => last \in scan.page /\ \A j \in scan.page : j <= last
  BY <1>1, KeysFinite, GreatestIs DEF Scans
<1>3. /\ next \in Scans /\ next.at = scan.at /\ next.work = scan.work /\ next.reading = TRUE
      /\ next.databaseComplete = scan.databaseComplete
      /\ next.token = scan.token /\ next.provisional = scan.provisional /\ next.candidates = scan.candidates
      /\ next.dbFailed = scan.dbFailed /\ next.storageFailed = scan.storageFailed
      /\ ended => next.finished = scan.finished + 1 /\ next.tenant = scan.tenant + 1 /\ next.after = 0
      /\ ~ended => next.finished = scan.finished /\ next.tenant = scan.tenant /\ next.after = last
  <2>1. CASE ended
    <3>1. next = [scan EXCEPT !.finished = scan.finished + 1, !.tenant = scan.tenant + 1, !.after = 0, !.reading = TRUE]
      BY <1>1, <2>1 DEF Scans
    <3>2. scan.finished + 1 \in Nat /\ scan.tenant + 1 \in Nat
      BY <1>1 DEF Scans
    <3> HIDE DEF next, ended
    <3> QED
      BY <1>1, <2>1, <3>1, <3>2 DEF Scans
  <2>2. CASE ~ended
    <3>1. next = [scan EXCEPT !.after = last, !.reading = TRUE]
      BY <1>1, <2>2 DEF Scans
    <3> HIDE DEF next, ended, last
    <3> QED
      BY <1>1, <1>2, <2>2, <3>1 DEF Scans
  <2> QED
    BY <2>1, <2>2
<1> HIDE DEF next, over, last
<1>4. /\ scan' \in Scans /\ scan'.at = IF more THEN "inventory" ELSE "database"
      /\ more /\ scan'.databaseComplete => next.finished = Len(options.tenants)
      /\ ~more => scan' = next
      /\ scan'.work = scan.work
      /\ scan'.tenant = next.tenant /\ scan'.finished = next.finished /\ scan'.token = scan.token
      /\ scan'.provisional = scan.provisional /\ scan'.candidates = scan.candidates
      /\ scan'.dbFailed = scan.dbFailed /\ scan'.storageFailed = scan.storageFailed
  <2>1. CASE more
    BY <1>1, <1>3, <2>1, SweptIs
  <2>2. CASE ~more
    BY <1>1, <1>3, <2>2
  <2> QED
    BY <2>1, <2>2
<1>5. AtWork' = {} /\ Clean' = Clean
  BY <1>1, <1>4 DEF AtWork, Clean
<1>6. next.finished = next.tenant - 1
  <2>1. scan.finished = scan.tenant - 1 /\ scan.tenant \in Nat /\ scan.finished \in Nat
    BY <1>1 DEF Coverage, Scans
  <2> QED
    BY <1>3, <2>1
<1>7. ASSUME Clean, NEW f \in always, NEW i \in DOMAIN options.tenants, InBucket(f[1]), OfTenant(f[1], i),
             i < next.tenant \/ (i = next.tenant /\ f[1] <= next.after)
      PROVE  Seen(f)
  <2>1. f[1] \in MediaKeys /\ f[1] \in Nat \ {0} /\ i \in Nat /\ scan.tenant \in Nat /\ scan.after \in Nat
    BY <1>1, <1>2, <1>7, AlwaysIs DEF Scans
  <2>2. RowsReached /\ PageWhole({k \in MediaKeys : /\ OfTenant(k, scan.tenant) /\ scan.after < k
                                         /\ InBucket(k) /\ \E g \in always : g[1] = k})
    BY <1>1, <1>7 DEF Coverage
  <2>3. i < scan.tenant \/ (i = scan.tenant /\ (f[1] <= scan.after \/ f[1] \in scan.page)) => Seen(f)
    BY <1>1, <1>7, <2>2 DEF RowsReached
  <2>4. ASSUME i = scan.tenant, scan.after < f[1], f[1] \notin scan.page
        PROVE  options.pageSize <= Cardinality(scan.page) /\ \A j \in scan.page : j < f[1]
    BY <1>7, <2>1, <2>2, <2>4 DEF PageWhole
  <2>5. CASE ended
    <3>1. i <= scan.tenant
      BY <1>3, <1>7, <2>1, <2>5
    <3>2. ~(options.pageSize <= Cardinality(scan.page))
      BY <1>1, <1>2, <2>5
    <3> QED
      BY <2>1, <2>3, <2>4, <3>1, <3>2
  <2>6. CASE ~ended
    <3>1. options.pageSize <= Cardinality(scan.page)
      BY <1>1, <1>2, <1>7, <2>6 DEF Clean
    <3>2. scan.page # {}
      <4>1. scan.page = {} => Cardinality(scan.page) = 0
        BY FS_EmptySet
      <4>2. ~(options.pageSize <= 0)
        BY <1>1
      <4> QED
        BY <3>1, <4>1, <4>2
    <3>3. last \in scan.page /\ last \in Nat
      BY <1>2, <3>2
    <3>4. i < scan.tenant \/ (i = scan.tenant /\ f[1] <= last)
      BY <1>3, <1>7, <2>6
    <3> QED
      BY <2>1, <2>3, <2>4, <3>3, <3>4
  <2> QED
    BY <2>5, <2>6
<1>8. Truths'
  BY <1>1, <1>4, <1>5, ScanKeepsTruths
<1>9. Coverage'
  <2>1. /\ (\A f : Seen(f)' = Seen(f)) /\ (\A k : Orphan(k)' = Orphan(k))
        /\ (\A k, i : OfTenant(k, i)' = OfTenant(k, i)) /\ (\A k : InBucket(k)' = InBucket(k))
        /\ always' = always /\ options' = options
    BY <1>1 DEF Seen, Orphan, OfTenant, IsRow, InBucket, Unmoved
  <2>2. ASSUME Clean, ~more PROVE RowsReached'
    <3>1. scan'.reading = TRUE /\ scan'.tenant = next.tenant /\ scan'.after = next.after
      BY <1>3, <1>4, <2>2
    <3> HIDE DEF more
    <3> QED
      BY <1>7, <2>1, <2>2, <3>1 DEF RowsReached
  <2>3. ASSUME Clean, more, scan'.databaseComplete
        PROVE  \A f \in always : \A i \in DOMAIN options.tenants : InBucket(f[1]) /\ OfTenant(f[1], i) => Seen(f)
    <3>1. next.tenant = Len(options.tenants) + 1
      <4>1. next.finished = Len(options.tenants) /\ next.tenant \in Nat /\ next.finished \in Nat
        BY <1>3, <1>4, <2>3 DEF Scans
      <4> QED
        BY <1>6, <4>1
    <3>2. \A i \in DOMAIN options.tenants : i < next.tenant
      BY <1>1, <3>1
    <3> QED
      BY <1>7, <2>3, <3>2
  <2>4. ~more => scan'.reading /\ scan'.databaseComplete = scan.databaseComplete
    BY <1>3, <1>4
  <2> HIDE DEF more
  <2>5. /\ scan'.finished = scan'.tenant - 1 /\ verdict' = NoReport
        /\ scan'.at \in {"database", "inventory"} /\ (scan'.at = "database" <=> ~more)
        /\ Clean => /\ ~more => ~scan'.databaseComplete
                    /\ \A k \in MediaKeys : Orphan(k) /\ k <= scan'.token => k \in scan'.provisional
    BY <1>1, <1>4, <1>6, <2>4 DEF Coverage
  <2> QED
    BY <1>5, <2>1, <2>2, <2>3, <2>4, <2>5 DEF Coverage
<1> QED
  BY <1>4, <1>8, <1>9 DEF ScanInv

\* The unmatched objects are looked at again after the pages of objects.
LEMMA ListedIs ==
  ASSUME ReconTypeOK, NEW s \in Scans
  PROVE  /\ Listed(s) \in Scans /\ Listed(s).at = "recheck"
         /\ Listed(s).databaseComplete = s.databaseComplete
         /\ Listed(s).inventoryComplete = s.inventoryComplete
         /\ Listed(s).tenant = s.tenant /\ Listed(s).finished = s.finished
         /\ Listed(s).provisional = s.provisional /\ Listed(s).candidates = s.candidates
         /\ Listed(s).dbFailed = s.dbFailed /\ Listed(s).storageFailed = s.storageFailed
         /\ \A k \in MediaKeys : Listed(s).work[k].head \in {"idle", "none"}
         /\ s.inventoryComplete /\ s.databaseComplete /\ ~s.dbFailed /\ stopped = "no" =>
              \A k \in s.provisional : Listed(s).work[k].head = "none"
<1> DEFINE look == [k \in MediaKeys |-> Look(NoMedia)]
           all == s.inventoryComplete /\ s.databaseComplete /\ ~s.dbFailed /\ stopped = "no"
           work == IF all THEN WorkOn(s.provisional, look) ELSE NoWork
<1>1. Listed(s) = [s EXCEPT !.at = "recheck", !.page = {}, !.work = work]
  BY DEF Listed
<1>2. \A k \in MediaKeys : look[k] \in Looks /\ look[k].head = "none"
  BY DEF Look, Looks
<1>3. NotAtWork.head = "idle" /\ s.provisional \in SUBSET MediaKeys
  BY DEF NotAtWork, Scans
<1> HIDE DEF look
<1>4. /\ work \in [MediaKeys -> Looks]
      /\ \A k \in MediaKeys : work[k].head \in {"idle", "none"}
      /\ all => \A k \in s.provisional : work[k].head = "none"
  <2>1. CASE all
    <3>1. WorkOn(s.provisional, look) \in [MediaKeys -> Looks]
          /\ \A k \in MediaKeys : WorkOn(s.provisional, look)[k] = IF k \in s.provisional THEN look[k] ELSE NotAtWork
      BY <1>2, WorkTyped
    <3> QED
      BY <1>2, <1>3, <2>1, <3>1
  <2>2. CASE ~all
    <3>1. NoWork \in [MediaKeys -> Looks] /\ \A k \in MediaKeys : NoWork[k] = NotAtWork
      BY WorkTyped DEF NoWork
    <3> QED
      BY <1>3, <2>2, <3>1
  <2> QED
    BY <2>1, <2>2
<1> HIDE DEF work
<1>5. Listed(s) \in Scans /\ Listed(s).work = work
      /\ Listed(s).at = "recheck"
      /\ Listed(s).databaseComplete = s.databaseComplete
      /\ Listed(s).inventoryComplete = s.inventoryComplete
      /\ Listed(s).tenant = s.tenant /\ Listed(s).finished = s.finished
      /\ Listed(s).provisional = s.provisional /\ Listed(s).candidates = s.candidates
      /\ Listed(s).dbFailed = s.dbFailed /\ Listed(s).storageFailed = s.storageFailed
  BY <1>1, <1>4, ZenonT(40) DEF Scans
<1> QED
  BY <1>4, <1>5

\* Leaving the pages of objects, all of them read or not.
LEMMA ListedKeeps ==
  ASSUME ReconInv, Unmoved, scan.at \in {"inventory", "matching"}, UNCHANGED <<verdict, stopped>>,
         NEW s \in Scans, s.finished = scan.finished, s.tenant = scan.tenant, s.candidates = scan.candidates,
         s.databaseComplete = scan.databaseComplete, s.dbFailed = scan.dbFailed, s.storageFailed = scan.storageFailed,
         Clean /\ s.inventoryComplete => \A k \in MediaKeys : Orphan(k) => k \in s.provisional,
         scan' = Listed(s), observed \subseteq observed', \A o \in observed' : o \in observed \/ o.class \notin Said
  PROVE  ScanInv'
<1>1. ReconTypeOK /\ Truths /\ Coverage /\ scan \in Scans
  BY DEF ReconInv, ReconTypeOK
<1>2. /\ scan' \in Scans /\ scan'.at = "recheck"
      /\ scan'.databaseComplete = scan.databaseComplete
      /\ scan'.inventoryComplete = s.inventoryComplete
      /\ scan'.tenant = scan.tenant /\ scan'.finished = scan.finished
      /\ scan'.provisional = s.provisional /\ scan'.candidates = scan.candidates
      /\ scan'.dbFailed = scan.dbFailed /\ scan'.storageFailed = scan.storageFailed
      /\ \A k \in MediaKeys : scan'.work[k].head \in {"idle", "none"}
      /\ s.inventoryComplete /\ s.databaseComplete /\ ~s.dbFailed /\ stopped = "no" =>
              \A k \in s.provisional : scan'.work[k].head = "none"
      /\ s.provisional \subseteq MediaKeys
  <2>1. s.provisional \subseteq MediaKeys
    BY DEF Scans
  <2> QED
    BY <1>1, <2>1, ListedIs
<1>3. Truths'
  <2>1. ASSUME NEW j \in AtWork' PROVE ObjectLook(j)'
    <3>1. scan'.work[j].head = "none"
      BY <1>2, <2>1 DEF AtWork
    <3> QED
      BY <3>1 DEF ObjectLook
  <2> QED
    BY <1>1, <1>2, <2>1, ScanKeepsTruths
<1>4. Coverage'
  <2>1. /\ Clean' = Clean /\ (\A f : Seen(f) => Seen(f)') /\ (\A k : Orphan(k)' = Orphan(k))
        /\ (\A k, i : OfTenant(k, i)' = OfTenant(k, i)) /\ (\A k : InBucket(k)' = InBucket(k))
        /\ always' = always /\ options' = options
    BY <1>2 DEF Clean, Seen, Orphan, OfTenant, IsRow, InBucket, Unmoved
  <2>2. ASSUME Clean, s.inventoryComplete, s.databaseComplete
        PROVE  \A k \in s.provisional : k \in AtWork'
    BY <1>2, <2>2 DEF AtWork, Clean
  <2>3. Clean /\ scan.databaseComplete =>
         \A f \in always : \A i \in DOMAIN options.tenants : InBucket(f[1]) /\ OfTenant(f[1], i) => Seen(f)'
    BY <1>1, <2>1 DEF Coverage
  <2>4. scan'.finished = scan'.tenant - 1 /\ verdict' = NoReport
    BY <1>1, <1>2 DEF Coverage
  <2> QED
    BY <1>2, <2>1, <2>2, <2>3, <2>4 DEF Coverage
<1> QED
  BY <1>2, <1>3, <1>4 DEF ScanInv

\* Leaving the pages of objects at a read that failed.
LEMMA FailListingKeeps ==
  ASSUME ReconInv, Unmoved, scan.at \in {"inventory", "matching"}, UNCHANGED <<verdict, stopped>>,
         NEW s \in Scans, s.finished = scan.finished, s.tenant = scan.tenant, s.candidates = scan.candidates,
         NEW which \in {"dbFailed", "storageFailed"}, Fails(Listed(s), which)
  PROVE  ScanInv'
<1> DEFINE r == Listed(s)
<1>1. ReconTypeOK /\ Truths /\ Coverage /\ scan \in Scans
  BY DEF ReconInv, ReconTypeOK
<1>2. /\ r \in Scans /\ r.at = "recheck" /\ r.tenant = scan.tenant /\ r.finished = scan.finished
      /\ r.candidates = scan.candidates /\ \A k \in MediaKeys : r.work[k].head \in {"idle", "none"}
  BY <1>1, ListedIs
<1>3. Fails(r, which)
  OBVIOUS
<1> HIDE DEF r
<1>4. /\ scan' \in Scans /\ scan'.at = r.at /\ scan'.work = r.work /\ scan'.candidates = r.candidates
      /\ scan'.finished = r.finished /\ scan'.tenant = r.tenant /\ scan'.reading = r.reading /\ ~Clean'
      /\ \A o \in observed' : o \in observed \/ o.class \notin Said
  BY <1>1, <1>2, <1>3, FailsIs
<1>5. Truths'
  <2>1. ASSUME NEW j \in AtWork' PROVE ObjectLook(j)'
    <3>1. scan'.work[j].head = "none"
      BY <1>2, <1>4, <2>1 DEF AtWork
    <3> QED
      BY <3>1 DEF ObjectLook
  <2> QED
    BY <1>1, <1>2, <1>4, <2>1, ScanKeepsTruths
<1>6. Coverage'
  BY <1>1, <1>2, <1>4, UncleanCovers DEF Coverage
<1> QED
  BY <1>4, <1>5, <1>6 DEF ScanInv

LEMMA StopListingKeeps ==
  ASSUME ReconInv, Unmoved, StopListing, UNCHANGED <<verdict, stopped>>
  PROVE  ScanInv'
<1>1. scan \in Scans /\ scan.at = "inventory" /\ ~Clean /\ scan' = Listed(scan) /\ observed' = observed
  BY DEF ReconInv, ReconTypeOK, StopListing, Clean
<1> QED
  BY <1>1, ListedKeeps

LEMMA ListPageKeeps ==
  ASSUME ReconAssumption, ReconInv, Unmoved, ListPage, UNCHANGED <<verdict, stopped>>
  PROVE  ScanInv'
<1> DEFINE rest == {k \in bucket : k > scan.token}
           page == Lowest(rest, options.pageSize)
           truncated == Cardinality(rest) > options.pageSize
<1>1. ReconTypeOK /\ Truths /\ Coverage /\ scan \in Scans /\ scan.at = "inventory"
      /\ bucket \in SUBSET MediaKeys /\ options.pageSize \in Nat
  BY DEF ReconInv, ReconTypeOK, ListPage, Options
<1>2. CASE /\ scan' = [scan EXCEPT !.at = "matching", !.lists = @ + 1, !.page = page, !.truncated = truncated]
           /\ UNCHANGED observed
  <2>1. scan' = [scan EXCEPT !.at = "matching", !.lists = scan.lists + 1, !.page = page, !.truncated = truncated]
    BY <1>1, <1>2 DEF Scans
  <2>2. rest \in SUBSET MediaKeys /\ scan.lists + 1 \in Nat /\ truncated \in BOOLEAN
        /\ MediaKeys \subseteq Nat /\ scan.token \in Nat
    BY <1>1, KeysFinite DEF Scans
  <2>3. Cardinality(rest) \in Nat
    BY <2>2, KeysFinite
  <2>4. \A k \in MediaKeys : k \in bucket /\ scan.token < k => k \in rest
    BY <2>2
  <2> HIDE DEF rest
  <2>5. /\ page \in SUBSET rest
        /\ \A k \in rest \ page : options.pageSize < Cardinality(rest) /\ \A j \in page : j < k
    BY <1>1, <2>2, LowestIs
  <2> HIDE DEF page
  <2>6. \A k \in rest \ page : truncated /\ \A j \in page : j < k
    BY <1>1, <2>3, <2>5
  <2> HIDE DEF truncated
  <2>7. /\ scan' \in Scans /\ scan'.at = "matching" /\ scan'.page = page /\ scan'.truncated = truncated
        /\ scan'.tenant = scan.tenant /\ scan'.finished = scan.finished
        /\ scan'.databaseComplete = scan.databaseComplete /\ scan'.token = scan.token
        /\ scan'.provisional = scan.provisional /\ scan'.candidates = scan.candidates
        /\ scan'.dbFailed = scan.dbFailed /\ scan'.storageFailed = scan.storageFailed
    BY <1>1, <2>1, <2>2, <2>5 DEF Scans
  <2>8. Truths'
    BY <1>1, <1>2, <2>7, ScanKeepsTruths
  <2>9. Coverage'
    <3>1. /\ Clean' = Clean /\ (\A f : Seen(f)' = Seen(f)) /\ (\A k : Orphan(k)' = Orphan(k))
          /\ (\A k, i : OfTenant(k, i)' = OfTenant(k, i)) /\ (\A k : InBucket(k)' = InBucket(k))
          /\ always' = always /\ options' = options
      BY <1>2, <2>7 DEF Clean, Seen, Orphan, OfTenant, IsRow, InBucket, Unmoved
    <3>2. \A k \in MediaKeys : Orphan(k) /\ scan.token < k /\ k \notin page => truncated /\ \A j \in page : j < k
      BY <1>1, <2>4, <2>6, OrphanIs
    <3>3. /\ scan'.finished = scan'.tenant - 1 /\ verdict' = NoReport
          /\ Clean => \A k \in MediaKeys : Orphan(k) /\ k <= scan'.token => k \in scan'.provisional
          /\ Clean /\ scan'.databaseComplete =>
               \A f \in always : \A i \in DOMAIN options.tenants : InBucket(f[1]) /\ OfTenant(f[1], i) => Seen(f)
      BY <1>1, <2>7 DEF Coverage
    <3> QED
      BY <2>7, <3>1, <3>2, <3>3 DEF Coverage
  <2> QED
    BY <2>7, <2>8, <2>9 DEF ScanInv
<1>3. CASE Fails(Listed(scan), "storageFailed")
  BY <1>1, <1>3, FailListingKeeps
<1> QED
  BY <1>2, <1>3 DEF ListPage

LEMMA MatchPageKeeps ==
  ASSUME ReconAssumption, ReconInv, Unmoved, MatchPage, UNCHANGED <<verdict, stopped>>
  PROVE  ScanInv'
<1> DEFINE unmatched == {k \in scan.page : ~MetadataExists(k)}
           last == Greatest(scan.page, scan.token)
           s == [scan EXCEPT !.at = "inventory", !.token = Greatest(scan.page, @),
                             !.provisional = @ \cup unmatched, !.inventoryComplete = ~scan.truncated]
           more == scan.truncated /\ scan.lists < options.maxInventoryPages
           failed == [scan EXCEPT !.dbFailed = TRUE]
<1>1. ReconTypeOK /\ Truths /\ Coverage /\ scan \in Scans /\ scan.at = "matching"
  BY DEF ReconInv, ReconTypeOK, MatchPage
<1>2. /\ last \in Nat /\ scan.page \in SUBSET MediaKeys /\ MediaKeys \subseteq Nat /\ scan.token \in Nat
      /\ scan.page = {} => last = scan.token
      /\ scan.page # {} => last \in scan.page
  BY <1>1, KeysFinite, GreatestIs DEF Scans
<1>3. /\ s \in Scans /\ s.at = "inventory" /\ s.token = last /\ s.provisional = scan.provisional \cup unmatched
      /\ s.inventoryComplete = ~scan.truncated /\ s.work = scan.work
      /\ s.finished = scan.finished /\ s.tenant = scan.tenant /\ s.candidates = scan.candidates
      /\ s.databaseComplete = scan.databaseComplete /\ s.dbFailed = scan.dbFailed
      /\ s.storageFailed = scan.storageFailed
  <2> DEFINE p == scan.provisional \cup unmatched
  <2>1. p \in SUBSET MediaKeys /\ (~scan.truncated) \in BOOLEAN
    BY <1>1, <1>2 DEF Scans
  <2>2. s = [scan EXCEPT !.at = "inventory", !.token = last, !.provisional = p, !.inventoryComplete = ~scan.truncated]
    BY <1>1 DEF Scans
  <2> HIDE DEF s, p, last
  <2>3. /\ s \in Scans /\ s.at = "inventory" /\ s.token = last /\ s.provisional = p
      /\ s.inventoryComplete = ~scan.truncated /\ s.work = scan.work
      /\ s.finished = scan.finished /\ s.tenant = scan.tenant /\ s.candidates = scan.candidates
      /\ s.databaseComplete = scan.databaseComplete /\ s.dbFailed = scan.dbFailed
      /\ s.storageFailed = scan.storageFailed
    BY <1>1, <1>2, <2>1, <2>2 DEF Scans
  <2> QED
    BY <2>3 DEF p
<1> HIDE DEF s, last
<1>4. ASSUME Clean, NEW k \in MediaKeys, Orphan(k)
      PROVE  (k <= last \/ ~scan.truncated) => k \in s.provisional
  <2>1. /\ k \in Nat /\ ~InBucket(k)
        /\ k <= scan.token => k \in scan.provisional
        /\ scan.token < k /\ k \notin scan.page => scan.truncated /\ \A j \in scan.page : j < k
    BY <1>1, <1>2, <1>4, OrphanIs DEF Coverage
  <2>2. k \in scan.page => k \in unmatched
    BY <2>1 DEF MetadataExists
  <2>3. scan.token < k /\ k \notin scan.page => last < k
    BY <1>2, <2>1
  <2> QED
    BY <1>2, <1>3, <2>1, <2>2, <2>3
<1> HIDE DEF failed
<1>5. CASE /\ scan' = IF more THEN s ELSE Listed(s)
           /\ observed' = observed \cup {[on |-> k, class |-> "metadata_object"] : k \in scan.page \ unmatched}
  <2>1. observed \subseteq observed' /\ \A o \in observed' : o \in observed \/ o.class \notin Said
    <3>1. "metadata_object" \notin Said
      BY DEF Said
    <3>2. \A o \in {[on |-> k, class |-> "metadata_object"] : k \in scan.page \ unmatched} : o.class = "metadata_object"
      OBVIOUS
    <3> QED
      BY <1>5, <3>1, <3>2
  <2>2. CASE ~more
    <3>1. scan' = Listed(s)
      BY <1>5, <2>2
    <3>2. Clean /\ s.inventoryComplete => \A k \in MediaKeys : Orphan(k) => k \in s.provisional
      BY <1>3, <1>4
    <3> QED
      BY <1>1, <1>3, <2>1, <3>1, <3>2, ListedKeeps
  <2>3. CASE more
    <3>1. /\ scan' = s /\ scan' \in Scans
      BY <1>3, <1>5, <2>3
    <3>2. Truths'
      BY <1>1, <1>3, <2>1, <3>1, ScanKeepsTruths
    <3>3. Coverage'
      <4>1. /\ Clean' = Clean /\ (\A f : Seen(f) => Seen(f)') /\ (\A k : Orphan(k)' = Orphan(k))
            /\ (\A k, i : OfTenant(k, i)' = OfTenant(k, i)) /\ (\A k : InBucket(k)' = InBucket(k))
            /\ always' = always /\ options' = options
        BY <1>3, <2>1, <3>1 DEF Clean, Seen, Orphan, OfTenant, IsRow, InBucket, Unmoved
      <4>2. Clean => \A k \in MediaKeys : Orphan(k) /\ k <= scan'.token => k \in scan'.provisional
        BY <1>3, <1>4, <3>1
      <4>3. /\ scan'.finished = scan'.tenant - 1 /\ verdict' = NoReport
            /\ Clean /\ scan'.databaseComplete =>
                 \A f \in always : \A i \in DOMAIN options.tenants : InBucket(f[1]) /\ OfTenant(f[1], i) => Seen(f)
        BY <1>1, <1>3, <3>1 DEF Coverage
      <4> QED
        BY <1>3, <3>1, <4>1, <4>2, <4>3 DEF Coverage
    <3> QED
      BY <3>1, <3>2, <3>3 DEF ScanInv
  <2> QED
    BY <2>2, <2>3
<1>6. CASE Fails(Listed(failed), "dbFailed")
  <2>1. failed \in Scans /\ failed.finished = scan.finished /\ failed.tenant = scan.tenant
        /\ failed.candidates = scan.candidates
    BY <1>1 DEF Scans, failed
  <2> QED
    BY <1>1, <1>6, <2>1, FailListingKeeps
<1> QED
  BY <1>5, <1>6 DEF MatchPage, s, failed

\* The report names what was gathered.
LEMMA FinishKeeps ==
  ASSUME ReconInv, Unmoved, Finish, UNCHANGED stopped
  PROVE  ScanInv'
<1> DEFINE seen == observed \cup {Promoted(c) : c \in scan.candidates}
                            \cup {[on |-> k, class |-> "orphan_observation"] : k \in Unprocessed}
<1>1. ReconTypeOK /\ Truths /\ Coverage /\ scan \in Scans /\ scan.at = "recheck" /\ AtWork = {}
  BY NoLooks DEF ReconInv, ReconTypeOK, Finish
<1>2. /\ observed' = seen
      /\ verdict' = [status |-> Status, alerts |-> Alerts(seen), exit |-> ExitCode(Alerts(seen))]
      /\ scan' = [scan EXCEPT !.at = "done"]
  BY DEF Finish
<1>3. /\ scan' \in Scans /\ scan'.at = "done" /\ scan'.work = scan.work /\ scan'.tenant = scan.tenant
      /\ scan'.finished = scan.finished /\ scan'.databaseComplete = scan.databaseComplete
      /\ scan'.inventoryComplete = scan.inventoryComplete /\ scan'.provisional = scan.provisional
      /\ scan'.dbFailed = scan.dbFailed /\ scan'.storageFailed = scan.storageFailed
      /\ scan'.candidates = scan.candidates
  BY <1>1, <1>2 DEF Scans
<1>4. \A o \in seen : o \in observed \/ o \in scan.candidates \/ o.class \notin Said
  <2>1. "orphan_observation" \notin Said
    BY DEF Said
  <2>2. ASSUME NEW c \in scan.candidates PROVE Promoted(c) = c \/ Promoted(c).class = "orphan_observation"
    <3>1. c \in Candidates
      BY <1>1 DEF Scans
    <3> QED
      BY <3>1 DEF Candidates, Promoted
  <2>3. \A o \in {[on |-> k, class |-> "orphan_observation"] : k \in Unprocessed} : o.class = "orphan_observation"
    OBVIOUS
  <2> QED
    BY <2>1, <2>2, <2>3
<1>5. /\ observed \subseteq seen
      /\ CanPromote => scan.candidates \subseteq seen
  BY DEF Promoted
<1> HIDE DEF seen
<1>6. Truths'
  <2>1. \A o \in scan.candidates : o.class \in Said => o.class = "orphan_candidate"
    <3>1. \A o \in scan.candidates : o.class \in {"metadata_object", "inventory_changed", "orphan_candidate"}
      BY <1>1 DEF Scans, Candidates
    <3> QED
      BY <3>1 DEF Said
  <2>2. \A o \in observed' : o \in observed \/ o.class \notin Said \/ <<o.on, o.class>> \in ever
    BY <1>1, <1>2, <1>4, <2>1 DEF Truths
  <2> QED
    BY <1>1, <1>3, <2>2, ScanKeepsTruths
<1>7. ASSUME Status = "complete", NEW f \in always, InScope(f[1])
      PROVE  \E o \in seen : o.on = f[1] /\ o.class \in {f[2], "lifecycle_changed"}
  <2>1. CanPromote /\ Clean /\ scan.databaseComplete /\ scan.inventoryComplete
    BY <1>7 DEF Status, CanPromote, Clean
  <2>2. /\ f[1] \in MediaKeys /\ f = <<f[1], f[2]>>
        /\ ~InBucket(f[1]) => f[2] = "orphan_candidate" /\ f[1] \in bucket
    BY <1>1, AlwaysIs
  <2>3. CASE InBucket(f[1])
    <3>1. PICK i \in DOMAIN options.tenants : OfTenant(f[1], i)
      BY <1>7, <2>3 DEF InScope, InBucket, OfTenant
    <3>2. Seen(f)
      BY <1>1, <2>1, <2>3, <3>1 DEF Coverage
    <3> QED
      BY <1>5, <3>2 DEF Seen
  <2>4. CASE ~InBucket(f[1])
    <3> DEFINE o == [on |-> f[1], class |-> "orphan_candidate"]
    <3>1. Orphan(f[1])
      BY <2>2, <2>4 DEF Orphan
    <3>2. o \in scan.candidates
      BY <1>1, <2>1, <2>2, <3>1 DEF Coverage
    <3>3. o.on = f[1] /\ o.class = f[2]
      BY <2>2, <2>4
    <3> HIDE DEF o
    <3> QED
      BY <1>5, <2>1, <3>2, <3>3
  <2> QED
    BY <2>3, <2>4
<1>8. ASSUME Alerts(seen) = {}, NEW o \in seen, NEW a \in Amiss, o.class \in {a, "lifecycle_changed"}
      PROVE  FALSE
  <2>1. o.class = "lifecycle_changed" => "uncertain_observations" \in Alerts(seen)
    BY <1>8 DEF Alerts
  <2>2. /\ o.class = "active_missing" => "active_missing" \in Alerts(seen)
        /\ o.class = "purged_object_present" => "purged_object_present" \in Alerts(seen)
        /\ o.class = "orphan_candidate" => "orphan_candidates" \in Alerts(seen)
        /\ o.class = "reconciliation_required" => "manual_reconciliation" \in Alerts(seen)
    BY <1>8 DEF Alerts
  <2> QED
    BY <1>8, <2>1, <2>2 DEF Amiss
<1>9. CompleteReportsMissNothing'
  <2>1. SUFFICES ASSUME verdict'.status = "complete", NEW f \in always', InScope(f[1])'
                 PROVE  /\ \E o \in observed' : o.on = f[1] /\ o.class \in {f[2], "lifecycle_changed"}
                        /\ verdict'.exit = 0 => f[2] \notin Amiss
    BY DEF CompleteReportsMissNothing
  <2>2. Status = "complete" /\ f \in always /\ InScope(f[1])
    BY <1>2, <2>1 DEF Unmoved, InScope, IsRow
  <2>3. PICK o \in seen : o.on = f[1] /\ o.class \in {f[2], "lifecycle_changed"}
    BY <1>7, <2>2
  <2>4. verdict'.exit = 0 => Alerts(seen) = {}
    <3>1. verdict'.exit = ExitCode(Alerts(seen))
      BY <1>2
    <3> QED
      BY <3>1 DEF ExitCode
  <2> QED
    BY <1>2, <1>8, <2>3, <2>4
<1>10. Coverage'
  <2>1. /\ Clean' = Clean /\ (\A f : Seen(f) => Seen(f)') /\ (\A k : Orphan(k)' = Orphan(k))
        /\ (\A k, i : OfTenant(k, i)' = OfTenant(k, i)) /\ (\A k : InBucket(k)' = InBucket(k))
        /\ always' = always /\ options' = options
    BY <1>2, <1>3, <1>5 DEF Clean, Seen, Orphan, OfTenant, IsRow, InBucket, Unmoved
  <2>2. /\ scan'.finished = scan'.tenant - 1
        /\ Clean /\ scan'.databaseComplete =>
             \A f \in always : \A i \in DOMAIN options.tenants : InBucket(f[1]) /\ OfTenant(f[1], i) => Seen(f)
        /\ Clean /\ scan'.inventoryComplete => \A k \in MediaKeys : Orphan(k) => k \in scan'.provisional
    BY <1>1, <1>3 DEF Coverage
  <2> QED
    BY <1>3, <1>9, <2>1, <2>2 DEF Coverage
<1> QED
  BY <1>3, <1>6, <1>10 DEF ScanInv

LEMMA ReconStarts == ASSUME ReconAssumption, ReconInit PROVE ReconInv
<1>1. ReconTypeOK
  <2>1. NoWork \in [MediaKeys -> Looks]
    BY DEF NoWork, NotAtWork, Looks
  <2>2. FirstScan \in Scans
    BY <2>1 DEF FirstScan, Scans
  <2> QED
    BY <2>2 DEF ReconInit, ReconTypeOK
<1>2. /\ scan.at = "database" /\ scan.tenant = 1 /\ scan.after = 0 /\ scan.reading = TRUE /\ scan.finished = 0
      /\ scan.databaseComplete = FALSE /\ scan.token = 0 /\ scan.candidates = {} /\ scan.work = NoWork
      /\ scan.inventoryComplete = FALSE
  BY DEF ReconInit, FirstScan
<1>3. AtWork = {}
  BY <1>1, <1>2, NoLooks
<1>4. Truths
  BY <1>2, <1>3 DEF ReconInit, Truths
<1>5. RowsReached
  <2>1. ASSUME NEW f \in always PROVE ~(f[1] <= 0)
    BY <1>1, <1>4, <2>1, AlwaysIs, KeysFinite
  <2>2. \A i \in DOMAIN options.tenants : ~(i < 1)
    BY <1>1 DEF ReconTypeOK, Options
  <2> QED
    BY <1>2, <2>1, <2>2 DEF RowsReached
<1>6. \A k \in MediaKeys : ~(k <= 0)
  BY KeysFinite
<1>7. Coverage
  BY <1>2, <1>3, <1>5, <1>6 DEF Coverage, ReconInit
<1> QED
  BY <1>1, <1>4, <1>7 DEF ReconInv

LEMMA ScanStepKeeps ==
  ASSUME ReconAssumption, ReconInv, Unmoved, ScanStep
  PROVE  ScanInv' /\ stopped' \in {"no", "deadline", "operator"}
<1>1. UNCHANGED verdict /\ stopped \in {"no", "deadline", "operator"}
  BY DEF ScanStep, ReconInv, ReconTypeOK
<1>2. CASE Stop
  BY <1>1, <1>2, StopKeeps DEF Stop
<1>3. ASSUME NEW k \in MediaKeys, HeadObject(k) \/ ReadAgain(k) \/ MatchAgain(k), UNCHANGED stopped
      PROVE  ScanInv'
  BY <1>1, <1>3, HeadKeeps, ReadAgainKeeps, MatchAgainKeeps
<1>4. CASE /\ ReadPage \/ FailPage \/ EndPage \/ StopReading \/ ListPage \/ MatchPage \/ StopListing
           /\ UNCHANGED stopped
  BY <1>1, <1>4, ReadPageKeeps, FailPageKeeps, EndPageKeeps, StopReadingKeeps, ListPageKeeps, MatchPageKeeps,
     StopListingKeeps
<1> QED
  BY <1>1, <1>2, <1>3, <1>4 DEF ScanStep

\* Every step of the world and of the scan.
LEMMA ReconSteps == ASSUME ReconAssumption, ReconInv, [ReconNext]_reconVars PROVE ReconInv'
<1>1. CASE UNCHANGED reconVars
  <2>1. ReconTypeOK'
    BY <1>1 DEF ReconInv, ReconTypeOK, reconVars
  <2>2. UNCHANGED <<media, bucket, options, stopped, scan, observed, verdict, ever, always>> /\ Unmoved
    BY <1>1 DEF reconVars, Unmoved
  <2>3. AtWork' = AtWork /\ \A j : (RowLook(j) => RowLook(j)') /\ (ObjectLook(j) => ObjectLook(j)')
    BY <2>2, LooksStay DEF AtWork
  <2>4. Truths'
    BY <2>2, <2>3, ScanKeepsTruths DEF ReconInv, Truths
  <2>5. Coverage'
    BY <2>2 DEF ReconInv, Coverage, Clean, AtWork, RowsReached, PageWhole, Seen, Orphan, OfTenant, IsRow, InBucket,
                CompleteReportsMissNothing, InScope
  <2> QED
    BY <2>1, <2>4, <2>5 DEF ReconInv
<1>2. CASE ReconNext /\ ChangeWorld
  <2>1. PICK k \in MediaKeys : WorldChanges(k)
    BY <1>2 DEF ChangeWorld
  <2>2. /\ ReconTypeOK /\ Truths /\ Coverage /\ scan.at # "done"
        /\ UNCHANGED <<options, stopped, scan, observed, verdict>>
        /\ ever' = ever \cup Facts' /\ always' = always \cap Facts'
    BY <1>2 DEF ReconInv, ReconNext, ChangeWorld
  <2>3. /\ media' \in [MediaKeys -> Media0] /\ bucket' \in SUBSET MediaKeys
        /\ \A j \in MediaKeys : Becomes(media[j], media'[j])
    BY <2>1, <2>2, WorldMoves
  <2>4. Truths'
    BY <2>2, <2>3, WorldKeepsTruths
  <2>5. Coverage'
    BY <2>2, <2>3, WorldKeepsCoverage
  <2>6. ReconTypeOK'
    BY <2>2, <2>3 DEF ReconTypeOK, Media0
  <2> QED
    BY <2>4, <2>5, <2>6 DEF ReconInv
<1>3. CASE ReconNext /\ (ScanStep \/ (Finish /\ UNCHANGED <<worldVars, options, stopped>>))
  <2>1. Unmoved
    <3>1. UNCHANGED <<media, bucket, options>>
      BY <1>3 DEF ScanStep, worldVars
    <3>2. Facts' = Facts /\ always \subseteq Facts /\ Facts \subseteq ever
      BY <3>1, FactsAre DEF ReconInv, Truths
    <3>3. ever' = ever \cup Facts' /\ always' = always \cap Facts'
      BY <1>3 DEF ReconNext
    <3> QED
      BY <3>1, <3>2, <3>3 DEF Unmoved
  <2>2. ScanInv' /\ stopped' \in {"no", "deadline", "operator"}
    <3>1. CASE ScanStep
      BY <2>1, <3>1, ScanStepKeeps
    <3>2. CASE Finish /\ UNCHANGED stopped
      BY <2>1, <3>2, FinishKeeps DEF ReconInv, ReconTypeOK
    <3> QED
      BY <1>3, <3>1, <3>2
  <2>3. ReconTypeOK'
    BY <2>1, <2>2 DEF ReconInv, ReconTypeOK, ScanInv, Unmoved
  <2> QED
    BY <2>2, <2>3 DEF ReconInv, ScanInv
<1> QED
  BY <1>1, <1>2, <1>3 DEF ReconNext

\* The invariant of a reconciliation: what its looks and pages have seen is so or has moved on, and what it has not
\* seen yet still lies ahead of its cursors.
THEOREM ReconInvariance == ReconSpec => []ReconInv
<1>1. ReconInit => ReconInv
  BY ReconStarts, ReconAssumption
<1>2. ReconInv /\ [ReconNext]_reconVars => ReconInv'
  BY ReconSteps, ReconAssumption
<1> QED
  BY <1>1, <1>2, PTL DEF ReconSpec

\* Nothing is said of an asset or an object that was not so at one moment of the run (runMediaReconciliation with its
\* second read of the row and of the metadata), however many rows and objects there are, whatever the sizes of the
\* pages and of the batches, and whatever changes and fails meanwhile.
THEOREM ReportIsTrue == ReconSpec => []ReportedWasTrue
<1>1. ReconInv => ReportedWasTrue
  BY DEF ReconInv, Truths, ReportedWasTrue
<1> QED
  BY <1>1, ReconInvariance, PTL

\* A report with status complete leaves out nothing that was so throughout the run, and an exit code of 0
\* (mediaReconciliationExitCode) means that none of it was amiss.
THEOREM CompleteReportMissesNothing == ReconSpec => []CompleteReportsMissNothing
<1>1. ReconInv => CompleteReportsMissNothing
  <2> SUFFICES ASSUME ReconInv PROVE CompleteReportsMissNothing
    OBVIOUS
  <2>1. CASE scan.at = "done"
    BY <2>1 DEF ReconInv, Coverage
  <2>2. CASE scan.at # "done"
    BY <2>2 DEF ReconInv, Coverage, NoReport, CompleteReportsMissNothing
  <2> QED
    BY <2>1, <2>2
<1> QED
  BY <1>1, ReconInvariance, PTL
=============================================================================
