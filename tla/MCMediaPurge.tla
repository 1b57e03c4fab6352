---------------------------- MODULE MCMediaPurge ----------------------------
(* Three components of media that share no state, one at a time: the upload   *)
(* and removal of assets, the purge of a removed one, and the reconciliation  *)
(* of rows and objects.                                                       *)
EXTENDS MediaPurge, MediaUpload, MediaReconciliation, TLC

CONSTANTS k1, k2, u1, u2, u3

VARIABLE part   \* the component that runs

Ask(op, key, target, sum) == [op |-> op, key |-> key, target |-> target, sum |-> sum]

Photo == [NoRow EXCEPT !.session = "completed", !.expires = 1, !.asset = "active", !.bound = 1,
                       !.sum = "s1"]
Uploading == [NoRow EXCEPT !.session = "pending", !.expires = 1, !.asset = "pending_upload", !.bound = 1]
Signature(p) == [Photo EXCEPT !.bound = NoId, !.signed = p,
                              !.floor = IF p = NoId THEN UnlinkedKept ELSE SignatureKept]

Create(p) == Ask("create", k1, p, "s1")
Complete(sum) == Ask("complete", k1, NoId, sum)
Attach(p) == Ask("attach", k1, p, "s1")
Sign(k, p) == Ask("sign", k, p, "s1")
Remove(op) == Ask(op, k1, NoId, "s1")

Pairs(S, T) == {<<q, r>> : q \in S, r \in T}

\* Rows to begin with, and what is asked of them at once.
Scenarios == {
  [rows |-> k1 :> NoRow @@ k2 :> NoRow, consent |-> "granted",
   asked |-> {<<Create(1), Create(1)>>, <<Create(1), Create(2)>>, <<Create(1), Complete("s1"), Attach(1)>>}],
  [rows |-> k1 :> Uploading @@ k2 :> NoRow, consent |-> "revoked",
   asked |-> Pairs({Complete("s1")}, {Complete("s2"), Create(1), Remove("remove"), Remove("sweep")})
             \cup {<<Complete("s1"), Attach(1), Remove("remove")>>}],
  [rows |-> k1 :> Photo @@ k2 :> NoRow, consent |-> "revoked",
   asked |-> Pairs({Attach(1), Attach(2), Complete("s2"), Create(1)}, {Remove("remove"), Remove("sweep")})],
  [rows |-> k1 :> Signature(NoId) @@ k2 :> Signature(NoId), consent |-> "revoked",
   asked |-> Pairs({Sign(k1, 1)}, {Sign(k1, 2), Sign(k2, 1), Remove("remove"), Remove("sweep"), Create(NoId)})
             \cup {<<Sign(k1, 1), Sign(k1, 2), Remove("remove")>>}],
  [rows |-> k1 :> Signature(1) @@ k2 :> Signature(2), consent |-> "revoked",
   asked |-> {<<Sign(k1, 2), Sign(k2, 1), Remove("sweep")>>}] }

Idle == [Fresh(Create(1)) EXCEPT !.step = "done"]
CallsOf(asked) ==
  LET u == <<u1, u2, u3>> IN
  [c \in Calls |-> LET i == CHOOSE i \in 1 .. 3 : u[i] = c
                   IN IF i <= Len(asked) THEN Fresh(asked[i]) ELSE Idle]

\* What the reconciliation finds: a row of each status, of the workshops it is
\* configured for (A and B) and of another one (U), a row of another bucket.
Media(t, status, job) ==
  [tenant |-> t, place |-> "here", status |-> status, job |-> job, live |-> status = "pending_upload"]
Active(t) == Media(t, "active", "none")
Bounds(size, db, list) ==
  [tenants |-> <<"A", "B">>, pageSize |-> size, concurrency |-> size,
   maxDatabasePages |-> db, maxInventoryPages |-> list]
Nothing == [media |-> <<NoMedia, NoMedia, NoMedia, NoMedia, NoMedia>>, bucket |-> {}, options |-> Bounds(1, 1, 1)]

Findings == {
  [media |-> <<Active("A"), Media("A", "deleted", "open"), Media("B", "purged", "completed"), Active("U"), NoMedia>>,
   bucket |-> {1, 2, 4, 5}, options |-> Bounds(2, 3, 2)],
  [media |-> <<Active("A"), Active("A"), NoMedia, NoMedia, NoMedia>>, bucket |-> {1, 5}, options |-> Bounds(1, 4, 3)],
  [media |-> <<Media("A", "pending_upload", "none"), Active("A"), Active("B"), NoMedia, NoMedia>>,
   bucket |-> {1, 2, 3}, options |-> Bounds(2, 3, 2)],
  [media |-> <<Active("A"), [Active("B") EXCEPT !.place = "elsewhere"], NoMedia, Active("U"), NoMedia>>,
   bucket |-> {1, 2, 4}, options |-> Bounds(2, 3, 1)],
  [media |-> <<Active("A"), Active("B"), NoMedia, Active("U"), NoMedia>>,
   bucket |-> {1, 2, 4}, options |-> Bounds(1, 4, 4)] }

MCInit ==
  /\ part \in {"upload", "purge", "scan"}
  /\ Init
  /\ hour = 0
  /\ IF part = "upload"
     THEN \E s \in Scenarios : \E asked \in s.asked :
            /\ row = s.rows
            /\ call = CallsOf(asked)
            /\ reception = [p \in ReceptionIds |-> [status |-> "open", consent |-> s.consent]]
     ELSE /\ row = [k \in Keys |-> NoRow]
          /\ call = [c \in Calls |-> Idle]
          /\ reception = [p \in ReceptionIds |-> [status |-> "open", consent |-> "granted"]]
  /\ stored = [k \in Keys |-> IF row[k].session = "completed" THEN "good" ELSE "none"]
  /\ \E f \in IF part = "scan" THEN Findings ELSE {Nothing} :
       media = f.media /\ bucket = f.bucket /\ options = f.options
  /\ ReconInit

MCNext ==
  /\ \/ part = "purge" /\ Next /\ UNCHANGED <<uploadVars, reconVars>>
     \/ part = "upload" /\ UploadNext /\ UNCHANGED <<vars, reconVars>>
     \/ part = "scan" /\ ReconNext /\ UNCHANGED <<vars, uploadVars>>
  /\ UNCHANGED part

MCSpec == MCInit /\ [][MCNext]_<<part, vars, uploadVars, reconVars>>

Symmetry == Permutations(Purgers)
=============================================================================
