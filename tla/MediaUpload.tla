---------------------------- MODULE MediaUpload ----------------------------
(***************************************************************************)
(* From an upload session to evidence: sessions created under a key of the *)
(* client, completed by an inspection of the object in R2 outside any      *)
(* transaction, the finished asset attached to a reception or signed, and  *)
(* its removal when nothing protects it any more.                          *)
(*   src/src/media/{service,operational-binding,retention,associations,    *)
(*   deletion}.ts, receptions/signature.ts and the functions and triggers  *)
(*   of drizzle/0023 to 0029.                                              *)
(*                                                                         *)
(* All of them take row locks in one order: key of the client, receptions, *)
(* then the session and the asset.  What they have to lock is read without *)
(* locks, and read again once they are held.                               *)
(*                                                                         *)
(* A media asset is its client key.  Damages, whose reception cannot       *)
(* change, and the order of a closed reception stand for the reception;    *)
(* media other than photographs and signatures, warranties and legal holds *)
(* (MediaPurge) are left out, and so are the checks on the body alone.     *)
(***************************************************************************)
EXTENDS Naturals, FiniteSets, FiniteSetsExt

CONSTANTS
  Keys,
  Calls,            \* requests of the API and of the sweep over retention dates
  ReceptionIds,     \* numbers: rows are locked in the order of their ids
  Sums,             \* checksums a client may quote
  UploadTtl,        \* UPLOAD_URL_TTL_SECONDS
  IncompleteKept,   \* retention of an upload nobody completed,
  QuarantineKept,   \*   of one that failed its inspection,
  UnlinkedKept,     \*   of one nothing refers to,
  SignatureKept,    \*   and of a signature
  LastHour          \* bound on the clock

ASSUME UploadAssumption ==
  /\ ReceptionIds \subseteq Nat \ {0} /\ IsFiniteSet(ReceptionIds)
  /\ {UploadTtl, IncompleteKept, QuarantineKept, UnlinkedKept, SignatureKept} \subseteq Nat \ {0}
  /\ UploadTtl <= IncompleteKept
  /\ LastHour \in Nat
  /\ "none" \notin Sums   \* stands for the checksum of a session nobody completed

VARIABLES
  hour,       \* the clock of the database and of the servers
  reception,  \* per reception: status and consent
  row,        \* per key: session, asset, binding and references
  stored,     \* per key: the object in R2
  call        \* per request: what it wants, where it is, what it knows and holds

uploadVars == <<hour, reception, row, stored, call>>

\* No reception: the binding of a signature, the signature of a photograph.
NoId == 0
Receptions0 == ReceptionIds \cup {NoId}

Requests == {q \in [op : {"create", "complete", "attach", "sign", "remove", "sweep"},
                   key : Keys, target : Receptions0, sum : Sums] :
               q.op \in {"attach", "sign"} => q.target # NoId}

Rows == [session : {"none", "pending", "completed", "expired", "failed"}, created : Nat, expires : Nat,
         asset : {"none", "pending_upload", "active", "quarantined", "deleted"},
         by : {"none", "remove", "sweep"}, at : Nat, floor : Nat, sum : Sums \cup {"none"},
         bound : Receptions0, linked : BOOLEAN, signed : Receptions0, signedAt : Nat]

NoRow == [session |-> "none", created |-> 0, expires |-> 0, asset |-> "none", by |-> "none",
          at |-> 0, floor |-> 0, sum |-> "none", bound |-> NoId, linked |-> FALSE, signed |-> NoId,
          signedAt |-> 0]

Locks == ({"key", "media"} \X Keys) \cup ({"reception", "consent"} \X ReceptionIds)

\* A request outside its transaction knows nothing of the rows and has no locks.
Bare(req, step, reply) ==
  [req |-> req, step |-> step, reply |-> reply, new |-> FALSE, tries |-> 0, parents |-> {},
   orders |-> {}, object |-> "skip", locks |-> {}]

Fresh(req) == Bare(req, CASE req.op = "create" -> "key" [] req.op = "complete" -> "prepare"
                          [] OTHER -> "discover", "none")

Steps == {"key", "reception", "media", "insert", "prepare", "inspect", "discover", "lock", "write", "done"}
Replies == {"none", "url", "completed", "quarantined", "expired", "attached", "signed", "deleted",
            "refused", "mismatch", "ineligible", "retry", "internal"}

Transactions == [req : Requests, step : Steps, reply : Replies, new : BOOLEAN, tries : 0 .. 2,
                 parents : SUBSET ReceptionIds, orders : SUBSET ReceptionIds,
                 object : {"skip", "good", "bad"}, locks : SUBSET Locks]

UploadTypeOK ==
  /\ hour \in 0 .. LastHour
  /\ reception \in [ReceptionIds -> [status : {"open", "closed"}, consent : {"granted", "revoked"}]]
  /\ row \in [Keys -> Rows]
  /\ stored \in [Keys -> {"none", "good", "bad"}]
  /\ call \in [Calls -> Transactions]

Open(p) == reception[p].status = "open"
Parents(r) == {r.bound, r.signed} \ {NoId}
Editable(r) == r.bound = NoId \/ Open(r.bound)
-----------------------------------------------------------------------------
(* Locks, and the end of a transaction.                                      *)

Free(lock, c) == \A d \in Calls \ {c} : lock \notin call[d].locks

\* A bug: an error is answered without a ROLLBACK.
EndKeepingLocks(c, answer) ==
  call' = [call EXCEPT ![c] = [Bare(@.req, "done", answer) EXCEPT
                                 !.locks = IF answer = "mismatch" THEN call[c].locks ELSE {}]]

\* COMMIT or ROLLBACK; the locks are gone with the transaction.
End(c, answer) == call' = [call EXCEPT ![c] = Bare(@.req, "done", answer)]

\* An answer that changes no row.
Answer(c, answer) == End(c, answer) /\ UNCHANGED <<hour, reception, row, stored>>

Write(c, r, answer) ==
  /\ row' = [row EXCEPT ![call[c].req.key] = r]
  /\ End(c, answer)
  /\ UNCHANGED <<hour, reception, stored>>

\* The request goes on, knowing what next says.
Advance(c, next) ==
  /\ call' = [call EXCEPT ![c] = next]
  /\ UNCHANGED <<hour, reception, row, stored>>

At(c, step, ops) == call[c].step = step /\ call[c].req.op \in ops
-----------------------------------------------------------------------------
(* Retention: app.media_retention_decision.                                  *)

Live(r) == r.session = "pending" /\ hour < r.expires

\* A bug: a finished upload is protected by its reference only.
BindingOfLiveUploads(r) == r.bound # NoId /\ Open(r.bound) /\ Live(r)

\* The binding protects the upload of an open reception until it is attached.
BindingProtects(r) ==
  /\ r.bound # NoId /\ Open(r.bound)
  /\ Live(r) \/ (r.session = "completed" /\ r.asset = "active" /\ ~r.linked)

\* A reference of a reception has no date before its order is delivered.
Blocked(r) == BindingProtects(r) \/ r.linked \/ Live(r)

Dates(r) ==
  (IF r.signed # NoId THEN {r.signedAt + SignatureKept} ELSE {})
  \cup (IF r.session # "completed" /\ r.asset = "pending_upload"
        THEN {r.created + IncompleteKept} ELSE {})
  \cup (IF r.asset = "quarantined" THEN {r.at + QuarantineKept} ELSE {})
  \cup (IF r.asset = "active" /\ r.signed = NoId /\ ~Blocked(r) THEN {r.at + UnlinkedKept} ELSE {})
  \cup ({r.floor} \ {0})

MayBeRemoved(r) == ~Blocked(r) /\ Dates(r) # {} /\ Max(Dates(r)) <= hour

\* persistMediaLifecycleRetention: GREATEST of the dates known so far.
PersistRetention(r) == IF Dates(r) = {} THEN r ELSE [r EXCEPT !.floor = Max(Dates(r))]
-----------------------------------------------------------------------------
(* createUploadSession.                                                      *)

\* A bug: nothing but the unique key of the table keeps two creations apart.
CreateKeyUnlocked(c) ==
  LET q == call[c].req  r == row[q.key] IN
  /\ At(c, "key", {"create"})
  /\ IF r.session # "none" /\ r.bound # q.target
     THEN Answer(c, "mismatch")
     ELSE Advance(c, [call[c] EXCEPT !.new = r.session = "none",
                                     !.step = IF q.target = NoId THEN "media" ELSE "reception"])

\* The advisory lock on the key, and the unlocked look for a session of it.
CreateKey(c) ==
  LET q == call[c].req  r == row[q.key] IN
  /\ At(c, "key", {"create"}) /\ Free(<<"key", q.key>>, c)
  /\ IF r.session # "none" /\ r.bound # q.target
     THEN Answer(c, "mismatch")
     ELSE Advance(c, [call[c] EXCEPT !.new = r.session = "none", !.locks = {<<"key", q.key>>},
                                     !.step = IF q.target = NoId THEN "media" ELSE "reception"])

\* authorizeOperationalCreate or, for a session that exists, revalidateUploadBinding.
CreateReception(c) ==
  LET q == call[c].req  new == call[c].new
      allowed == Open(q.target) /\ (new => reception[q.target].consent = "granted")
      shared == IF new THEN {<<"consent", q.target>>} ELSE {} IN
  /\ At(c, "reception", {"create"}) /\ Free(<<"reception", q.target>>, c)
  /\ IF ~allowed THEN Answer(c, "refused")
     ELSE Advance(c, [call[c] EXCEPT !.step = "media",
                                     !.locks = @ \cup {<<"reception", q.target>>} \cup shared])

\* The session and its asset, locked: a second URL for a pending upload.
CreateMedia(c) ==
  LET q == call[c].req  r == row[q.key] IN
  /\ At(c, "media", {"create"}) /\ Free(<<"media", q.key>>, c)
  /\ \/ r.session = "none" /\ Advance(c, [call[c] EXCEPT !.step = "insert"])
     \/ r.session \in {"completed", "failed"} /\ Answer(c, "refused")
     \/ Live(r) /\ Answer(c, "url")
     \/ /\ r.session = "expired" \/ (r.session = "pending" /\ ~Live(r))
        /\ Write(c, [r EXCEPT !.session = "expired"], "expired")

\* What the unique key and the trigger on the binding demand of a new session.
InsertAllowed(q) ==
  /\ row[q.key].session = "none"
  /\ q.target # NoId => Open(q.target) /\ reception[q.target].consent = "granted"

\* The new rows; late: the URL would have expired before it is signed.
CreateInsert(c) ==
  LET q == call[c].req IN
  /\ At(c, "insert", {"create"})
  /\ IF ~InsertAllowed(q) THEN Answer(c, "internal")
     ELSE \E late \in BOOLEAN :
             Write(c, [NoRow EXCEPT !.session = IF late THEN "expired" ELSE "pending",
                                    !.asset = "pending_upload", !.created = hour,
                                    !.expires = hour + UploadTtl, !.bound = q.target],
                   IF late THEN "expired" ELSE "url")
-----------------------------------------------------------------------------
(* The client's PUT, and completion up to its second transaction.            *)

\* A bug of the signed headers: the object may be written again.
PutAgain(k, content) ==
  /\ row[k].session # "none" /\ stored' = [stored EXCEPT ![k] = content]
  /\ UNCHANGED <<hour, reception, row, call>>

\* If-None-Match: only the first PUT succeeds.  It may end late.
Put(k, content) ==
  /\ row[k].session # "none" /\ stored[k] = "none"
  /\ stored' = [stored EXCEPT ![k] = content]
  /\ UNCHANGED <<hour, reception, row, call>>

\* readCompletionPlan refuses the session or its asset.
NotCompletable(r) ==
  \/ ~Editable(r) \/ r.session = "failed"
  \/ r.session = "completed" /\ r.asset # "active"
  \/ Live(r) /\ r.asset # "pending_upload"

\* The first transaction; it ends before R2 is asked.
CompletePrepare(c) ==
  LET r == row[call[c].req.key] IN
  /\ At(c, "prepare", {"complete"}) /\ r.session # "none"
  /\ IF NotCompletable(r) THEN Answer(c, "refused")
     ELSE Advance(c, [call[c] EXCEPT !.step = IF Live(r) THEN "inspect" ELSE "discover"])

\* HEAD and content, in at most ten seconds; or no object yet, or no answer.
Inspect(c) ==
  LET object == stored[call[c].req.key] IN
  /\ At(c, "inspect", {"complete"})
  /\ \/ Answer(c, "refused")
     \/ object # "none" /\ Advance(c, [call[c] EXCEPT !.object = object, !.step = "discover"])
-----------------------------------------------------------------------------
(* lockMediaRetention and lock_media_purge.                                  *)

\* The receptions to lock, read without locks; attach and sign look at theirs first.
Discover(c) ==
  LET q == call[c].req  r == row[q.key]
      targets == IF q.op \in {"attach", "sign"} THEN {q.target} ELSE {}
      parents == Parents(r) \cup targets IN
  /\ call[c].step = "discover" /\ r.session # "none"
  /\ IF \E p \in targets : ~Open(p) THEN Answer(c, "refused")
     ELSE Advance(c, [call[c] EXCEPT !.parents = parents, !.orders = {p \in parents : ~Open(p)},
                                     !.step = "lock"])

ToLock(c) == {p \in call[c].parents : <<"reception", p>> \notin call[c].locks}

\* A bug: the reception of the request is locked before those found.
TargetFirst(c) == IF call[c].req.target \in ToLock(c) THEN call[c].req.target ELSE Min(ToLock(c))

\* ORDER BY id.
NextReception(c) == Min(ToLock(c))

LockReception(c) ==
  /\ call[c].step = "lock" /\ ToLock(c) # {}
  /\ Free(<<"reception", NextReception(c)>>, c)
  /\ Advance(c, [call[c] EXCEPT !.locks = @ \cup {<<"reception", NextReception(c)>>}])

\* A reference or an order that was not there at the discovery.
LineageChanged(c) ==
  \/ ~(Parents(row[call[c].req.key]) \subseteq call[c].parents)
  \/ \E p \in call[c].parents \ call[c].orders : ~Open(p)

\* Start the transaction again, at most twice, or give up.
Again(c) ==
  IF call[c].req.op \in {"attach", "remove"} /\ call[c].tries < 2
  THEN Advance(c, [call[c] EXCEPT !.tries = @ + 1, !.step = "discover", !.locks = {}])
  ELSE Answer(c, IF call[c].req.op = "sign" THEN "refused" ELSE "retry")

LockMedia(c) ==
  LET media == <<"media", call[c].req.key>> IN
  /\ call[c].step = "lock" /\ ToLock(c) = {} /\ Free(media, c)
  /\ IF LineageChanged(c) THEN Again(c)
     ELSE Advance(c, [call[c] EXCEPT !.locks = @ \cup {media}, !.step = "write"])
-----------------------------------------------------------------------------
(* What is done under the locks.                                             *)

Finished(r, c) ==
  LET bad == call[c].object = "bad" IN
  PersistRetention([r EXCEPT !.asset = IF bad THEN "quarantined" ELSE "active",
                             !.session = IF bad THEN "failed" ELSE "completed",
                             !.at = hour, !.sum = call[c].req.sum])

\* A bug: the second transaction goes by what the first one saw.
CompleteAsPlanned(c) ==
  LET r == row[call[c].req.key] IN
  /\ At(c, "write", {"complete"})
  /\ IF call[c].object = "skip" THEN Answer(c, "completed")
     ELSE Write(c, Finished(r, c), IF call[c].object = "bad" THEN "quarantined" ELSE "completed")

\* completeUploadSession: every condition again, on the rows now locked.
CompleteWrite(c) ==
  LET r == row[call[c].req.key]
      ready == ~NotCompletable(r) /\ Live(r) /\ call[c].object # "skip" IN
  /\ At(c, "write", {"complete"})
  /\ \/ NotCompletable(r) /\ Answer(c, "refused")
     \/ /\ ~NotCompletable(r) /\ r.session = "completed"
        /\ Answer(c, IF r.sum = call[c].req.sum THEN "completed" ELSE "mismatch")
     \/ /\ ~NotCompletable(r) /\ r.session \in {"pending", "expired"} /\ ~Live(r)
        /\ Write(c, [r EXCEPT !.session = "expired"], "expired")
     \/ ready /\ Write(c, Finished(r, c),
                       IF call[c].object = "bad" THEN "quarantined" ELSE "completed")

\* attachMedia; the trigger on reception_media asks the same under the same locks.
AttachWrite(c) ==
  LET q == call[c].req  r == row[q.key] IN
  /\ At(c, "write", {"attach"})
  /\ IF ~Open(q.target) THEN Answer(c, "refused")
     ELSE IF r.asset # "active" \/ r.bound = NoId THEN Answer(c, "ineligible")
     ELSE IF r.session # "completed" \/ r.bound # q.target THEN Answer(c, "mismatch")
     ELSE Write(c, IF r.linked THEN r ELSE PersistRetention([r EXCEPT !.linked = TRUE]), "attached")

\* captureReceptionSignature: one signature per reception, one use per asset.
SignWrite(c) ==
  LET q == call[c].req  r == row[q.key]
      taken == r.signed # NoId \/ \E k \in Keys : row[k].signed = q.target IN
  /\ At(c, "write", {"sign"})
  /\ IF ~Open(q.target) \/ taken THEN Answer(c, "refused")
     ELSE IF r.asset # "active" \/ r.bound # NoId THEN Answer(c, "ineligible")
     ELSE Write(c, PersistRetention([r EXCEPT !.signed = q.target, !.signedAt = hour]), "signed")

\* request_media_deletion, by hand only for what nothing refers to.
RemoveWrite(c) ==
  LET q == call[c].req  r == row[q.key]
      referred == r.linked \/ r.signed # NoId IN
  /\ At(c, "write", {"remove", "sweep"})
  /\ IF r.asset = "deleted"
     THEN Answer(c, IF q.op \in {"sweep", r.by} THEN "deleted" ELSE "refused")
     ELSE IF ~MayBeRemoved(r) \/ (q.op = "remove" /\ referred) THEN Answer(c, "refused")
     ELSE Write(c, [r EXCEPT !.asset = "deleted", !.by = q.op], "deleted")
-----------------------------------------------------------------------------
(* Around them.                                                              *)

CloseReception(p) ==
  /\ Open(p) /\ \A c \in Calls : <<"reception", p>> \notin call[c].locks
  /\ reception' = [reception EXCEPT ![p].status = "closed"]
  /\ UNCHANGED <<hour, row, stored, call>>

\* Waits for the key share locks of the sessions being created.
RevokeConsent(p) ==
  /\ reception[p].consent = "granted" /\ \A c \in Calls : <<"consent", p>> \notin call[c].locks
  /\ reception' = [reception EXCEPT ![p].consent = "revoked"]
  /\ UNCHANGED <<hour, row, stored, call>>

HourPasses ==
  /\ hour < LastHour /\ hour' = hour + 1
  /\ UNCHANGED <<reception, row, stored, call>>

CallStep(c) ==
  \/ CreateKey(c) \/ CreateReception(c) \/ CreateMedia(c) \/ CreateInsert(c)
  \/ CompletePrepare(c) \/ Inspect(c)
  \/ Discover(c) \/ LockReception(c) \/ LockMedia(c)
  \/ CompleteWrite(c) \/ AttachWrite(c) \/ SignWrite(c) \/ RemoveWrite(c)

\* Receptions that are open, or not, and nothing uploaded yet.
UploadInit ==
  /\ hour = 0
  /\ reception \in [ReceptionIds -> [status : {"open", "closed"}, consent : {"granted", "revoked"}]]
  /\ row = [k \in Keys |-> NoRow]
  /\ stored = [k \in Keys |-> "none"]
  /\ \E asked \in [Calls -> Requests] : call = [c \in Calls |-> Fresh(asked[c])]

UploadNext ==
  \/ \E c \in Calls : CallStep(c)
  \/ \E k \in Keys, content \in {"good", "bad"} : Put(k, content)
  \/ \E p \in ReceptionIds : CloseReception(p) \/ RevokeConsent(p)
  \/ HourPasses

UploadSpec == UploadInit /\ [][UploadNext]_uploadVars
-----------------------------------------------------------------------------
(* Properties.                                                               *)

\* The variables have their types; an asset is active only when its session was
\* completed on an object that was inspected and still is the one stored; what
\* failed stays in quarantine; evidence refers to active assets, a signature at
\* least for its term.
UploadsAreSound ==
  /\ UploadTypeOK
  /\ \A k \in Keys : LET r == row[k] IN
    /\ r.asset = "active" => r.session = "completed" /\ stored[k] = "good"
    /\ r.asset = "quarantined" => r.session = "failed" /\ stored[k] = "bad"
    /\ r.session \in {"completed", "failed"} => r.asset \notin {"none", "pending_upload"}
    /\ r.linked => r.asset = "active"
    /\ r.signed # NoId /\ hour < r.signedAt + SignatureKept => r.asset = "active"

\* No guard of the database meets what the handler had checked (that would be
\* an internal error), and what was answered is what the rows say: the URL
\* belongs to a session of the request's reception, the checksum is the one quoted.
UploadAnswersHold ==
  \A c \in Calls : LET q == call[c].req  r == row[q.key] IN
    /\ call[c].reply # "internal"
    /\ call[c].reply = "url" => r.session # "none" /\ r.bound = q.target
    /\ call[c].reply = "completed" => r.sum = q.sum
    /\ call[c].reply = "attached" => r.linked /\ r.bound = q.target

\* An upload completed for a reception can be attached as long as the reception
\* is open: nobody can have removed it meanwhile.
CompletedCanBeAttached ==
  \A c \in Calls : LET q == call[c].req  r == row[q.key] IN
    /\ call[c].req.op = "attach" /\ r.session = "completed" /\ r.bound = q.target
    /\ Open(q.target) /\ call[c].step = "write"
    => r.asset = "active"

\* What was committed is not taken back: the end of a session, a checksum, a
\* reference, a tombstone, and a retention date, which only moves away.
PromisesStand ==
  [][\A k \in Keys :
       /\ row[k].session \notin {"none", "pending"} => row'[k].session = row[k].session
       /\ row[k].sum # "none" => row'[k].sum = row[k].sum
       /\ row[k].linked => row'[k].linked
       /\ row[k].signed # NoId => row'[k].signed = row[k].signed
       /\ row[k].asset = "deleted" => row'[k].asset = "deleted"
       /\ row[k].floor <= row'[k].floor]_uploadVars

\* As long as a request is unanswered some request can go on: no two of them
\* wait for each other's locks.  As no request repeats a step for ever, all end.
NoUploadDeadlock ==
  (\E c \in Calls : /\ call[c].step # "done"
                    /\ call[c].req.op = "create" \/ row[call[c].req.key].session # "none")
  => \E c \in Calls : ENABLED CallStep(c)
=============================================================================
