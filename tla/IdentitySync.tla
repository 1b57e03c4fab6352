---------------------------- MODULE IdentitySync ----------------------------
(***************************************************************************)
(* The local users follow the identity provider: its webhooks, stored with *)
(* a job each, come late, repeated and in any order; a job asks the        *)
(* provider anew between two transactions and applies the answer under the *)
(* lock of the identity.  A deleted identity keeps its row, disabled, and  *)
(* every membership of it gets a job that revokes it.                      *)
(*   src/src/identity and app.ingest_verified_clerk_webhook,               *)
(*   app.identity_sync_classify and app.identity_sync_apply of 0007.       *)
(*                                                                         *)
(* Composed with Accounts, which makes users and memberships of the same   *)
(* subjects meanwhile.  The jobs' claims, retries and stalls are those of  *)
(* Outbox in short; MemberAdmin has the locks of the revocation.           *)
(***************************************************************************)
EXTENDS Accounts

CONSTANTS
  Events,        \* svix ids, numbers, for the order that breaks ties
  Hashes,        \* of the bodies the provider may send under one svix id
  Runners,       \* workers
  Budget,        \* attempts after which a job is given up
  MaxClaims      \* bound on the claims of one job, stalls included

ASSUME SyncAssumption ==
  /\ Events \subseteq Nat \ {0}
  /\ None \notin Events /\ None \notin Hashes
  /\ Budget \in Nat \ {0} /\ MaxClaims \in Nat

VARIABLES
  events,       \* per svix id, what happened at the provider, and when
  hooks,        \* per svix id, webhook_events: the hash of its body
  conflicts,    \* svix ids audited for a second body
  jobs,         \* per svix id, its job in the outbox
  runs,         \* per worker, the job it runs and what the provider said
  applied,      \* per subject, the event identity_sync_states has last
  revocations,  \* memberships with a revocation job
  kept          \* memberships the revocation left to the last owner

syncVars == <<events, hooks, conflicts, jobs, runs, applied, revocations, kept>>
syncAll == <<accountVars, syncVars>>

Observations == [kind : {"none", "skip", "deleted", "not_found", "snapshot"},
                 email : Emails \cup {None}, banned : BOOLEAN]
Unseen == [kind |-> "none", email |-> None, banned |-> FALSE]

JobRow == [status : {"none", "pending", "processing", "processed", "dead"}, claims : Nat]
Run == [job : Events \cup {None}, at : {"idle", "classify", "fetch", "apply"}, claim : Nat, seen : Observations]

SyncTypeOK ==
  /\ AccountsTypeOK
  /\ events \in [Events -> [who : Subjects \cup {None}, type : {"none", "changed", "deleted"}, time : Nat]]
  /\ hooks \in [Events -> Hashes \cup {None}]
  /\ conflicts \subseteq Events
  /\ jobs \in [Events -> JobRow]
  /\ runs \in [Runners -> Run]
  /\ applied \in [Subjects -> Events \cup {None}]
  /\ revocations \subseteq Memberships
  /\ kept \subseteq Memberships

SyncInit ==
  /\ AccountsInit
  /\ events = [e \in Events |-> [who |-> None, type |-> "none", time |-> 0]]
  /\ hooks = [e \in Events |-> None]
  /\ conflicts = {}
  /\ jobs = [e \in Events |-> [status |-> "none", claims |-> 0]]
  /\ runs = [w \in Runners |-> [job |-> None, at |-> "idle", claim |-> 0, seen |-> Unseen]]
  /\ applied = [s \in Subjects |-> None]
  /\ revocations = {}
  /\ kept = {}

-----------------------------------------------------------------------------
(* The provider. *)

Happened == {e \in Events : events[e].type # "none"}

\* Two events share a millisecond only before a webhook of it was stored.
Moments == {t \in 1 .. Cardinality(Happened) + 1 :
              \A e \in Happened : events[e].time < t \/ (events[e].time = t /\ hooks[e] = None)}

Happens(s, type, profile) ==
  /\ ~provider[s].gone
  /\ provider' = [provider EXCEPT ![s] = profile]
  /\ \E e \in Events \ Happened : \E t \in Moments :
       events' = [events EXCEPT ![e] = [who |-> s, type |-> type, time |-> t]]
  /\ UNCHANGED <<accountRows, lifecycle, mailing, asked, hooks, conflicts, jobs, runs, applied, revocations, kept>>

\* user.updated, user.banned, user.unbanned, ...
ChangeAtProvider(s) ==
  \E email \in Emails \cup {None}, banned \in BOOLEAN :
    /\ <<email, banned>> # <<provider[s].email, provider[s].banned>>
    /\ Happens(s, "changed", [email |-> email, banned |-> banned, gone |-> FALSE])

DeleteAtProvider(s) == Happens(s, "deleted", [provider[s] EXCEPT !.gone = TRUE])

-----------------------------------------------------------------------------
(* Webhooks and jobs. *)

\* app.ingest_verified_clerk_webhook: the svix id decides, and then the hash.
Ingest(e, h) ==
  /\ e \in Happened
  /\ IF hooks[e] = None
     THEN /\ hooks' = [hooks EXCEPT ![e] = h]
          /\ jobs' = [jobs EXCEPT ![e].status = "pending"]
          /\ UNCHANGED conflicts
     ELSE /\ conflicts' = IF h = hooks[e] THEN conflicts ELSE conflicts \cup {e}
          /\ UNCHANGED <<hooks, jobs>>
  /\ UNCHANGED <<accountVars, events, runs, applied, revocations, kept>>

ClaimJob(w, e) ==
  /\ runs[w].at = "idle"
  /\ jobs[e].status = "pending"
  /\ jobs[e].claims < MaxClaims
  /\ jobs' = [jobs EXCEPT ![e] = [status |-> "processing", claims |-> @.claims + 1]]
  /\ runs' = [runs EXCEPT ![w] = [job |-> e, at |-> "classify", claim |-> jobs[e].claims + 1, seen |-> Unseen]]
  /\ UNCHANGED <<accountVars, events, hooks, conflicts, applied, revocations, kept>>

\* A job taken back from a worker that is slow or dead; a slow one goes on.
StallJob(e) ==
  /\ jobs[e].status = "processing"
  /\ jobs' = [jobs EXCEPT ![e].status = "pending"]
  /\ UNCHANGED <<accountVars, events, hooks, conflicts, runs, applied, revocations, kept>>

\* worker_complete_outbox_event moves the job if it is in processing, whoever
\* claimed it.
JobEnds(e, status) ==
  jobs' = IF jobs[e].status = "processing" THEN [jobs EXCEPT ![e].status = status] ELSE jobs

Rest(w) == runs' = [runs EXCEPT ![w] = [job |-> None, at |-> "idle", claim |-> 0, seen |-> Unseen]]

\* The provider or the database does not answer, or refuses for good.
FailRun(w) ==
  /\ runs[w].at # "idle"
  /\ \/ JobEnds(runs[w].job, IF runs[w].claim < Budget THEN "pending" ELSE "dead")
     \/ runs[w].at = "fetch" /\ JobEnds(runs[w].job, "dead")
  /\ Rest(w)
  /\ UNCHANGED <<accountVars, events, hooks, conflicts, applied, revocations, kept>>

-----------------------------------------------------------------------------
(* One run: classify, ask the provider, apply. *)

Rank(e) == IF events[e].type = "deleted" THEN 1 ELSE 0

\* (occurred_at, rank, provider_event_id)
Before(d, e) ==
  \/ events[d].time < events[e].time
  \/ events[d].time = events[e].time /\ Rank(d) < Rank(e)
  \/ events[d].time = events[e].time /\ Rank(d) = Rank(e) /\ d < e

IsFresh(s, e) == /\ applied[s] # None => Before(applied[s], e)
                 /\ lifecycle[s] # "deleted"

Knows(w, at, seen) == runs' = [runs EXCEPT ![w].at = at, ![w].seen = seen]

\* app.identity_sync_classify, a statement of its own.
Classify(w) ==
  /\ runs[w].at = "classify"
  /\ LET e == runs[w].job IN
     IF ~IsFresh(events[e].who, e) THEN Knows(w, "apply", [Unseen EXCEPT !.kind = "skip"])
     ELSE IF events[e].type = "deleted" THEN Knows(w, "apply", [Unseen EXCEPT !.kind = "deleted"])
     ELSE Knows(w, "fetch", Unseen)
  /\ UNCHANGED <<accountVars, events, hooks, conflicts, jobs, applied, revocations, kept>>

\* fetchIdentitySnapshot
Fetch(w) ==
  /\ runs[w].at = "fetch"
  /\ LET p == provider[events[runs[w].job].who] IN
     Knows(w, "apply", IF p.gone THEN [Unseen EXCEPT !.kind = "not_found"]
                       ELSE [kind |-> "snapshot", email |-> p.email, banned |-> p.banned])
  /\ UNCHANGED <<accountVars, events, hooks, conflicts, jobs, applied, revocations, kept>>

\* The user after a snapshot: made unless the address is unusable, changed,
\* disabled by a ban; nothing makes a disabled user active.
UserAfter(s, seen) ==
  IF user[s].status = "none"
  THEN IF seen.email = None THEN user[s]
       ELSE [email |-> seen.email,
             status |-> IF seen.banned \/ lifecycle[s] = "blocked" THEN "disabled" ELSE "active"]
  ELSE [email |-> IF seen.email = None THEN user[s].email ELSE seen.email,
        status |-> IF seen.banned THEN "disabled" ELSE user[s].status]

SnapshotApplied(s, seen) ==
  /\ user' = [user EXCEPT ![s] = UserAfter(s, seen)]
  /\ lifecycle' = [lifecycle EXCEPT ![s] = IF seen.banned \/ @ = "blocked" THEN "blocked" ELSE "active"]
  /\ UNCHANGED revocations

TombstoneApplied(s) ==
  /\ user' = IF user[s].status = "none" THEN user ELSE [user EXCEPT ![s].status = "disabled"]
  /\ revocations' = revocations \cup {m \in MembersOf(s) : m.status = "active"}
  /\ lifecycle' = [lifecycle EXCEPT ![s] = "deleted"]

\* Mutant: the order of the events is not looked at again.
ApplyWhatWasFresh(w) ==
  /\ runs[w].at = "apply"
  /\ LET e == runs[w].job  s == events[e].who  seen == runs[w].seen IN
     /\ seen.kind # "skip" => IdentityFree(s)
     /\ IF seen.kind # "skip" /\ lifecycle[s] # "deleted"
        THEN /\ applied' = [applied EXCEPT ![s] = e]
             /\ IF seen.kind = "snapshot" THEN SnapshotApplied(s, seen) ELSE TombstoneApplied(s)
        ELSE UNCHANGED <<applied, user, lifecycle, revocations>>
     /\ JobEnds(e, "processed")
  /\ Rest(w)
  /\ UNCHANGED <<provider, members, invited, mailing, asked, events, hooks, conflicts, kept>>

\* app.identity_sync_apply, in the transaction that also ends the job.
Apply(w) ==
  /\ runs[w].at = "apply"
  /\ LET e == runs[w].job  s == events[e].who  seen == runs[w].seen IN
     /\ seen.kind # "skip" => IdentityFree(s)
     /\ IF seen.kind # "skip" /\ IsFresh(s, e)
        THEN /\ applied' = [applied EXCEPT ![s] = e]
             /\ IF seen.kind = "snapshot" THEN SnapshotApplied(s, seen) ELSE TombstoneApplied(s)
        ELSE UNCHANGED <<applied, user, lifecycle, revocations>>
     /\ JobEnds(e, "processed")
  /\ Rest(w)
  /\ UNCHANGED <<provider, members, invited, mailing, asked, events, hooks, conflicts, kept>>

\* createMembershipRevocationHandler.  Home always has another owner; the
\* founder of a workshop is its only one.
RevokeMembership(m) ==
  /\ m \in revocations
  /\ revocations' = revocations \ {m}
  /\ IF m.via = None
     THEN kept' = kept \cup {m} /\ UNCHANGED members
     ELSE members' = (members \ {m}) \cup {[m EXCEPT !.status = "revoked"]} /\ UNCHANGED kept
  /\ UNCHANGED <<provider, user, lifecycle, invited, mailing, asked,
                 events, hooks, conflicts, jobs, runs, applied>>

SyncStep ==
  \/ \E s \in Subjects : ChangeAtProvider(s) \/ DeleteAtProvider(s)
  \/ \E e \in Events : StallJob(e) \/ \E h \in Hashes : Ingest(e, h)
  \/ \E w \in Runners : FailRun(w) \/ Classify(w) \/ Fetch(w) \/ Apply(w) \/ \E e \in Events : ClaimJob(w, e)
  \/ \E m \in revocations : RevokeMembership(m)

SyncNext == SyncStep \/ (AccountsNext /\ UNCHANGED syncVars)

SyncSpec == SyncInit /\ [][SyncNext]_syncAll
-----------------------------------------------------------------------------
(* Properties. *)

\* The tombstone and the ban are final: whatever call made the user just in
\* time, or a membership of it, at the same moment, a blocked or deleted
\* identity has no active user, and every membership it still has is about to
\* be revoked or was left to the last owner of a workshop.
TombstonesHold ==
  \A s \in Subjects :
    /\ lifecycle[s] \in {"blocked", "deleted"} => user[s].status # "active"
    /\ lifecycle[s] = "deleted" =>
         \A m \in MembersOf(s) : m.status = "active" => m \in revocations \cup kept

\* Every event of the subject was delivered and its job is done.
Quiet(s) == \A e \in Happened : events[e].who = s => jobs[e].status = "processed"

\* Events out of order, repeated, retried or run by two workers at once leave no
\* trace: once all are processed, the user is what the provider says, except
\* that nothing lifts a ban or a deletion.
QuietIdentityIsInSync ==
  \A s \in Subjects : Quiet(s) =>
    /\ provider[s].gone => lifecycle[s] = "deleted"
    /\ provider[s].banned \/ provider[s].gone => user[s].status # "active"
    /\ user[s].status = "active" => provider[s].email \in {None, user[s].email}
=============================================================================
