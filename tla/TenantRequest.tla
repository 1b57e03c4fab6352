--------------------------- MODULE TenantRequest ---------------------------
(***************************************************************************)
(* The life of tenant-scoped HTTP requests of one user against one         *)
(* connection pool: authentication, selection of a tenant, admission of    *)
(* downloads, the request's one transaction, its handler, COMMIT or        *)
(* ROLLBACK, and everything that may interrupt it.                         *)
(*                                                                         *)
(* Node runs one callback at a time: an action is what happens between two *)
(* awaits.  "done" is the end of the response, also of one that nobody     *)
(* receives.  SQL errors, timeouts and deadlines of a statement are        *)
(* failures that may come at any statement; BEGIN belongs to the step      *)
(* that gets the connection.                                               *)
(***************************************************************************)
EXTENDS Naturals, Sequences, FiniteSets, Authorization

CONSTANTS
  Requests,
  Tenants,
  None,        \* no X-Tenant-Id header, no tenant
  PoolMax,     \* database.options.max
  MaxWaiters,  \* MEDIA_DOWNLOAD_MAX_WAITERS
  MaxMoves     \* bound on the changes of the user's memberships

ASSUME TenantRequestAssumption ==
  /\ None \notin Tenants
  /\ PoolMax \in Nat \ {0}
  /\ MaxWaiters \in Nat
  /\ MaxMoves \in Nat
  /\ IsFiniteSet(Requests)

VARIABLES
  kind,     \* per request: the sort of route
  header,   \* per request: X-Tenant-Id
  pc,       \* per request: where its pipeline is
  status,   \* per request: state.status of its registered state, "closing" by what ends it
  started,  \* per request: state.routeStarted
  gone,     \* per request: the client has disconnected
  tenant,   \* per request: the selected, then the bound tenant
  first,    \* per request: the tenant of its first context
  check,    \* per request: the tripwire of the context
  effects,  \* per request: what became of the work of its last transaction
  reply,    \* per request: its answer; "failed" is the answer to a failed COMMIT
  attempt,  \* per request: how often it has reopened its transaction
  held,     \* the requests with a connection, inside BEGIN
  queue,    \* the reservations the pool has not served, in order
  leases,   \* the downloads with an admission lease
  waiters,  \* Admission.waiters
  members,  \* the tenants where the user has an active membership
  since,    \* history, per request: the tenants that were, at some time since its BEGIN
  moves     \* how often the memberships have changed

vars == <<kind, header, pc, status, started, gone, tenant, first, check, effects, reply, attempt,
          held, queue, leases, waiters, members, since, moves>>
input     == <<kind, header>>
context   == <<tenant, first, check>>
outcome   == <<effects, reply>>
admission == <<leases, waiters>>
authority == <<members, since, moves>>

Kinds     == {"plain", "gallery", "download", "complete", "attach"}
\* They reserve before they discover the memberships.
FrontDoor == {"gallery", "download"}
Ends      == {"endGap", "endReopen", "endRespond", "endError"}
Steps     == {"new", "waiting", "granted", "reserve", "discover", "validate", "load", "registered",
              "handler", "gap", "reopen", "finalize", "error", "respond", "done"} \cup Ends
Closing   == {"committing", "rolling"}

Elements(s) == {s[i] : i \in 1..Len(s)}
Capacity    == IF PoolMax > 1 THEN PoolMax - 1 ELSE 1

TypeOK ==
  /\ kind \in [Requests -> Kinds]
  /\ header \in [Requests -> Tenants \cup {None}]
  /\ pc \in [Requests -> Steps]
  /\ status \in [Requests -> {"none", "open", "closed"} \cup Closing]
  /\ started \in [Requests -> BOOLEAN]
  /\ gone \in [Requests -> BOOLEAN]
  /\ tenant \in [Requests -> Tenants \cup {None}]
  /\ first \in [Requests -> Tenants \cup {None}]
  /\ check \in [Requests -> {"not_required", "required_pending", "satisfied"}]
  /\ effects \in [Requests -> {"none", "pending", "durable"}]
  /\ reply \in [Requests -> {"none", "ok", "durable", "refused", "error", "failed"}]
  /\ attempt \in [Requests -> 0..2]
  /\ held \in SUBSET Requests
  /\ queue \in Seq(Requests)
  /\ leases \in SUBSET Requests
  /\ waiters \in Seq(Requests)
  /\ members \in SUBSET Tenants
  /\ since \in [Requests -> SUBSET Tenants]
  /\ moves \in 0..MaxMoves

\* A request that never comes is as one that is over.
Init ==
  /\ kind \in [Requests -> Kinds]
  /\ header \in [Requests -> Tenants \cup {None}]
  /\ pc \in [Requests -> {"new", "done"}]
  /\ status = [r \in Requests |-> "none"]
  /\ started = [r \in Requests |-> FALSE]
  /\ gone = [r \in Requests |-> FALSE]
  /\ tenant = [r \in Requests |-> None]
  /\ first = [r \in Requests |-> None]
  /\ check = [r \in Requests |-> "not_required"]
  /\ effects = [r \in Requests |-> "none"]
  /\ reply = [r \in Requests |-> "none"]
  /\ attempt = [r \in Requests |-> 0]
  /\ held = {} /\ queue = <<>>
  /\ leases = {} /\ waiters = <<>>
  /\ members \in SUBSET Tenants
  /\ since = [r \in Requests |-> {}]
  /\ moves \in 0..MaxMoves

(***************************************************************************)
(* Tenant selection and the permission guard.                              *)
(***************************************************************************)

\* The candidate of a selection, as a set with at most one element: an
\* explicit selection never falls back on another membership.
SelectTenantCandidate(selection, candidates) ==
  IF selection # None THEN {selection} \cap candidates
  ELSE {t \in candidates : Cardinality(candidates) = 1}

\* What the routes of a kind require; assertTenantRouteConfig fixes the
\* completion of an upload.
RoutePermissions(r) ==
  CASE kind[r] \in FrontDoor             -> {"media.read"}
    [] kind[r] \in {"complete", "attach"} -> {"media.upload"}
    [] kind[r] = "plain"                 -> PermissionCodes

RouteScopes(r) ==
  CASE kind[r] \in FrontDoor             -> {"resource"}
    [] kind[r] \in {"complete", "attach"} -> {"tenant"}
    [] kind[r] = "plain"                 -> {"tenant", "resource"}

(***************************************************************************)
(* Download admission: a FIFO of waiters in front of a few leases.         *)
(***************************************************************************)

\* Mutant: a place that is given back is not handed over.
AdmittedNobody(places, line) == {}

Admitted(places, line) ==
  {line[i] : i \in {j \in 1..Len(line) : j <= Capacity - Cardinality(places)}}

Go(r, next) == pc' = [pc EXCEPT ![r] = next]

\* The line when r leaves it, if r is in it.
Leave(line, r) ==
  IF r \in Elements(line)
  THEN LET p == CHOOSE p \in 1..Len(line) : line[p] = r
       IN [i \in 1..(Len(line) - 1) |-> IF i < p THEN line[i] ELSE line[i + 1]]
  ELSE line

\* drain, when request r has gone to step next: the first waiters get the free
\* places.
Drain(places, line, r, next) ==
  LET admitted == Admitted(places, line) IN
  /\ leases' = places \cup admitted
  /\ waiters' = SubSeq(line, Cardinality(admitted) + 1, Len(line))
  /\ pc' = [s \in Requests |-> IF s \in admitted THEN "granted" ELSE IF s = r THEN next ELSE pc[s]]

\* releaseAdmission.
Release(r, next) == Drain(leases \ {r}, waiters, r, next)

Answer(r, answer) == reply' = [reply EXCEPT ![r] = answer]

\* An error of the pipeline before or in the handler: onError comes next.
Fail(r) == Go(r, "error") /\ Answer(r, "error")

(***************************************************************************)
(* onRequest: authentication, admission, reservation.                      *)
(***************************************************************************)

Begun(r) == /\ pc[r] = "new"
            /\ UNCHANGED <<input, status, started, gone, context, effects, attempt, held, authority>>

AuthenticationFails(r) ==
  /\ Begun(r)
  /\ Fail(r)
  /\ UNCHANGED <<queue, admission>>

Authenticate(r) ==
  /\ Begun(r)
  /\ kind[r] # "download"
  /\ UNCHANGED <<reply, admission>>
  /\ IF kind[r] = "gallery"
     THEN Go(r, "reserve") /\ queue' = Append(queue, r)
     ELSE Go(r, "discover") /\ queue' = queue

\* acquireAdmission: a free place, a place in the line, or a refusal.
AcquireAdmission(r) ==
  /\ Begun(r)
  /\ kind[r] = "download"
  /\ UNCHANGED queue
  /\ \/ /\ gone[r] \/ (Len(waiters) >= MaxWaiters /\ (waiters # <<>> \/ Cardinality(leases) >= Capacity))
        /\ Fail(r)
        /\ UNCHANGED admission
     \/ /\ ~gone[r] /\ waiters = <<>> /\ Cardinality(leases) < Capacity
        /\ leases' = leases \cup {r}
        /\ Go(r, "granted")
        /\ UNCHANGED <<waiters, reply>>
     \/ /\ ~gone[r] /\ (waiters # <<>> \/ Cardinality(leases) >= Capacity)
        /\ Len(waiters) < MaxWaiters
        /\ Drain(leases, Append(waiters, r), r, "waiting")
        /\ UNCHANGED reply

\* The waiter's timer, also when it is found late at the hand-over.
WaitTimesOut(r) ==
  /\ pc[r] = "waiting"
  /\ waiters' = Leave(waiters, r)
  /\ leases' = leases
  /\ Fail(r)
  /\ UNCHANGED <<input, status, started, gone, context, effects, attempt, held, queue, authority>>

ReserveDownload(r) ==
  /\ pc[r] = "granted"
  /\ IF gone[r]
     THEN Release(r, "error") /\ Answer(r, "error") /\ UNCHANGED queue
     ELSE Go(r, "reserve") /\ queue' = Append(queue, r) /\ UNCHANGED <<reply, admission>>
  /\ UNCHANGED <<input, status, started, gone, context, effects, attempt, held, authority>>

\* Mutant: an abandoned reservation gives its lease back at once.
AbandonLease(r) ==
  /\ pc[r] = "reserve" /\ kind[r] \in FrontDoor
  /\ Release(r, "error") /\ Answer(r, "error")
  /\ UNCHANGED <<input, status, started, gone, context, effects, attempt, held, queue, authority>>

\* The reservation takes too long.  It stays in the pool's queue, and its lease
\* with it.
AbandonReservation(r) ==
  /\ pc[r] = "reserve" /\ kind[r] \in FrontDoor
  /\ Fail(r)
  /\ UNCHANGED <<input, status, started, gone, context, effects, attempt, held, queue, admission, authority>>

\* Mutant: a connection that comes after its request has failed is kept.
PoolServesLate ==
  /\ queue # <<>> /\ Cardinality(held) < PoolMax
  /\ queue' = Tail(queue)
  /\ held' = held \cup {Head(queue)}
  /\ IF pc[Head(queue)] = "reserve"
     THEN /\ since' = [since EXCEPT ![Head(queue)] = members]
          /\ effects' = [effects EXCEPT ![Head(queue)] = "pending"]
          /\ Go(Head(queue), IF kind[Head(queue)] \in FrontDoor THEN "discover" ELSE "validate")
     ELSE UNCHANGED <<since, effects, pc>>
  /\ UNCHANGED <<input, status, started, gone, context, reply, attempt, admission, members, moves>>

\* The pool serves the oldest reservation; an abandoned one is given back
\* without BEGIN, and its lease with it.
PoolServes ==
  /\ queue # <<>> /\ Cardinality(held) < PoolMax
  /\ queue' = Tail(queue)
  /\ LET r == Head(queue) IN
     IF pc[r] = "reserve"
     THEN /\ held' = held \cup {r}
          /\ since' = [since EXCEPT ![r] = members]
          /\ effects' = [effects EXCEPT ![r] = "pending"]
          /\ Go(r, IF kind[r] \in FrontDoor THEN "discover" ELSE "validate")
          /\ UNCHANGED admission
     ELSE Release(r, pc[r]) /\ UNCHANGED <<held, since, effects>>
  /\ UNCHANGED <<input, status, started, gone, context, reply, attempt, members, moves>>

PoolRefuses ==
  /\ queue # <<>>
  /\ queue' = Tail(queue)
  /\ LET r == Head(queue) IN
     IF pc[r] = "reserve" THEN Release(r, "error") /\ Answer(r, "error")
     ELSE Release(r, pc[r]) /\ UNCHANGED reply
  /\ UNCHANGED <<input, status, started, gone, context, effects, attempt, held, authority>>

(***************************************************************************)
(* openTenantRequest and its repetition.                                   *)
(***************************************************************************)

Opening(r, step) ==
  /\ pc[r] = step
  /\ UNCHANGED <<input, started, gone, attempt, members, moves>>

\* The candidate list: before BEGIN, but for the front-door kinds.
Discover(r) ==
  /\ Opening(r, "discover")
  /\ \E t \in SelectTenantCandidate(header[r], members) : tenant' = [tenant EXCEPT ![r] = t]
  /\ IF kind[r] \in FrontDoor
     THEN pc' = [pc EXCEPT ![r] = "validate"] /\ queue' = queue
     ELSE pc' = [pc EXCEPT ![r] = "reserve"] /\ queue' = Append(queue, r)
  /\ UNCHANGED <<status, first, check, outcome, held, admission, since>>

\* Mutant: the membership that discovery has found is not asked for again.
ActiveAtDiscovery(r) == tenant[r] # None

Active(r) == tenant[r] \in members

\* validateActiveMembership and bindTenantContext.
Validate(r) ==
  /\ Opening(r, "validate")
  /\ Active(r)
  /\ pc' = [pc EXCEPT ![r] = "load"]
  /\ UNCHANGED <<status, context, outcome, held, queue, admission, since>>

\* ROLLBACK, release, the lease given back: the catch of openTenantRequest.
Abandon(r) ==
  /\ held' = held \ {r}
  /\ since' = [since EXCEPT ![r] = {}]
  /\ effects' = [effects EXCEPT ![r] = "none"]
  /\ Release(r, "error")
  /\ Answer(r, "error")

\* Mutant: the reopened context is taken as it comes.
AnyTenant(r) == attempt[r] = 0 \/ tenant[r] # None

\* A reopened context must be of the tenant of the first one.
SameTenant(r) == attempt[r] = 0 \/ tenant[r] = first[r]

\* loadMembershipAuthorization, the permission guard, and the registration of
\* the state: at first by onRequest, later by whoever reopened it.
Load(r) ==
  /\ Opening(r, "load")
  /\ Active(r) /\ SameTenant(r)
  /\ ~(kind[r] = "download" /\ gone[r])
  /\ \E code \in RoutePermissions(r), scope \in RouteScopes(r) :
       \E c \in Checks[<<code, scope>>] : check' = [check EXCEPT ![r] = c]
  /\ first' = [first EXCEPT ![r] = IF attempt[r] = 0 THEN tenant[r] ELSE @]
  /\ status' = [status EXCEPT ![r] = "open"]
  /\ pc' = [pc EXCEPT ![r] = IF attempt[r] = 0 THEN "registered" ELSE "handler"]
  /\ UNCHANGED <<tenant, outcome, held, queue, admission, since>>

\* No candidate, no active membership, no grant, another tenant than before, a
\* client that has gone, or an SQL error.
OpenFails(r) ==
  /\ \E step \in {"discover", "validate", "load"} : Opening(r, step)
  /\ Abandon(r)
  /\ UNCHANGED <<status, context, queue>>

(***************************************************************************)
(* The route.                                                              *)
(***************************************************************************)

Running(r, step) ==
  /\ pc[r] = step
  /\ UNCHANGED <<input, gone, tenant, first, effects, held, queue, admission, authority>>

\* The body is not accepted.
BodyFails(r) ==
  /\ Running(r, "registered")
  /\ Fail(r)
  /\ UNCHANGED <<status, started, check, attempt>>

\* preValidation, and getTenantRequestContext at the start of the handler.
PreValidation(r) ==
  /\ Running(r, "registered")
  /\ IF kind[r] = "download" /\ gone[r]
     THEN started' = started /\ Fail(r)
     ELSE /\ started' = [started EXCEPT ![r] = TRUE]
          /\ IF status[r] = "open" THEN Go(r, "handler") /\ reply' = reply ELSE Fail(r)
  /\ UNCHANGED <<status, check, attempt>>

\* markResourceAuthorizationSatisfied.
MarkSatisfied(r) ==
  /\ Running(r, "handler")
  /\ check[r] = "required_pending"
  /\ check' = [check EXCEPT ![r] = "satisfied"]
  /\ UNCHANGED <<pc, status, started, reply, attempt>>

\* A response.  Durable: a 4xx with markDurableTenantOutcome.
HandlerReplies(r) ==
  /\ Running(r, "handler")
  /\ \E answer \in {"ok", "refused", "durable"} : reply' = [reply EXCEPT ![r] = answer]
  /\ Go(r, "finalize")
  /\ UNCHANGED <<status, started, check, attempt>>

\* An error, from a statement or of the handler's own.
HandlerThrows(r) ==
  /\ Running(r, "handler")
  /\ Fail(r)
  /\ UNCHANGED <<status, started, check, attempt>>

\* endTransaction by the pipeline, which awaits it in step next.
Ending(r, action, next) ==
  /\ status' = [status EXCEPT ![r] = action]
  /\ Go(r, next)

\* Mutant: one attempt too many.
OneMoreAttempt(r) == attempt[r] < 3

MayRetry(r) == attempt[r] < 2

\* MediaLineageChangedError: another attempt on a new transaction.
LineageChanged(r) ==
  /\ Running(r, "handler")
  /\ kind[r] = "attach" /\ MayRetry(r)
  /\ Ending(r, "rolling", "endReopen")
  /\ UNCHANGED <<started, check, reply, attempt>>

\* runMediaInspectionWithoutTransaction: phase A ends, once.
BeginInspection(r) ==
  /\ Running(r, "handler")
  /\ kind[r] = "complete" /\ attempt[r] = 0
  /\ check[r] # "required_pending"
  /\ Ending(r, "rolling", "endGap")
  /\ UNCHANGED <<started, check, reply, attempt>>

Inspect(r) ==
  /\ Running(r, "gap")
  /\ \/ Go(r, "reopen") /\ reply' = reply
     \/ Fail(r)
  /\ UNCHANGED <<status, started, check, attempt>>

\* state.reopen(): the identity is verified again.
Reopen(r) ==
  /\ Running(r, "reopen")
  /\ \/ Go(r, "discover") /\ attempt' = [attempt EXCEPT ![r] = @ + 1] /\ reply' = reply
     \/ Fail(r) /\ attempt' = attempt
  /\ UNCHANGED <<status, started, check>>

(***************************************************************************)
(* Completion.                                                             *)
(***************************************************************************)

\* Mutant: the tripwire is not looked at.
PassedAlways(r) == check[r] \in {"not_required", "required_pending", "satisfied"}

Passed(r) == check[r] # "required_pending"

\* finalizeTenantTransaction.
Finalize(r) ==
  /\ Running(r, "finalize")
  /\ UNCHANGED <<started, check, attempt>>
  /\ \/ status[r] # "open" /\ Go(r, "respond") /\ UNCHANGED <<status, reply>>
     \/ /\ status[r] = "open" /\ reply[r] \in {"ok", "durable"} /\ Passed(r)
        /\ Ending(r, "committing", "endRespond") /\ UNCHANGED reply
     \/ /\ status[r] = "open" /\ reply[r] \in {"ok", "durable"}
        /\ ~Passed(r) \/ kind[r] = "gallery"       \* the tripwire, or the deadline
        /\ Fail(r) /\ UNCHANGED status
     \/ /\ status[r] = "open" /\ reply[r] = "refused"
        /\ Ending(r, "rolling", "endRespond") /\ UNCHANGED reply

\* onError and the error handler: rollbackTenantRequest, then the answer.
OnError(r) ==
  /\ Running(r, "error")
  /\ IF status[r] = "open" THEN Ending(r, "rolling", "endError") ELSE Go(r, "respond") /\ UNCHANGED status
  /\ UNCHANGED <<started, check, reply, attempt>>

\* onResponse, with its own rollback for what has not passed through onSend.
\* Nothing reads the request's context afterwards.
Respond(r) ==
  /\ pc[r] = "respond"
  /\ Go(r, "done")
  /\ status' = [status EXCEPT ![r] = IF @ = "open" THEN "rolling" ELSE @]
  /\ started' = [started EXCEPT ![r] = FALSE]
  /\ gone' = [gone EXCEPT ![r] = FALSE]
  /\ tenant' = [tenant EXCEPT ![r] = None]
  /\ first' = [first EXCEPT ![r] = None]
  /\ check' = [check EXCEPT ![r] = "not_required"]
  /\ attempt' = [attempt EXCEPT ![r] = 0]
  /\ UNCHANGED <<input, outcome, held, queue, admission, authority>>

Awaited(r) == CASE pc[r] = "endGap"    -> "gap"
                [] pc[r] = "endReopen" -> "reopen"
                [] pc[r] \in {"endRespond", "endError"} -> "respond"
                [] OTHER -> pc[r]

\* The database has answered COMMIT or ROLLBACK.
Ended(r) ==
  /\ status[r] \in Closing
  /\ status' = [status EXCEPT ![r] = "closed"]
  /\ held' = held \ {r}
  /\ since' = [since EXCEPT ![r] = {}]
  /\ UNCHANGED <<input, started, gone, context, attempt, queue, members, moves>>

EndSucceeds(r) ==
  /\ Ended(r)
  /\ effects' = [effects EXCEPT ![r] = IF status[r] = "committing" THEN "durable" ELSE "none"]
  /\ Release(r, Awaited(r))
  /\ UNCHANGED reply

\* Mutant: no error of COMMIT or ROLLBACK reaches the pipeline.
AfterFailedEndSilent(r) == Release(r, Awaited(r)) /\ UNCHANGED reply

\* An error of COMMIT or ROLLBACK reaches the pipeline that awaits it, unless
\* rollbackTenantRequest has swallowed it.
AfterFailedEnd(r) ==
  IF pc[r] \in {"endGap", "endReopen", "endRespond"}
  THEN Release(r, "error") /\ Answer(r, IF status[r] = "committing" THEN "failed" ELSE "error")
  ELSE Release(r, Awaited(r)) /\ UNCHANGED reply

\* The statement fails, or its answer is lost: a COMMIT may have been executed.
EndFails(r) ==
  /\ Ended(r)
  /\ \E e \in IF status[r] = "committing" THEN {"none", "durable"} ELSE {"none"} :
       effects' = [effects EXCEPT ![r] = e]
  /\ AfterFailedEnd(r)

(***************************************************************************)
(* The environment.                                                        *)
(***************************************************************************)

\* Mutant: a transaction is rolled back under its handler.
IdleOrNot(r) == status[r] = "open"

\* No route code can be using the connection yet.
Idle(r) == status[r] = "open" /\ ~started[r]

\* The client disconnects: trackDownloadCancellation with the listeners of a
\* waiter and of a reservation, or onRequestAbort.
ClientGone(r) ==
  /\ ~gone[r] /\ pc[r] # "done"
  /\ gone' = [gone EXCEPT ![r] = TRUE]
  /\ status' = [status EXCEPT ![r] = IF Idle(r) THEN "rolling" ELSE @]
  /\ IF kind[r] = "download" /\ pc[r] \in {"waiting", "reserve"}
     THEN waiters' = Leave(waiters, r) /\ leases' = leases /\ Fail(r)
     ELSE UNCHANGED <<admission, pc, reply>>
  /\ UNCHANGED <<input, started, context, effects, attempt, held, queue, authority>>

\* A membership of the user is granted or ends.
MembershipMoves ==
  /\ moves < MaxMoves
  /\ moves' = moves + 1
  /\ \E t \in Tenants : members' = IF t \in members THEN members \ {t} ELSE members \cup {t}
  /\ since' = [r \in Requests |-> IF r \in held THEN since[r] \cup members' ELSE {}]
  /\ UNCHANGED <<input, pc, status, started, gone, context, outcome, attempt, held, queue, admission>>

(***************************************************************************)
(* Specification.                                                          *)
(***************************************************************************)

Step(r) == \/ AuthenticationFails(r) \/ Authenticate(r) \/ AcquireAdmission(r) \/ WaitTimesOut(r)
           \/ ReserveDownload(r) \/ Discover(r) \/ Validate(r) \/ Load(r) \/ OpenFails(r)
           \/ BodyFails(r) \/ PreValidation(r)
           \/ HandlerReplies(r) \/ HandlerThrows(r) \/ LineageChanged(r) \/ BeginInspection(r)
           \/ Inspect(r) \/ Reopen(r) \/ Finalize(r) \/ OnError(r) \/ Respond(r)

DatabaseStep(r) == EndSucceeds(r) \/ EndFails(r)

Next == \/ \E r \in Requests : \/ Step(r) \/ DatabaseStep(r) \/ AbandonReservation(r)
                               \/ MarkSatisfied(r) \/ ClientGone(r)
        \/ PoolServes \/ PoolRefuses \/ MembershipMoves

Spec == Init /\ [][Next]_vars

\* Node runs every ready callback, the pool serves its queue, the database
\* answers, and timers fire; clients and memberships do as they like.
Fairness == /\ \A r \in Requests : WF_vars(Step(r)) /\ WF_vars(DatabaseStep(r))
            /\ WF_vars(PoolServes \/ PoolRefuses)

FairSpec == Spec /\ Fairness

(***************************************************************************)
(* Properties.                                                             *)
(***************************************************************************)

\* Whenever a handler can run a statement, the connection it captured is its
\* own and inside its own open transaction: no abort, error or timeout ends
\* the transaction under it.
StatementsInside ==
  /\ TypeOK
  /\ \A r \in Requests : pc[r] = "handler" => r \in held /\ status[r] = "open"

\* A response that reports success, or a declared durable refusal, is sent
\* only for work that is committed; any other answer only for work that is not,
\* except the one to a failed COMMIT, after which nothing is known.
AnswerTellsTheOutcome ==
  \A r \in Requests : pc[r] = "done" =>
    /\ reply[r] \in {"ok", "durable"} => effects[r] = "durable"
    /\ reply[r] \in {"refused", "error"} => effects[r] # "durable"

\* What is committed was done for the tenant of the request's first context,
\* the one its header names, and with its tripwire released.
CommitIsAuthorized ==
  \A r \in Requests : status[r] = "committing" =>
    /\ tenant[r] = first[r]
    /\ header[r] # None => tenant[r] = header[r]
    /\ check[r] # "required_pending"

\* A handler runs only on a membership that was active after the BEGIN of the
\* transaction it runs in: none is carried over a gap or from discovery.
FreshAuthority ==
  \A r \in Requests : pc[r] = "handler" => tenant[r] \in since[r]

\* From the first statement of a handler to the COMMIT, across retries and the
\* inspection gap, the work is the tenant's and the member's it began for.
WorkIsAuthorized == CommitIsAuthorized /\ FreshAuthority

\* Downloads, also those that have given up on their reservation, never take
\* or ask for every connection of the pool.
DownloadsLeaveAConnection ==
  PoolMax > 1 =>
    Cardinality({r \in Requests : kind[r] = "download" /\ r \in held \cup Elements(queue)}) < PoolMax

\* Nobody waits for admission while a place is free.
NoIdlePlace == waiters # <<>> => Cardinality(leases) = Capacity

\* Admission of downloads neither starves other requests nor the downloads.
DownloadPlacesAreSound == DownloadsLeaveAConnection /\ NoIdlePlace

\* Every request is answered, and in the end holds no connection, no lease and
\* no place in a queue.
EveryRequestSettles ==
  \A r \in Requests : pc[r] # "new" ~>
    pc[r] = "done" /\ r \notin held \cup leases \cup Elements(queue) \cup Elements(waiters)
=============================================================================
