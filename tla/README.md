# TallerMecario: TLA+ models and proofs

TallerMecario is a multi-tenant backend for vehicle workshops: a Fastify API over
PostgreSQL (row level security, triggers and PL/pgSQL functions in `drizzle/`), worker
processes that empty an outbox, a purger process that deletes media from R2, and the
providers Clerk (identity), Resend (email) and Wompi (payments).

Most of what can go wrong is between transactions: provider calls that cannot be part
of one, processes that die in between, and sessions that lock the same rows in different
orders. That is what is modelled here. The modules are written so that TLC checks small
instances and TLAPS proves the same formulas for every value of the constants.

Paths below are relative to the repository; `0013` stands for the migration
`drizzle/0013_*.sql`.

## Inventory

| Component | State | Operations | Hard part |
|---|---|---|---|
| Outbox and worker (`src/outbox`, `src/worker`, 0000, 0003) | `outbox_events`: status, attempts, available_at, updated_at | publish, claim a batch, run a handler, complete, retry, dead-letter, requeue stalled | two workers on one event, crashes, COMMIT without an answer, no claim token |
| Invitation email (`src/invitations/email.ts`, 0009, 0010) | `membership_invitation_deliveries`: lease, sent_at; the event's row | prepare (read, acquire, send, release), apply (complete, skip) | a network call between two transactions, against accept and revoke |
| Invitations (`src/invitations/service.ts`, 0008, 0009) | `membership_invitations` | create, list, accept, revoke, expire | races of the terminal transitions, identity of who accepts, one pending invitation per address |
| Member administration (`src/memberships`, `identity/sync/membership-revocation.ts`, 0011-0016) | `memberships`, `membership_roles` | assign and remove roles, suspend, reactivate, revoke; the revocation job; privileged sessions | lock hierarchy, stale authority, the last owner, deadlocks |
| Identity sync and webhooks (`src/identity`, 0007) | `identity_sync_states`, `users`, `webhook_events` | ingest, classify, fetch, apply, tombstone | out-of-order and repeated events, a provider call between two phases |
| Onboarding (`src/onboarding`, 0005) | workshop, first membership, user made just in time | onboard | a deletion or a second founding at the same moment, slug collisions |
| Tenant request (`src/api/tenant-request.ts`, `app.ts`) | state of the request's transaction, pooled connection | open, finalize, roll back, retry, reopen, inspect outside the transaction | aborts during a handler, COMMIT failures, stale context after the gap |
| Tenancy (`src/tenancy`) | none (settings of the transaction) | select, discover and verify the tenant, load the grants | membership that ends between two reads |
| Authorisation (`src/authz`, 0006) | none (matrix) | permission and resource checks | scopes of combined roles, the check a route forgets |
| Physical deletion of media (`src/media/purger.ts`, `worker/media-purger-run.ts`, 0029) | `media_purge_jobs`, tombstone of `media_assets`, advisory fence, the object in R2 | request, claim, DELETE, record, confirm, suspend, park | a DELETE nobody can take back, lost sessions, late execution |
| Media upload (`src/media/service.ts`, `operational-binding.ts`, `associations.ts`, `receptions/signature.ts`, 0023-0028) | `upload_sessions`, `media_assets`, bindings, links | create, complete, attach, sign, remove | idempotency keys, inspection between two transactions, lock order |
| Media retention (`src/media/retention.ts`, `deletion.ts`, 0027, 0029) | retention date of the asset | decide, persist, lock the lineage | what is locked is found before it is locked |
| Media download and order queries (`src/media/download-*.ts`, `order-query*.ts`, `assigned-authorization.ts`) | admission queue | admit, time out, abort, hand over; authorise, sign, list, page | bounded FIFO under timeouts; authority at the time of reading; cursors past hidden rows |
| Media reconciliation (`src/media/reconciliation*.ts`, 0030) | none (a report) | scan rows, HEAD, list objects, look again, report | two stores read at different times, partial failures |
| Receptions (`src/receptions`, 0019-0024) | `receptions`, damages, checklist, `service_orders` | create, edit, inspect, close, read | numbering, closing twice, lost edits, lock order |
| Privacy (`src/privacy`, 0020) | `privacy_consents` | capture, use (revocation: trigger only) | consent revoked while a reception is created on it |
| Customers and vehicles (`src/customers`, `src/vehicles`, 0018) | rows, `vehicle_owners` | create, update, transfer | owner changed while a reception is created; edits from stale versions |
| Wompi billing (`src/integrations/wompi`, 0004) | `payments`, `subscriptions`, `billing_events` | charge, webhook, apply status | charging twice, statuses out of order |
| Schema (`src/db/schema.ts`) | every table | any accepted statement | references across workshops, two paths to one order that disagree |
| Audit log guards (0017), utilities, scripts | - | - | - |

Interaction: API requests publish outbox events in their own transaction; workers claim
them and run the invitation email, identity, revocation and Wompi handlers; the
invitation email and the API exclude each other by the delivery lease and an advisory
lock; accepted invitations add memberships; identity sync publishes revocation jobs that
go through the owner locks of member administration; acceptance, founding and deletion
of one identity exclude each other by an advisory lock; every handler of the API runs in
the transaction of its tenant request, whose grants it re-reads under its own locks where
they matter; the purger and whoever protects an asset exclude each other by an advisory
fence and a lease; closing a reception, attaching media and removing it meet at the lock
of the reception.

`PROJECT.json` lists every component with its sources and status, and under `hazards`
the places in the code that are hard to test, each with the properties that cover it.

## Modules

### `Outbox`, `JobContract`, `MCOutbox`, `OutboxProofs`

`Outbox` is the table and any number of worker processes. A worker is at `idle`
(between cycles), `poll` (requeued the stalled ones, about to claim), `batch` (has jobs
of its batch left), `run` (has read a job, its handler runs) or `fail` (records a
failure). `Publish`, `RequeueStalled`, `ClaimBatch`, `ReadEvent`, `Commit`,
`HandlerFails`, `RecordFailure` are `publishOutboxEvent`, the SQL functions of 0003 and
the steps of `processClaimedJob`. `CommitUnconfirmed` is a COMMIT whose answer is lost:
the worker takes it for a failure. `Abandon` is a crash, an error that leaves the loop,
or SIGTERM. Time is relative (`wait` until available, `age` since the last update).

`JobContract` is what the outbox promises: an accepted job stays open, may be run several
times, is closed once, and is `processed` only together with an effect. `ImplementsContract`
is the refinement, with the row's status mapped to `open` or its outcome.

### `InvitationDelivery`, `DeliveryContract`, `MCInvitationDelivery`, `InvitationDeliveryProofs`

One invitation, its delivery row and its outbox row; workers at the steps of `prepare` and
`apply` (`processPhasedJob`, `createInvitationEmailHandler`) against transactions that
accept, revoke or expire the invitation. `BeginEnd` has the guard of the lifecycle trigger
(lock and no unexpired lease), `AcquireLease` the checks of
`worker_acquire_invitation_email_lease`, `Deadline` the arithmetic of the send window.
Every database call is one step; the provider request has a beginning and an end, and the
request may be accepted, rejected or end without anyone knowing. The job row keeps only
what the lease functions read. Waiting for the advisory lock and the `busy` answer are
separate: only an unexpired lease makes an attempt fail.

`DeliveryContract` is what the delivery promises those who end the invitation and those who
read the audit: one request in flight at a time, begun while the invitation is pending and
valid and over before either ends; one record of a real acceptance, audited once; a write-off
only of an invitation that has ended or has less than a lease left. `ImplementsDelivery` maps
the clock to `Validity`, any worker in `sending` to `Sending`, `sentAt` to `recorded`,
`sentAudits` to `audits` and `skipAudits` to `skipped`; workers, leases, attempts and the
outbox row disappear.

### `MemberAdmin`, `MCMemberAdmin`, `MembershipProofs`

The memberships of one workshop, API requests, revocation jobs and privileged sessions at
the granularity of their locks: gate (shared or exclusive), workshop row, membership rows
`FOR SHARE` and `FOR UPDATE`. A transaction keeps what it will write in `intent`; COMMIT
makes it visible. `Waits(s, o)` is the lock conflict, used as a guard and to state what a
deadlock is. The triggers of 0013 and 0016 are `TriggersPass` and `Transitions`, and hold
for every session. Choices made in the model:

- `staff` stands for the roles service_advisor and technician, which ask for the same
  permission;
- the early 409 of the service (`remainingActiveOwners`) and the trigger refuse the same
  changes, so they are one conjunct of `Write`;
- the rows a revocation job locks one after the other, in order of id, are taken in one step;
- a request that is denied changes no membership: its audit row is left out;
- the operator's sessions are not in the code, but the triggers they pass are; they issue
  any UPDATE or DELETE, or INSERT first;
- `Join` is the end of `acceptInvitation`; the queue of a lock is not modelled, any waiter
  may get it.

### `MediaPurge`, `MCMediaPurge`, `MediaProofs`

One asset, its object in R2, its purge job, any number of purgers at the steps of
`purgeMediaAsset`, and transactions that change what protects the asset. A DELETE that
left is in `open` until R2 executed it or `DeleteTime` has passed, whatever became of its
sender: `SessionLost` takes the fence away from a purger that goes on, `Crash` ends it.
`Claim`, `RecordDeleted` and `Confirm` may commit without an answer. Choices:

- everything `media_retention_decision` looks at (holds, floor, links, orders) is the
  Boolean `held`; `Lapse` is a date that passes, `BeginProtect`/`CommitProtect` a
  transaction that changes one of its sources under the guards of 0029;
- the object can be executed on by a DELETE for `DeleteTime` after it left. The code
  has a timeout of 5 s, a start window of 10 s and a lease of 120 s; the assumption
  `StartWindow + DeleteTime < Lease` says that R2 does not execute a request more than
  110 s after it was sent, which no code can enforce;
- a claim's answers `absent` and `storage_absent` are left out: `deleteR2Object` never
  returns them; a job's due time (`next_attempt_at`) is left open.

### `WompiBilling`, `MCWompiBilling`, `WompiBillingProofs`

The payments of one subscription. A payment is charged by an outbox job whose handler
(`handleSubscriptionChargeRequested`: `Find`, then `PostAnswered`/`PostUnanswered` or
`GetAnswered`, then `Record`) calls Wompi inside its transaction; every verified webhook
body becomes a job too (`Ingest`), whose handler is `apply_wompi_payment_status`
(`ApplyDuplicate`, or `ApplyNew` and `Settle`). `Create`, `Decide` and `TakeLate` are
Wompi. Jobs behave as `JobContract` has them: opened once, run by any worker, closed
once, taken back as stalled while a run goes on. Choices:

- Wompi refuses a second transaction for a reference (422), so a transaction is named by
  its payment; until the transaction's id is stored, this alone keeps a retried charge
  from charging twice;
- `Record` and the COMMIT that follows are one step, and so are the statements of
  `Settle`: they write under the payment's row lock, and nobody reads between them. The
  locks that do show are the payment's from `ApplyNew` on (`RowLocked`) and the
  subscription's `FOR KEY SHARE` of the foreign key, which `Settle` upgrades;
- `undone` remembers the payments whose final status `Record` has replaced (finding 4), so
  that `FinalStatusStays` can say of all others that no order of webhooks does;
- the attempts of the adapter within one call, amounts, tokens and signatures are left
  out; an answer that does not correlate is one more way to be `Refused`;
- `webhook_processing_attempts`, webhooks that resolve no payment (stored without a job),
  payment sources and the delay between attempts are not modelled.

### `Accounts`, `IdentitySync`, `MCMemberAdmin`, `MembershipProofs`

`Accounts` is the users, memberships and invitations of a few identities of the provider,
and the calls that change them: accept, onboard, create, revoke. A call is one
transaction whose writes (`sets`, `drops`) appear at `CommitCall`; until then the locks it
holds follow from where it is: the advisory lock of the identity from `Provision` on
(`HoldsIdentity`), the row of the invitation, the advisory lock of its delivery
(`Ending`), and the unique index on pending addresses, where an insert waits for an
undecided one (`Undecided`). `FoundWorkshop` retries its slug, `GiveUp` is `lock_timeout`,
`ExpireOverdue` the expiry that creation runs first, `BeginMailing`/`EndMailing` the lease
of `InvitationDelivery` as the trigger sees it.

`IdentitySync` extends it with what comes from the provider. `ChangeAtProvider` and
`DeleteAtProvider` change the truth and emit an event; `Ingest` stores a verified body
(repeated: nothing; same id with another body: a conflict) and publishes a job, in any
order. A run of a job is phase A (`Classify`), a request to the provider outside any
transaction (`Fetch`), phase C (`Apply`, which orders events by time and rank under the
identity lock) and the jobs that revoke memberships (`RevokeMembership`). A claim can be
taken back (`StallJob`) while its run goes on: phase C does not look at the claim, only the
order protects it. Choices:

- the inviter may lose the right to invite between invitation and acceptance; the code
  asks for it at creation only, so nothing here does;
- names, roles, slugs, tokens, audit rows, the signature of a webhook and the log of
  attempts are left out;
- of events of one millisecond, those that happened first are the ones stored first.

### `Authorization`, `TenantRequest`, `MediaAccess`, `MCTenantRequest`, `TenantRequestProofs`

`Authorization` has the pure part of `src/authz`: the matrix by the eight patterns its 103
rows have, the combination of several roles' scopes, the grant of a permission and what a
route asks of it. `TenantRequest` is the life of the requests of one user over one pool:
`Authenticate`, selection, the admission queue of downloads, `Discover`, `Validate` and
`Load` in the request's transaction, the handler, and everything that ends it: reply,
durable refusal, error, abort by the client, a failing COMMIT or ROLLBACK, the gap of an
upload's inspection with `Reopen`, the retries of an association. An action is what Node
runs between two awaits; `EndSucceeds`, `EndFails`, `PoolServes`, `PoolRefuses` are the
database's turns, `MembershipMoves` another request's. Choices: a deadline or an SQL error
is a failure that any statement may have; BEGIN belongs to the step that gets the
connection; rate limits and logging are left out.

`MediaAccess` is what the three reading routes of media do inside such a request, one read
at a time: `BeginDownload`, `BeginList`, `BeginPage`; `ReadList` (a wide grant reads
unlocked), or `LockReader` (owner-set lock, fresh grant, discovery of the lineage) and
`LockGraph` (rows locked, lineage re-checked); then `SignDownload`, `ShowAssigned` or
`ShowPage`, and `Deliver` at COMMIT. Meanwhile roles change (`MemberChanges`, only while
nobody holds the owner-set lock), technicians are assigned and released, receptions close,
media is attached, removed or marked. A gallery page shows what of its window is
`Eligible` and leads on with a cursor, which may lapse. Two concurrent reads of one
workshop would only wait for each other, so there is one. Assigning is external: its table
and triggers exist, its route does not. The cipher of the cursor, the work budget of
1000 rows, the fields of a row and legal holds are left out.

### `Receptions`, `MCReceptions`, `ReceptionsProofs`

Intake: receptions, customers, vehicles with their owners, consents and the order numbers
of one workshop, under concurrent requests, each a transaction with its locks and its
writes in the order of the code: `CreateLock`, `CreateConsent`, `CreateInsert`,
`CreateCommit`; `EditLock`, `EditWrite` (patch and inspection); `CloseLock`,
`CloseVehicle`, `CloseNumber`, `CloseOrder`, `CloseCommit` with the replay of a repeated
closing; `TransferLock`, `TransferCommit`; `EditCustomer`, `CreateVehicle`,
`CaptureConsent`, `RevokeConsent`, `ReadReception`. A row is identified by the request
that creates it. Locks are taken receptions before vehicles before the order number, and
vehicles before consents. `clock` gives `now()` of a transaction and
`clock_timestamp()` of the ownership code their different moments (`started`, `drawn`).
`RevokeConsent` has no route; it is the one transition the trigger of 0020 allows.
Left out: updates of a vehicle's columns (the version check of a customer's edit),
creation of a customer (an independent row), lists and the scope of assigned readers.

`Serializable` compares every step with requests that run at once: the step that answers
must be one of `CreatedAtOnce`, `TransferredAtOnce`, `EditedAtOnce`, `ClosedAtOnce` (checks
and writes of the whole request on the committed tables of that moment, except for the
clocks and the versions a caller has seen), and no other step of a request may show.

### `MediaUpload`, `MediaReconciliation`, `MCMediaPurge`, `MediaProofs`

`MediaUpload` goes from a client's key to evidence. Calls are create, complete, attach,
sign and remove (by hand, or by the sweep over retention dates). Create locks key,
reception and media in turn (`CreateKey`, `CreateReception`, `CreateMedia`,
`CreateInsert`); complete reads its plan (`CompletePrepare`), looks at the object without a
transaction (`Inspect`) and writes (`CompleteWrite`); whoever needs an asset's lineage
discovers it without locks, locks receptions in the order of their ids, then session and
asset, and re-checks it (`Discover`, `LockReception`, `LockMedia`; `Again` is the restart,
at most two). `Put` is write-once; `MayBeRemoved` and `PersistRetention` are
`media_retention_decision`. Damages have a fixed reception and orders stand for a closed
one; other types of media, warranties, deliveries and quotes, sessions from before v1
and the byte formats of the content are left out (an object is good or bad).

`MediaReconciliation` is one run of the reconciler, its R2 reader and the exit code of the
worker, while uploads, removals, the purger and losses go on: pages of rows
(`ReadPage`), HEAD of each object (`HeadObject`), a second reading of rows that look wrong
(`ReadAgain`, compared by `Version`), pages of the bucket (`ListPage`, `MatchPage`), a
second look at what matched nothing (`MatchAgain`), then `Finish`; every read may fail,
the deadline may come (`Stop`). `ever` and `always` are ghosts: which statements about an
asset were true at some moment, or throughout, the run. An asset and the key of its
object are one number up to `LastKey`, which orders the pages. The scan may begin in any
state of the rows (`MediaRows`: only a pending session is live, only a deleted asset has
an open job) and with any `Options` that the configuration accepts (no workshop twice).
Samples, redacted references, counters and XML are left out.

### `TenantSchema`, `MCTenantSchema`, `TenantSchemaProofs`

Every table of `src/db/schema.ts` as its references see it: `Schema` says for each table
which columns refer where, which must be set, which keys are unique and which CHECKs relate
references; `Insert`, `Update` and `Delete` are any statement on one row that PostgreSQL
would accept. Services, policies and triggers only forbid more. Keys that contain data
columns and indexes that are unique for some status only are left out.

## Runs

| Run | Instance | Shows |
|---|---|---|
| `outbox` | 2 events without faults, or 1 with 2 faults; 2 workers, 2 attempts | exactly-once without stalls, retries within budget, refinement of `JobContract`, every published job finishes |
| `outbox_late` (violation) | 1 event, 2 workers | finding 1 |
| `invitation_delivery` | 2 workers, 2 attempts, 1 requeue, clock up to 8 | no request after the end, sound leases, refinement of `DeliveryContract` (so one record of the sending) |
| `invitation_skip` (violation) | 1 worker | finding 2 |
| `member_admin` | 2 members, 2 requests, 1 job, 1 privileged session; or one of 20 plays of up to 3 calls, 3 events, 2 workers | an owner remains, authority at commit, truthful audits, grants only to active members; sound accounts, final tombstones, identities in sync |
| `member_deadlock` (violation) | 2 members, 1 request, 1 privileged session | finding 3 |
| `media_purge` | 2 purgers, clock up to 7, lease 3; or 2 assets and up to 3 calls; or 1 scan of 5 assets, 2 changes, 1 failure | no DELETE on a protected asset, no silent loss; sound uploads, answers and removals without deadlock; true and complete reports |
| `wompi_billing` | 1 payment with 3 outcomes, 3 attempts and 2 faults, or 2 payments; 2 workers | what was acknowledged is kept, an outcome moves the subscription once, a final status stays in any order of webhooks, what Wompi has becomes known |
| `wompi_sync` (violation) | 1 payment, 2 workers, no fault | finding 4 |
| `tenant_request` | 1 request of any kind with 2 tenants and 2 changes of membership, or 2 front-door requests; or a reader, 3 assets, 2 places, 2 turns | statements inside their transaction, answers that tell the outcome, fresh authority, sound download places, every request settles; sound reads |
| `tenant_schema` | each of 65 tables or groups of related tables (73 in all), up to 2 rows each, over 3 lineages in 2 workshops | own references, agreeing paths |
| `receptions` | 3 requests of 5 scenarios, 3 vehicles, 2 customers | consistent records, serializable requests (so no integrity error), no lost update, final history, every request ends |

Some runs host several components that share no state in them, one per behaviour,
selected by a variable of the MC module (`play`, `part`, `scope`, `alone`). Type
invariants are theorems, so most runs do not repeat them; some are conjuncts of a checked
property (`StatementsInside`, `RecordsConsistent`, `UploadsAreSound`, `ReadsAreSound`,
`ReportedWasTrue`), and theorems with it. The parts a property is made of
(`LeaseWithinValidity`, `OneOpenReception`) are named in the modules. That a third
member changes nothing for authority at commit, and a second payment nothing for the
effects of an outcome under faults, is left to the theorems `AuthorityHolds` and
`EffectOnce`, which hold for any number.

Bounds.

- Faults count crashes and outlived stall timeouts: two are enough for a claim to be taken
  back twice, and so for a second worker and a third run. Two workers and two attempts let
  a late worker meet its successor at every step.
- In `invitation_delivery` the expiry (7) leaves room for two leases (3) before it, and the
  clock goes beyond it; in `media_purge` the clock leaves room for two whole leases, a lost
  session and the takeover by the other purger.
- Two members are what the last-owner races need: each removes the other.
- The plays of `Accounts` and `IdentitySync` are in four families: `Races` (accept, revoke,
  create, onboard against each other, of one identity or two with the same or another
  address, with expiry and email), `Endings` (a call while the identity is banned, deleted
  or changed), `Orders` (two or three events out of order, two workers, a repeated id with
  another body) and `Administration`, which is `MemberAdmin`. Three calls are what it
  takes for two to contend and a third to end what they contend for; two claims and one
  stall what it takes for a late phase C to meet a newer one.
- `MaxMoves = 2` lets a membership end and come back within one request, with a gap in
  between. A pool of two leaves one place for downloads, so that two of them already
  contend, with a queue of one. In `MediaAccess` one photograph is ordinary, of two
  families, or marked, one is from before bindings, and a page holds one: so a page may
  have nothing to show and still lead on.
- In `MediaUpload` the scenarios start from no rows, an upload under way, a photograph,
  free signatures and used signatures; two receptions are what a lineage that moves
  between discovery and lock takes. `MediaReconciliation` starts from five worlds: a row of
  each status, workshops it is configured for (A, B) and one it is not (U), another bucket,
  and page sizes 1 and 2 against limits that are reached or not.
- In `receptions` all mixes of three operations on one vehicle, one customer or one
  reception occur; the requests are interchangeable, so their kinds come in a fixed order.
  A vehicle that was closed also comes back, with a lower or a higher mileage, and is
  edited or closed again.
- `tenant_schema` opens one table or one group of related tables at a time to every
  statement and gives the tables they depend on three lineages, two of workshop 1 (to mix
  two orders) and one of workshop 3 (to mix two workshops).

Sizes range from 1,000 to 1.6 million distinct states (`invitation_delivery`), up to three
minutes. Where the system really stops (a closed delivery, a clock at its
bound, every job closed, every request answered), deadlock is not checked; absence of
deadlock among requests is then a property of its own: `EveryRequestEnds`,
`EveryRequestSettles`, `NoUploadDeadlock`. The outbox and the schema never stop, and are
checked for deadlock; in `member_admin` a deadlock may happen (finding 3).

Fairness is assumed for the four liveness properties.

- `EveryJobFinishes`: `WF` on each worker's steps and on the clock. The loop of
  `worker/run.ts` catches every error of a cycle and polls again, and the process is
  restarted by its supervisor; crashes and abandoned batches are faults, not worker steps,
  and are bounded. `outbox_late` uses the same specification.
- `EventuallyKnown`: `WF` on each worker's `Work`, and on storing at least one body for
  every status that Wompi reports, because Wompi repeats a webhook until it is
  acknowledged. There are fewer faults than attempts, and one payment: with several, the
  lock upgrade lets their webhooks deadlock, each victim spends an attempt, and what keeps
  them apart in practice is the backoff, which is not in this model.
- `EveryRequestSettles`: `WF` on each request's `Step` (Node runs every callback that is
  due), on its `DatabaseStep` and on the pool: statements of the reading routes have
  deadlines (`download-limits.ts:138`, `order-query-limits.ts`), the others wait for locks
  whose holders go on, and an admission or a reservation that is not served times out.
- `EveryRequestEnds`: `WF` on the `Step` of each request: PostgreSQL serves a waiting
  transaction once the lock it waits for is free.

## Proofs

TLAPS checks every theorem from the modules' `ASSUME`s alone, for all constants.

- **Outbox.** `IInv` is the types, `WorkerShape` (which of `todo`, `cur` go with which
  `pc`), `HolderInv` (an event that was never taken back and is in processing is held by
  at most one worker, whose claim is the row's) and `AttemptsInv` (what a worker has read
  as attempts does not exceed the row's). `HolderInv` is what makes exactly-once
  inductive: with a stall, holder and row part. `BudgetInv` counts: a worker that reports
  `retry` gives up its hold, and holds beyond the first come from stall requeues, so the
  workers that can still report `retry` bound the attempts to come. Results: `TypeCorrect`,
  `ExactlyOnce`, `NoEarlyDeadLetter`, `RetryBudget`, both as `RetriesBounded`, `Refinement`.
- **InvitationDelivery.** `CoverInv` ties the deadline a worker computed to the lease in
  the row, `FreshInv` says lease ids are never drawn twice, `MessageInv` carries what was
  read before the lease across the acquire. Results: `TypeCorrect`, `NoRequestAfterEnd`,
  `SentOnce`, `LeaseEndsFirst`, `LeasedImpliesMessage`, both as `SoundLeases`. For the
  refinement three more facts are needed: a worker that sends does so alone
  (`AloneInFlight`, two of them would hold one fresh lease), an expired invitation is past
  its validity (`ExpiryInv`), and a worker that is about to skip has a reason that lasts
  (`SkipInv`). Result: `DeliveryRefines`, one step of the contract or a stutter per action.
- **MemberAdmin.** `Exclusion` (the gate's and the workshop's exclusion), `RowLocks`,
  `Plans` (what an intent may contain at each step), `Kept` (after a session's writes,
  committed state plus intent still has an owner), and for the requests `Fresh`,
  `OnTarget` and `Permitted` (what was read under the locks still holds). Results:
  `TypeCorrect`, `OwnerRemains`, `AuthorityHolds`, `AuditHolds`, `GrantsHold`. `RowsHeld`
  says at which steps a session holds row locks; with it `OnlyInsertsDeadlock`: unless a
  privileged session asks for the gate after its own INSERT has locked a membership, some
  session at work can go on. So finding 3 is not one deadlock among others: without that
  statement there is none.
- **MediaPurge.** A purger that sends its DELETE in time does so under the current claim,
  whose lease outlasts the request (`Leased`, `InFlight`); an active lease keeps
  protections and other claims out (`Protected`, `Fenced`); `Witnessed` and `Known` say
  what the job may claim to know of the object. From `PurgeAssumption`
  (`StartWindow + DeleteTime < Lease`). Results: `TypeCorrect`, `OnlyUnprotected`,
  `LossIsKnown`, `PurgedIsGone`, both as `ObjectIsAccountedFor`.
- **WompiBilling.** `InHand` (what goes with each step of a worker), `Heard` (statuses come
  from Wompi, and jobs from what it reported), `Accounts` (what `recorded`, `paid` and
  `status` say of each other), `Exclusive` (one run at a time between `ApplyNew` and
  `Settle` for a payment, whose event is not recorded yet), `Decided` (a transaction that
  is not voided has had one final status) and `Standing` (a row that got a final status
  has one, unless `undone`). Results: `TypeCorrect`, `ProcessedIsKept`, `PaidAtIsRight`,
  both as `KnowledgeIsKept`, `EffectOnce`, `FinalStatusesStay`.
- **IdentitySync.** A call that is past its provisioning holds the lock of its identity:
  one call at a time (`Alone`), and under it nothing is blocked or deleted (`Live`). So the
  user it makes active at its COMMIT may be active, and the memberships a tombstone finds
  are all there will be, because only such calls make members (`Joined`). `Linked` (events,
  jobs and runs are about an identity) and `Recent` (finitely much has happened) are what
  the types need. Results: `SyncTypeCorrect`, `TombstonesFinal`. What a run is about to
  apply is what the provider says, or something newer has happened (`Observed`), so a
  user is as the provider says or there is news (`UpToDate`): `QuietInSync`, that an
  identity whose news are all processed is in sync. It assumes that no event and no hash
  is `None`.
- **Accounts**, as part of the same specification. Only one call at a time decides on an
  invitation or writes a pending address (`OneWriter`); so what a call has read under its
  locks is still so at its COMMIT (`StillTrue`), and what it answered lasts (`Told`).
  `Memberful` says where memberships come from: founded, or from one accepted invitation
  and the call that accepted it. Results: `AccountsSound`, and `CallsNeverDeadlock`: identities
  are locked before invitations, and of the calls that wait for an address in the index of
  pending invitations at most one has expired an invitation of it.
- **TenantRequest.** Each step fixes where the transaction stands (`Stage`), whether the
  request holds a connection (`Connected`), what it may have written and what its answer
  may say (`Answered`), and under whose authority it works (`Entitled`). Another request
  reaches it only through the two lines, pool and admission (`Lines`, `InLine`, `Placed`):
  one lemma (`AsideKeeps`) covers every step of the others. Results: `RequestInvariance`
  (types included), `HandlerInsideItsTransaction`, `AnswersTellTheOutcome`,
  `WorkAuthorized`, `DownloadPlacesSound`, the last by counting: who asks for a connection
  has a place, and there are fewer places than connections. `InUse` adds that whoever waits
  for a connection is in the queue, and that a place is with somebody who asks for a
  connection or has one. So `NoWaitingInVain`, the part of `EveryRequestSettles` that needs
  no fairness: who waits has a request before it that does not, or a free connection, and
  an answered request leaves nothing behind.
- **MediaAccess.** What a step of a read saw is a function of the committed rows, and the
  locks it took keep those rows until it answers (`ReadInv`); what a walk through a gallery
  still owes lies ahead of its cursor (`DueAhead`), and a page is the first window of that.
  Result: `ReadsSound`.
- **MediaUpload.** A row only moves forward (`Follows`) and one request at a time holds
  the lock of its key (`KeysApart`); so what a request has read of row, reception and
  object is still so when it writes (`Know`), and every row it leaves is sound (`Sound`).
  From `UploadAssumption`: positive terms, no session that outlives the retention of
  incomplete uploads, finitely many receptions. Results: `UploadsSound`,
  `UploadAnswersTrue`, `AttachableStays`, and the action property as `PromisesKept`.
  `LocksInOrder` says which locks go with each step: from it, `NoCircleOfWaits`. Whoever
  waits for a key or a media row waits for somebody who asks for a reception or for
  nothing, and whoever holds a reception asks for a later one at most; there are finitely
  many.
- **MediaReconciliation.** A row's lifecycle has a `Rank` that only grows, so a row that is
  read twice with one version had it at the HEAD in between, whatever happened to the
  object (`Truths`). What has been so from the start and is not yet observed lies ahead of
  the cursors of the two listings (`Coverage`), as long as nothing has failed. That a page
  holds the lowest keys of what is left is a lemma on numbers, from well-foundedness.
  Results: `ReportIsTrue`, `CompleteReportMissesNothing`.
- **TenantSchema.** `StaysConsistent` (types, keys and foreign keys of every table, kept by
  every accepted statement), from it `OwnReferences`: a composite key carries the workshop
  along every reference; and `ItemsDecidedOnce`, which no run repeats, from the unique key.
  `PathsNeverPart`: that all ways from a row to an order, a reception or a quote version
  agree needs no induction over paths. What a row reaches stays within any set that holds
  its references and is closed under them (`Closed`), so it is enough to give one with at
  most one such order, reception or version: the row's own and whatever names it in its
  composite key (`Spread`). That it is closed is read off each table of `Schema`.
- **Receptions.** What a request has checked stays true until its COMMIT (`ReadyFor`),
  because whoever would change it needs a lock that the request holds (`LockedBy`,
  `Exclusive`); `Ends` and `Continues` carry that to every step at once, from the footprint
  of a write (`Undisturbed`). With it the tables are inductive (`OnlyOpen`, `OrdersMatch`,
  `Mileage`, `OwnersInSequence`), and `Clocked` and `EditsShow` order instants and versions.
  Since all that `ReadyFor` says still holds at COMMIT, each request equals its form at once
  there: `RequestsSerializable`. `LocksInOrder` says which locks go with each step; whoever
  waits for a vehicle waits for somebody who is past receptions, and so on up to the order
  number, for which its holder waits for nothing: `NoCircleOfWaits`.
  Assumption: `None` is no number and no row. Results: `RecordsAreConsistent`,
  `InternalErrorsNeverHappen`, `NoUpdateIsLost`, `HistoryStays`. The proofs are about
  `Init`, an empty workshop; the run starts from one with some rows (`MCInit`), which
  satisfies the same invariant.

Only model-checked: the four liveness properties and the four violations; and
`NoUploadDeadlock`, which is stated with `ENABLED` (`NoCircleOfWaits` of `MediaProofs`
proves its part about locks; that a request whose lock is free can take its step is what
TLC adds).

## Findings

1. `outbox_late`: 0003:106-109 says that a late completion is a no-op. It is one only if
   the row has left `processing`; after a stall requeue and a second claim it transitions
   the successor's row, and both effects commit. Handlers must be idempotent.
2. `invitation_skip`: 0009:225 defines `prior_attempt_unconfirmed` by an earlier lease
   without a recorded result. After an ambiguous attempt, a second attempt that is
   definitively rejected releases the lease, and with it the trace of the first; a skip is
   then audited with `prior_attempt_unconfirmed = false` though the email may be out.
3. `member_deadlock`: the documents promise no `40P01` between runtime and privileged
   sessions. The gate is taken before UPDATE and DELETE only; a privileged INSERT into
   `membership_roles` locks the membership first.
4. `wompi_sync`: `recordProviderTransaction` writes the answer of the charge over whatever
   the row holds. When Wompi answers PENDING and its APPROVED webhook is applied by another
   worker before that UPDATE, the payment goes back to `pending` with `paid_at` set; later
   APPROVED webhooks are duplicates, so it stays there. The Quality Gates ask for a local
   state that is synchronised, and `apply_wompi_payment_status` has the missing condition: `FinalStatusStays` shows that
   the answer of a charge alone takes a final status away, and no webhook does.

## Not modelled, and plan

Not modelled, and why:

- **Audit log guards** (0017): triggers that refuse every UPDATE and DELETE of a row, and
  so have no state to reach. What an audit row says is part of the components that write
  it (`AuditTellsTheTruth`).
- **Byte formats** (`media/content.ts`): grammars of JPEG, PNG, WebP, MP4 and PDF over a
  buffer, without state; a model of them would be their transliteration. An object is good
  or bad.
- **Texts**: the catalog of notices, canonical text and hashes, the offline bundle (no
  route exposes it), templates of emails, tokens and their derivation, cursors' ciphers,
  validation of bodies, presigned URLs, configuration. Where a conversion matters to a
  property (document pairs, versions as tokens, checksums quoted) it is in the model.
- **Wompi**: verification of signatures, payment sources, webhooks that resolve no payment,
  and the log of attempts, which nothing reads.
- **Schema**: triggers (in the components whose tables they guard), row level policies,
  and data columns. Tables whose commands do not exist yet (quotes, inventory, work
  orders) are in `TenantSchema` only.
- **Media**: retention by warranties, deliveries and quotes, which no command writes yet;
  sessions from before integrity v1; discovery of purge jobs over many assets (a loop over
  the jobs that `MediaPurge` has one of).
- **Consent revocation, assignments**: no route; modelled as what their triggers allow.
- Lists, health checks, operations scripts, tests.

Next, in this order: `MediaPurge`'s `held` refined by the decision of `MediaUpload`; the
mailing of `Accounts` (which decides on an invitation while its email may be under way) as
another implementation of `DeliveryContract`; an abstract payment, whose outcome takes
effect once, implemented by `WompiBilling`.

Out of reach of the prover: liveness and enabledness, and what a recursive definition
computes for every input; they stay with TLC.
