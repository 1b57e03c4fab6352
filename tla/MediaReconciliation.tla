------------------------- MODULE MediaReconciliation -------------------------
(* One run of the media reconciliation: a read-only scan that compares the    *)
(* rows of the configured workshops with the objects of the bucket and says   *)
(* what it saw, while uploads, removals and the purger go on and no lock or   *)
(* transaction is held between two reads.  An asset and the key of its object *)
(* are one number, which orders the pages of rows and of objects.  Samples,   *)
(* redacted references, counters and legal holds are left out.                *)
EXTENDS Integers, Sequences, FiniteSets

CONSTANTS
  LastKey,        \* bound on the numbers of assets and of objects
  ForeignKeys,    \* keys that no asset ever has
  MaxChanges,     \* bound on the changes of rows and objects during the scan
  MaxFailures     \* bound on the reads that fail

MediaKeys == 1 .. LastKey

ASSUME ReconAssumption ==
  /\ LastKey \in Nat
  /\ ForeignKeys \subseteq MediaKeys

VARIABLES
  media,      \* the row of each asset
  bucket,     \* keys with an object in the configured bucket
  options,    \* ReconciliationOptions: tenants and bounds
  stopped,    \* why no new read is begun: "no", "deadline" or "operator"
  scan,       \* where the scan is and what it has gathered
  observed,   \* its observations, each of a key and a classification
  verdict,    \* how its report ends, or NoReport
  ever,       \* what has been true at some moment since the scan began
  always,     \* what has been true ever since
  changes     \* changes made so far

worldVars == <<media, bucket, changes>>
reconVars == <<media, bucket, options, stopped, scan, observed, verdict, ever, always, changes>>

NoMedia == [tenant |-> "none"]
NoReport == [status |-> "none", alerts |-> {}, exit |-> 2]

\* media_assets with its upload session and its purge job.  `live' is a pending
\* session that has not expired, which is a matter of time and of no write.
MediaRows ==
  {r \in [tenant : STRING, place : {"here", "elsewhere"},
          status : {"pending_upload", "uploaded", "active", "quarantined", "deleted", "purged"},
          job : {"none", "open", "reconciliation_required", "completed"}, live : BOOLEAN] :
     (r.live => r.status = "pending_upload") /\ (r.job = "open" => r.status = "deleted")}

\* At least one workshop, and none twice.
Options == [tenants : {t \in Seq(STRING) : t # <<>> /\ \A i, j \in DOMAIN t : t[i] = t[j] => i = j},
            pageSize : Nat \ {0}, concurrency : Nat \ {0},
            maxDatabasePages : Nat \ {0}, maxInventoryPages : Nat \ {0}]

IsRow(k) == media[k] # NoMedia
InBucket(k) == IsRow(k) /\ media[k].place = "here"
Presence(k) == IF k \in bucket THEN "exists" ELSE "missing"

\* A bug: only what the row is an asset of is compared, not its status or its job.
VersionOfTheAsset(r) == IF r = NoMedia THEN r ELSE <<r.tenant, r.place>>

\* The columns whose md5 the scan compares.
Version(r) == IF r = NoMedia THEN r ELSE <<r.tenant, r.place, r.status, r.job>>

\* What a row and the presence of its object amount to.
Lifecycle(r, storage) ==
  IF r.job = "reconciliation_required" THEN "reconciliation_required"
  ELSE IF r.status = "purged" THEN IF storage = "exists" THEN "purged_object_present" ELSE "purged_absent"
  ELSE IF r.status = "deleted" THEN "deletion_in_progress"
  ELSE IF r.live THEN "pending_upload"
  ELSE IF r.status = "pending_upload" THEN "incomplete_upload"
  ELSE IF r.status = "quarantined" THEN "quarantined"
  ELSE IF r.status = "uploaded" THEN "uploaded_unverified"
  ELSE IF storage = "exists" THEN "active_exists" ELSE "active_missing"

\* A bug: the rows are those of the configured workshops.
MetadataInScope(k) ==
  /\ InBucket(k)
  /\ \E i \in DOMAIN options.tenants : media[k].tenant = options.tenants[i]

\* app.media_storage_metadata_exists: rows of any workshop and of any status.
MetadataExists(k) == InBucket(k)

\* The rows a transaction of one workshop sees.
RowsOf(t) == {k \in MediaKeys : IsRow(k) /\ media[k].tenant = t}

\* The key of no read that is under way.
NotAtWork == [seen |-> NoMedia, head |-> "idle"]

Lowest(S, n) == {k \in S : Cardinality({j \in S : j < k}) < n}
Greatest(S, otherwise) == IF S = {} THEN otherwise ELSE CHOOSE k \in S : \A j \in S : j <= k
Without(f, k) == [f EXCEPT ![k] = NotAtWork]

\* What is true of the rows and objects at this moment, as the scan would say it.
Facts == {<<k, Lifecycle(media[k], Presence(k))>> : k \in {j \in MediaKeys : InBucket(j)}}
         \cup {<<k, "orphan_candidate">> : k \in {j \in bucket : ~InBucket(j)}}

Reads == {"database", "recheck"}
NoWork == [k \in MediaKeys |-> NotAtWork]
Look(r) == [seen |-> r, head |-> "none"]
WorkOn(S, look) == [k \in MediaKeys |-> IF k \in S THEN look[k] ELSE NotAtWork]

FirstScan == [at |-> "database", tenant |-> 1, after |-> 0, pages |-> 0, reading |-> TRUE, page |-> {},
              work |-> NoWork, finished |-> 0, withRows |-> {}, databaseComplete |-> FALSE,
              lists |-> 0, token |-> 0, truncated |-> FALSE, inventoryComplete |-> FALSE,
              provisional |-> {}, candidates |-> {},
              dbFailed |-> FALSE, storageFailed |-> FALSE, misconfigured |-> FALSE, failures |-> 0]

\* One HEAD between two reads of the row; the second round has no first read.
Looks == [seen : MediaRows \cup {NoMedia}, head : {"idle", "none", "exists", "missing"}]
Candidates == [on : MediaKeys, class : {"metadata_object", "inventory_changed", "orphan_candidate"}]

Scans ==
  [at : {"database", "inventory", "matching", "recheck", "done"}, tenant : Nat, after : Nat, pages : Nat,
   reading : BOOLEAN, page : SUBSET MediaKeys, work : [MediaKeys -> Looks],
   finished : Nat, withRows : SUBSET Nat, databaseComplete : BOOLEAN,
   lists : Nat, token : Nat, truncated : BOOLEAN, inventoryComplete : BOOLEAN,
   provisional : SUBSET MediaKeys, candidates : SUBSET Candidates,
   dbFailed : BOOLEAN, storageFailed : BOOLEAN, misconfigured : BOOLEAN, failures : Nat]

ReconTypeOK ==
  /\ media \in [MediaKeys -> MediaRows \cup {NoMedia}]
  /\ bucket \in SUBSET MediaKeys
  /\ options \in Options
  /\ stopped \in {"no", "deadline", "operator"}
  /\ scan \in Scans

\* Whatever rows and objects there are, and whatever is asked for.
ReconInit ==
  /\ media \in [MediaKeys -> MediaRows \cup {NoMedia}]
  /\ bucket \in SUBSET MediaKeys
  /\ options \in Options
  /\ stopped = "no"
  /\ scan = FirstScan
  /\ observed = {}
  /\ verdict = NoReport
  /\ ever = Facts
  /\ always = Facts
  /\ changes = 0

-----------------------------------------------------------------------------
(* Rows and objects while the scan runs.                                      *)

ChangeRow(k, status, job) ==
  /\ media' = [media EXCEPT ![k].status = status, ![k].job = job, ![k].live = FALSE]
  /\ UNCHANGED bucket

\* The row and its session are committed before the client is given the place
\* to put the object, under a new key.
CreateUpload(k, t) ==
  /\ ~IsRow(k) /\ k \notin ForeignKeys
  /\ media' = [media EXCEPT ![k] = [tenant |-> t, place |-> "here", status |-> "pending_upload",
                                    job |-> "none", live |-> TRUE]]
  /\ UNCHANGED bucket

\* A signed PUT: in time, or so late that the asset is purged already.
PutUpload(k) ==
  /\ InBucket(k) /\ k \notin bucket
  /\ media[k].live \/ media[k].status = "purged"
  /\ bucket' = bucket \cup {k}
  /\ UNCHANGED media

CompleteUpload(k, status) ==
  /\ InBucket(k) /\ media[k].live /\ k \in bucket
  /\ ChangeRow(k, status, "none")

SessionLapses(k) ==
  /\ IsRow(k) /\ media[k].live
  /\ media' = [media EXCEPT ![k].live = FALSE]
  /\ UNCHANGED bucket

RequestRemoval(k) ==
  /\ IsRow(k) /\ media[k].status \in {"pending_upload", "active", "quarantined"} /\ ~media[k].live
  /\ ChangeRow(k, "deleted", "open")

PurgerDeletes(k) ==
  /\ InBucket(k) /\ media[k].job = "open" /\ k \in bucket
  /\ bucket' = bucket \ {k}
  /\ UNCHANGED media

\* Confirmed, or parked for a person to look at.
PurgerEnds(k) ==
  /\ InBucket(k) /\ media[k].job = "open"
  /\ \/ k \notin bucket /\ ChangeRow(k, "purged", "completed")
     \/ ChangeRow(k, "deleted", "reconciliation_required")

\* Hands at the bucket: an object is lost, an object of no asset comes.
BucketChanges(k) ==
  /\ \/ bucket' = bucket \ {k} /\ k \in bucket
     \/ bucket' = bucket \cup {k} /\ k \in ForeignKeys \ bucket
  /\ UNCHANGED media

WorldChanges(k) ==
  \/ \E t \in {options.tenants[i] : i \in DOMAIN options.tenants} : CreateUpload(k, t)
  \/ PutUpload(k)
  \/ \E status \in {"active", "quarantined"} : CompleteUpload(k, status)
  \/ SessionLapses(k)
  \/ RequestRemoval(k)
  \/ PurgerDeletes(k)
  \/ PurgerEnds(k)
  \/ BucketChanges(k)

ChangeWorld ==
  /\ scan.at # "done" /\ changes < MaxChanges
  /\ changes' = changes + 1
  /\ \E k \in MediaKeys : WorldChanges(k)
  /\ UNCHANGED <<options, stopped, scan, observed, verdict>>

-----------------------------------------------------------------------------
(* The scan.                                                                  *)

Observe(k, class) == observed' = observed \cup {[on |-> k, class |-> class]}
Fails(s, which) ==
  /\ scan.failures < MaxFailures
  /\ scan' = [s EXCEPT ![which] = TRUE, !.failures = @ + 1]
  /\ Observe(0, "uncertain")

\* The reads a batch has begun: as many as `concurrency', in order.
AtWork == {k \in MediaKeys : scan.work[k].head # "idle"}
InProgress == Lowest(AtWork, options.concurrency)

\* The deadline passes or the operator interrupts: what is begun goes on, nothing
\* else is begun.
Stop ==
  /\ stopped = "no" /\ scan.at # "done"
  /\ stopped' \in {"deadline", "operator"}
  /\ scan' = [scan EXCEPT !.work = WorkOn(InProgress, @)]
  /\ UNCHANGED observed

\* Leaves the rows for the objects.
Swept(s) == [s EXCEPT !.at = "inventory",
                      !.databaseComplete = s.finished = Len(options.tenants) /\ ~s.dbFailed /\ stopped = "no"]

ReadPage ==
  LET rows == Lowest({k \in RowsOf(options.tenants[scan.tenant]) : k > scan.after}, options.pageSize)
      here == {k \in rows : media[k].place = "here"}
  IN /\ scan.at = "database" /\ scan.reading /\ stopped = "no"
     /\ scan' = [scan EXCEPT !.reading = FALSE, !.pages = @ + 1, !.page = rows,
                             !.work = WorkOn(here, [k \in MediaKeys |-> Look(media[k])]),
                             !.withRows = IF rows = {} THEN @ ELSE @ \cup {scan.tenant},
                             !.misconfigured = @ \/ rows # here]
     /\ observed' = observed \cup {[on |-> 0, class |-> "uncertain"] : k \in rows \ here}

FailPage ==
  /\ scan.at = "database" /\ scan.reading /\ stopped = "no"
  /\ Fails(Swept([scan EXCEPT !.dbFailed = TRUE]), "dbFailed")

\* The batch of a page is over: the next page, the next workshop, or the objects.
EndPage ==
  LET ended == Cardinality(scan.page) < options.pageSize /\ stopped = "no" /\ ~scan.dbFailed
      over == stopped # "no" \/ scan.pages >= options.maxDatabasePages
      next == IF ended THEN [scan EXCEPT !.finished = @ + 1, !.tenant = @ + 1, !.after = 0, !.reading = TRUE]
              ELSE [scan EXCEPT !.after = Greatest(scan.page, @), !.reading = TRUE]
  IN /\ scan.at = "database" /\ ~scan.reading /\ scan.work = NoWork
     /\ scan' = IF over \/ next.tenant > Len(options.tenants) THEN Swept(next) ELSE next
     /\ UNCHANGED observed

StopReading ==
  /\ scan.at = "database" /\ scan.reading /\ stopped # "no"
  /\ scan' = Swept(scan)
  /\ UNCHANGED observed

\* One HEAD, made up to three times: it says what it saw, or that it failed.
HeadObject(k) ==
  /\ scan.at \in Reads /\ k \in InProgress /\ scan.work[k].head = "none"
  /\ \/ scan' = [scan EXCEPT !.work[k].head = Presence(k)] /\ UNCHANGED observed
     \/ Fails([scan EXCEPT !.work = Without(@, k)], "storageFailed")

\* The row again: only if it has not changed does the HEAD say something of it.
ReadAgain(k) ==
  LET w == scan.work[k] IN
  /\ scan.at = "database" /\ k \in InProgress /\ w.head # "none"
  /\ \/ /\ scan' = [scan EXCEPT !.work = Without(@, k)]
        /\ Observe(k, IF Version(media[k]) # Version(w.seen) THEN "lifecycle_changed"
                      ELSE Lifecycle(media[k], w.head))
     \/ Fails([scan EXCEPT !.work = Without(@, k)], "dbFailed")

\* Leaves the pages of objects: the unmatched ones are looked at again only if
\* everything has been read.
Listed(s) ==
  [s EXCEPT !.at = "recheck", !.page = {},
            !.work = IF s.inventoryComplete /\ s.databaseComplete /\ ~s.dbFailed /\ stopped = "no"
                     THEN WorkOn(s.provisional, [k \in MediaKeys |-> Look(NoMedia)])
                     ELSE NoWork]

ListPage ==
  LET rest == {k \in bucket : k > scan.token} IN
  /\ scan.at = "inventory" /\ stopped = "no"
  /\ \/ /\ scan' = [scan EXCEPT !.at = "matching", !.lists = @ + 1, !.page = Lowest(rest, options.pageSize),
                                !.truncated = Cardinality(rest) > options.pageSize]
        /\ UNCHANGED observed
     \/ Fails(Listed(scan), "storageFailed")

\* A page of keys against the rows of all workshops.
MatchPage ==
  LET unmatched == {k \in scan.page : ~MetadataExists(k)}
      seen == [scan EXCEPT !.at = "inventory", !.token = Greatest(scan.page, @),
                           !.provisional = @ \cup unmatched, !.inventoryComplete = ~scan.truncated]
      more == scan.truncated /\ scan.lists < options.maxInventoryPages
  IN /\ scan.at = "matching"
     /\ \/ /\ scan' = IF more THEN seen ELSE Listed(seen)
           /\ observed' = observed \cup {[on |-> k, class |-> "metadata_object"] : k \in scan.page \ unmatched}
        \/ scan.page # {} /\ Fails(Listed([scan EXCEPT !.dbFailed = TRUE]), "dbFailed")

StopListing ==
  /\ scan.at = "inventory" /\ stopped # "no"
  /\ scan' = Listed(scan)
  /\ UNCHANGED observed

\* An unmatched object once more against the rows, after its HEAD.
MatchAgain(k) ==
  LET w == scan.work[k]
      class == IF MetadataExists(k) THEN "metadata_object"
               ELSE IF w.head = "missing" THEN "inventory_changed" ELSE "orphan_candidate"
  IN /\ scan.at = "recheck" /\ k \in InProgress /\ w.head # "none"
     /\ \/ /\ scan' = [scan EXCEPT !.work = Without(@, k),
                                   !.candidates = @ \cup {[on |-> k, class |-> class]}]
           /\ UNCHANGED observed
        \/ Fails([scan EXCEPT !.work = Without(@, k)], "dbFailed")

\* A bug: reads of objects that failed are not held against the report.
PromoteDespiteFailures == /\ scan.databaseComplete /\ scan.inventoryComplete /\ stopped = "no"
                          /\ ~scan.dbFailed /\ ~scan.misconfigured

CanPromote == /\ scan.databaseComplete /\ scan.inventoryComplete /\ stopped = "no"
              /\ ~scan.dbFailed /\ ~scan.storageFailed /\ ~scan.misconfigured

\* The unmatched objects as the report names them.
Promoted(c) == IF c.class = "orphan_candidate" /\ ~CanPromote
               THEN [c EXCEPT !.class = "orphan_observation"] ELSE c
Unprocessed == scan.provisional \ {c.on : c \in scan.candidates}

Status == IF stopped = "operator" THEN "cancelled" ELSE IF CanPromote THEN "complete" ELSE "partial"

Alerts(seen) ==
  LET has(classes) == \E o \in seen : o.class \in classes
      empty == scan.databaseComplete /\ scan.withRows = {}
  IN {a \in {"uncertain_observations", "active_missing", "purged_object_present", "orphan_candidates",
             "manual_reconciliation", "scan_incomplete", "scope_empty", "scope_coverage_gap"} :
        \/ a = "uncertain_observations" /\ has({"uncertain", "lifecycle_changed", "orphan_observation"})
        \/ a \in {"active_missing", "purged_object_present"} /\ has({a})
        \/ a = "orphan_candidates" /\ has({"orphan_candidate"})
        \/ a = "manual_reconciliation" /\ has({"reconciliation_required"})
        \/ a = "scan_incomplete" /\ Status # "complete"
        \/ a = "scope_empty" /\ empty
        \/ a = "scope_coverage_gap" /\ ~empty /\ \E i \in 1 .. scan.finished : i \notin scan.withRows}

\* mediaReconciliationExitCode.
ExitCode(alerts) ==
  IF Status = "complete" /\ scan.withRows = DOMAIN options.tenants /\ alerts = {} THEN 0 ELSE 2

Finish ==
  LET seen == observed \cup {Promoted(c) : c \in scan.candidates}
                       \cup {[on |-> k, class |-> "orphan_observation"] : k \in Unprocessed}
  IN /\ scan.at = "recheck" /\ scan.work = NoWork
     /\ observed' = seen
     /\ verdict' = [status |-> Status, alerts |-> Alerts(seen), exit |-> ExitCode(Alerts(seen))]
     /\ scan' = [scan EXCEPT !.at = "done"]

ScanStep ==
  /\ \/ Stop
     \/ /\ \/ ReadPage \/ FailPage \/ EndPage \/ StopReading
           \/ ListPage \/ MatchPage \/ StopListing
           \/ \E k \in MediaKeys : HeadObject(k) \/ ReadAgain(k) \/ MatchAgain(k)
        /\ UNCHANGED <<stopped>>
  /\ UNCHANGED <<worldVars, options, verdict>>

ReconNext ==
  /\ \/ ChangeWorld
     \/ ScanStep
     \/ Finish /\ UNCHANGED <<worldVars, options, stopped>>
  /\ ever' = ever \cup Facts'
  /\ always' = always \cap Facts'

ReconSpec == ReconInit /\ [][ReconNext]_reconVars

-----------------------------------------------------------------------------
\* The variables have their types, and nothing is said of an asset or an object
\* that was not so at one moment of the run: an active asset is reported missing
\* only if its object was gone while it was active, an object is an orphan
\* candidate only if it was there and no workshop had a row for it, whatever
\* changed between the reads.
Said == {"active_exists", "active_missing", "pending_upload", "incomplete_upload", "quarantined",
         "deletion_in_progress", "reconciliation_required", "purged_absent", "purged_object_present",
         "orphan_candidate"}
ReportedWasTrue ==
  /\ ReconTypeOK
  /\ \A o \in observed : o.class \in Said => <<o.on, o.class>> \in ever

\* A report that calls itself complete leaves nothing out that was so from the
\* first read to the last: every row of the configured workshops is there, and
\* every object of no row; and an exit code of 0 means that none of them was
\* amiss.  Pages, concurrency, failed reads and the time limit do not change that.
Amiss == {"active_missing", "purged_object_present", "reconciliation_required", "orphan_candidate"}
InScope(k) == IsRow(k) => \E i \in DOMAIN options.tenants : media[k].tenant = options.tenants[i]
CompleteReportsMissNothing ==
  verdict.status = "complete" =>
    \A f \in always : InScope(f[1]) =>
      /\ \E o \in observed : o.on = f[1] /\ o.class \in {f[2], "lifecycle_changed"}
      /\ verdict.exit = 0 => f[2] \notin Amiss
=============================================================================
