---------------------------- MODULE MediaAccess ----------------------------
(***************************************************************************)
(* Reading media of one workshop: download URLs, the media of a reception  *)
(* or damage, and the gallery of an order, page by page, by a member whose *)
(* roles and assignments, and on media that, change meanwhile.             *)
(*                                                                         *)
(* A read is one transaction: context, reader's locks, discovery, locks of *)
(* what was discovered, check, answer, COMMIT.  READ COMMITTED: each step  *)
(* sees what is committed.  From the reader's locks on, reads of a         *)
(* workshop exclude one another, so one at a time stands for all.  The     *)
(* tiers in which a step takes its locks are MediaUpload's matter.         *)
(***************************************************************************)
EXTENDS Naturals, FiniteSets, Authorization

CONSTANTS
  Assets,     \* media_assets.id, in the order of the gallery
  Places,     \* receptions; a closed one has one order, of the same name
  Unbound,    \* an upload session without binding
  PageSize,   \* the gallery's limit
  MaxTurns    \* bound on the changes around the reads

ASSUME MediaAccessAssumption ==
  /\ Assets \subseteq Nat \ {0} /\ IsFiniteSet(Assets)
  /\ IsFiniteSet(Places) /\ Unbound \notin Places \X {0, 1}
  /\ PageSize \in Nat \ {0} /\ MaxTurns \in Nat

VARIABLES
  roles,      \* the reader's roles
  active,     \* the reader's membership is active
  closed,     \* the receptions that are closed
  tasks,      \* the reader's active assignments, by order
  media,      \* per asset: status, other references or integrity marks, proofs of its uploads
  attached,   \* reception_media and damage_media: <<asset, target>>
  read,       \* the read in hand
  walk,       \* the reader's way through a gallery
  turns       \* how often something has changed

member     == <<roles, active, tasks>>
evidence   == <<closed, media, attached>>
accessVars == <<member, evidence, read, walk, turns>>

\* A target: a reception (rank 0) or its damage (rank 1).
Targets  == Places \X {0, 1}
Place(t) == t[1]
Tasks    == {"technician", "quality_control"}   \* lead and support are one
Start    == <<0, 0>>
NoOne    == <<>>

Quiet  == [step |-> "idle"]
NoWalk == [order |-> NoOne]

LinksOf(a)  == {t \in Targets : <<a, t>> \in attached}
\* The lineage of media: where they are attached, and what their uploads are bound to.
PlacesOf(S) == {Place(t) : t \in UNION {LinksOf(a) \cup (media[a].proofs \cap Targets) : a \in S}}
Readable(a) == media[a].status = "active"

(***************************************************************************)
(* What a read may show.                                                   *)
(***************************************************************************)

\* eligibleGraph without the reader: clean, attached, and every completed upload
\* proves exactly the one target it is attached to.  Tenant-wide galleries also
\* take a single attachment whose uploads all date from before the bindings.
Evidenced(a, legacy) ==
  LET proofs == media[a].proofs IN
  /\ Readable(a) /\ ~media[a].marked
  /\ \/ legacy /\ Cardinality(LinksOf(a)) = 1 /\ proofs \subseteq {Unbound}
     \/ Cardinality(proofs) = 1 /\ proofs = LinksOf(a)

\* assignedReception: the order of a closed reception and a technician's task.
AssignedTo(p) == p \in closed /\ <<p, "technician">> \in tasks

Eligible(a, wide) == Evidenced(a, wide) /\ (wide \/ \A p \in PlacesOf({a}) : AssignedTo(p))

Before(c, d)  == c[1] < d[1] \/ (c[1] = d[1] /\ c[2] < d[2])
Candidates(o) == {<<x[2][2], x[1]>> : x \in {y \in attached : Place(y[2]) = o}}
Ahead(o, c)   == {d \in Candidates(o) : Before(c, d)}
Window(o, c)  == {d \in Ahead(o, c) : Cardinality({e \in Ahead(o, c) : Before(e, d)}) < PageSize}
AssetsAt(W)   == {c[2] : c \in W}

\* nextCursor: the last row of the window, shown or not, when more are ahead.
NextCursor(o, c) ==
  {d \in Window(o, c) : Ahead(o, c) # Window(o, c) /\ \A e \in Window(o, c) : ~Before(d, e)}

\* What the lists of a target show, in one statement.
Listed(t) == {a \in Assets : <<a, t>> \in attached /\ Readable(a)}

(***************************************************************************)
(* The read.                                                               *)
(***************************************************************************)

At(step) == read.step = step
Around   == UNCHANGED <<member, evidence, turns>>

\* The context and the guard; denied without a grant.  Wide is
\* resourceAuthorization.grantedScopes of size 0.
BeginRead(want, object, after) ==
  /\ At("idle") /\ active
  /\ \E c \in AuthorizePermissionRequirement("resource", GrantOf(roles, "media.read")) :
       read' = [step |-> "reader", want |-> want, object |-> object, after |-> after,
                wide |-> c = "not_required", assets |-> {}, page |-> {}, places |-> {},
                orders |-> {}, shown |-> {}]
  /\ UNCHANGED walk
  /\ Around

BeginDownload == \E a \in Assets : BeginRead("download", a, Start)
BeginList     == \E t \in Targets : BeginRead("list", t, Start)

\* The first page, or the one the cursor leads to.
BeginPage ==
  \/ \E o \in closed : BeginRead("gallery", o, Start)
  \/ walk # NoWalk /\ \E c \in walk.cursor : BeginRead("gallery", walk.order, c)

\* An error, a check that fails, a lock or statement that takes too long, the
\* deadline, a COMMIT that fails: ROLLBACK, and the client has learnt nothing.
RefuseRead ==
  /\ ~At("idle")
  /\ read' = Quiet
  /\ UNCHANGED walk
  /\ Around

\* The list of a target for a reader of the whole workshop: no lock, no check.
ReadList ==
  /\ At("reader") /\ read.want = "list" /\ read.wide
  /\ read' = [read EXCEPT !.step = "answered", !.shown = Listed(read.object)]
  /\ UNCHANGED walk
  /\ Around

\* Mutant: the grant that opened the request is good enough.
GrantAtBegin == active

\* lockReader: what the rows say once the owner-set lock is held.
GrantNow == active /\ GrantOf(roles, "media.read") \cap (IF read.wide THEN {"tenant"} ELSE {"tenant", "assigned"}) # {}

\* The reader's locks; then what there is to lock is read without locking it.
LockReader ==
  /\ At("reader") /\ ~(read.want = "list" /\ read.wide)
  /\ GrantNow
  /\ read.want = "gallery" /\ ~read.wide => <<read.object, "technician">> \in tasks
  /\ LET o     == read.object
         page  == IF read.want = "gallery" THEN Window(o, read.after) ELSE {}
         found == CASE read.want = "download" -> {o}
                    [] read.want = "list"     -> Listed(o)
                    [] read.want = "gallery"  -> AssetsAt(page)
         asked == CASE read.want = "download" -> {}
                    [] read.want = "list"     -> {Place(o)}
                    [] read.want = "gallery"  -> {o}
         places == PlacesOf(found) \cup asked
     IN read' = [read EXCEPT !.step = "discovered", !.assets = found, !.page = page,
                             !.places = places, !.orders = places \cap closed]
  /\ UNCHANGED walk
  /\ Around

\* lockMediaRetention: receptions, orders and media are locked, and nothing has
\* joined their lineage; else MediaLineageChangedError.
LockGraph ==
  /\ At("discovered")
  /\ PlacesOf(read.assets) \subseteq read.places
  /\ read.places \cap closed \subseteq read.orders
  /\ read' = [read EXCEPT !.step = "locked"]
  /\ UNCHANGED walk
  /\ Around

Show(shown) ==
  /\ read' = [read EXCEPT !.step = "answered", !.shown = shown]
  /\ UNCHANGED walk
  /\ Around

\* getMediaDownloadUrl signs for the asset as it is now.
SignDownload ==
  /\ At("locked") /\ read.want = "download"
  /\ Readable(read.object) /\ (read.wide \/ Eligible(read.object, FALSE))
  /\ Show({read.object})

\* listAssignedMedia.
ShowAssigned ==
  /\ At("locked") /\ read.want = "list"
  /\ AssignedTo(Place(read.object))
  /\ Show({a \in Listed(read.object) \cap read.assets : Eligible(a, FALSE)})

\* listOrderMedia: a window that has shifted is never shown.
ShowPage ==
  /\ At("locked") /\ read.want = "gallery"
  /\ read.wide \/ AssignedTo(read.object)
  /\ Window(read.object, read.after) = read.page
  /\ Show({a \in read.assets : Eligible(a, read.wide)})

\* COMMIT, and the client goes on from the page.  A walk knows what it has
\* shown and what it must show: evidence of the order since its first page.
Deliver ==
  /\ At("answered")
  /\ read' = Quiet
  /\ walk' = IF read.want # "gallery" THEN walk
             ELSE LET o    == read.object
                      past == IF read.after = Start
                              THEN [wide |-> TRUE, due |-> AssetsAt(Candidates(o)), shown |-> {}, twice |-> FALSE]
                              ELSE walk
                      wide == read.wide /\ past.wide
                  IN [order |-> o, cursor |-> NextCursor(o, read.after), wide |-> wide,
                      due |-> {a \in past.due : Evidenced(a, wide)}, shown |-> past.shown \cup read.shown,
                      twice |-> past.twice \/ past.shown \cap read.shown # {}]
  /\ Around

\* 15 minutes, or the key is retired.
CursorLapses ==
  /\ At("idle") /\ walk # NoWalk
  /\ walk' = NoWalk
  /\ UNCHANGED read
  /\ Around

(***************************************************************************)
(* What changes around the reads: each of them one transaction.            *)
(***************************************************************************)

Turn == turns < MaxTurns /\ turns' = turns + 1 /\ UNCHANGED <<read, walk>>

\* Roles and status change under the owner-set lock, which lockReader takes.
MemberChanges ==
  /\ IF At("answered") THEN read.want = "list" /\ read.wide ELSE At("idle") \/ At("reader")
  /\ \/ \E R \in SUBSET RoleCodes : roles' = R /\ active' = active
     \/ active' = ~active /\ roles' = roles
  /\ UNCHANGED <<tasks, evidence>>
  /\ Turn

PlaceLocked(p) == read.step \in {"locked", "answered"} /\ p \in read.places
AssetLocked(a) == read.step \in {"locked", "answered"} /\ a \in read.assets

\* Working on an order and checking its quality are kept apart, but for the only
\* member of a workshop: who else is a member is not modelled.
Assign ==
  /\ \E x \in (closed \X Tasks) \ tasks : tasks' = tasks \cup {x}
  /\ UNCHANGED <<roles, active, evidence>>
  /\ Turn

\* released_at; the check of a restricted read has locked the row FOR SHARE.
ReleaseTask ==
  /\ \E x \in tasks :
       /\ ~(At("answered") /\ ~read.wide /\ x[1] \in read.places)
       /\ tasks' = tasks \ {x}
  /\ UNCHANGED <<roles, active, evidence>>
  /\ Turn

CloseReception ==
  /\ \E p \in Places \ closed : ~PlaceLocked(p) /\ closed' = closed \cup {p}
  /\ UNCHANGED <<member, media, attached>>
  /\ Turn

\* attachMedia: the target an upload was bound to, while the reception is open.
Attach ==
  /\ \E a \in Assets, t \in Targets :
       /\ Readable(a) /\ media[a].proofs = {t} /\ Place(t) \notin closed
       /\ ~AssetLocked(a) /\ ~PlaceLocked(Place(t))
       /\ attached' = attached \cup {<<a, t>>}
  /\ UNCHANGED <<member, closed, media>>
  /\ Turn

\* removeUnattachedMedia: nothing refers to it, nor may yet.
RemoveUnattached ==
  /\ \E a \in Assets :
       /\ LinksOf(a) = {} /\ ~media[a].marked /\ Readable(a) /\ ~AssetLocked(a)
       /\ \A p \in PlacesOf({a}) : p \in closed /\ ~PlaceLocked(p)
       /\ media' = [media EXCEPT ![a].status = "deleted"]
  /\ UNCHANGED <<member, closed, attached>>
  /\ Turn

\* A reference of another family, or an integrity failure.
Mark ==
  /\ \E a \in Assets : /\ Readable(a) /\ ~media[a].marked /\ ~AssetLocked(a)
                       /\ media' = [media EXCEPT ![a].marked = TRUE]
  /\ UNCHANGED <<member, closed, attached>>
  /\ Turn

(***************************************************************************)
(* Specification.                                                          *)
(***************************************************************************)

\* Several uploads of one asset date from before the bindings.
AccessInit ==
  /\ roles \in SUBSET RoleCodes /\ active \in BOOLEAN
  /\ closed \in SUBSET Places
  /\ tasks \in SUBSET (closed \X Tasks)
  /\ media \in [Assets -> [status : {"active"}, marked : BOOLEAN, proofs : SUBSET (Targets \cup {Unbound})]]
  /\ attached \in SUBSET (Assets \X Targets)
  /\ read = Quiet /\ walk = NoWalk /\ turns = 0

AccessNext ==
  \/ BeginDownload \/ BeginList \/ BeginPage \/ RefuseRead
  \/ ReadList \/ LockReader \/ LockGraph \/ SignDownload \/ ShowAssigned \/ ShowPage
  \/ Deliver \/ CursorLapses
  \/ MemberChanges \/ Assign \/ ReleaseTask \/ CloseReception \/ Attach
  \/ RemoveUnattached \/ Mark

AccessSpec == AccessInit /\ [][AccessNext]_accessVars

(***************************************************************************)
(* Properties.                                                             *)
(***************************************************************************)

Cursors == {0, 1} \X (Assets \cup {0})

AccessTypeOK ==
  /\ roles \subseteq RoleCodes /\ active \in BOOLEAN
  /\ closed \subseteq Places /\ tasks \subseteq Places \X Tasks
  /\ media \in [Assets -> [status : {"active", "deleted"}, marked : BOOLEAN,
                           proofs : SUBSET (Targets \cup {Unbound})]]
  /\ attached \subseteq Assets \X Targets
  /\ \/ read = Quiet
     \/ /\ read.step \in {"reader", "discovered", "locked", "answered"}
        /\ read.assets \cup read.shown \subseteq Assets
        /\ read.page \cup {read.after} \subseteq Cursors
        /\ read.orders \subseteq read.places /\ read.places \subseteq Places
  /\ \/ walk = NoWalk
     \/ walk.cursor \subseteq Cursors /\ walk.due \cup walk.shown \subseteq Assets
  /\ turns \in 0..MaxTurns

\* Until the transaction that answers has ended, the reader has the grant it
\* reads with, also when roles, status, assignments, attachments and media have
\* changed since the request began; what a technician is shown is evidence of
\* orders the technician is assigned to, and never of two receptions.
AuthorizedWhenRead ==
  At("answered") /\ ~(read.want = "list" /\ read.wide) =>
    /\ active
    /\ read.wide => "tenant" \in GrantOf(roles, "media.read")
    /\ \A a \in read.shown : Readable(a)
    /\ read.want = "gallery" => \A a \in read.shown : <<a, read.object>> \in {<<x[1], Place(x[2])>> : x \in attached}
    /\ ~read.wide => \A a \in read.shown :
         \E p \in closed : /\ {Place(t) : t \in LinksOf(a)} = {p}
                           /\ <<p, "technician">> \in tasks /\ ~media[a].marked

\* Who follows the cursors to their end has seen, once each, all that was
\* evidence of the order from the first page to the last, also when whole pages
\* had nothing to show and the grant became wider or narrower on the way.
GalleryMissesNothing ==
  walk # NoWalk => ~walk.twice /\ (walk.cursor = {} => walk.due \subseteq walk.shown)

\* Reading media: what lockReader, eligibleGraph and the cursor promise.
ReadsAreSound == AccessTypeOK /\ AuthorizedWhenRead /\ GalleryMissesNothing
=============================================================================
