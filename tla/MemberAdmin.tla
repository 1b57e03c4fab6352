----------------------------- MODULE MemberAdmin -----------------------------
(***************************************************************************)
(* Who belongs to one workshop and with which roles, under concurrent      *)
(* administration: API requests that assign and remove roles, suspend and  *)
(* revoke; the worker's revocation job; sessions that bypass RLS; and      *)
(* accepted invitations.                                                   *)
(*                                                                         *)
(* Locks are taken in the order of migration 0013: the owner mutation gate *)
(* (shared at run time, exclusive for the others), the workshop's row,     *)
(* membership rows.  What a transaction writes is seen by the others when  *)
(* it commits; each of its statements reads what is committed by then      *)
(* (READ COMMITTED).                                                       *)
(***************************************************************************)
EXTENDS FiniteSets

CONSTANTS
  Members,    \* memberships, present and future
  Requests,   \* API sessions
  Jobs,       \* worker sessions running identity.membership_revocation
  Admins,     \* superuser and BYPASSRLS sessions, with triggers enabled
  NoMember

Runtime  == Requests \cup Jobs
Sessions == Runtime \cup Admins

ASSUME MemberAssumption ==
  /\ NoMember \notin Members
  /\ Requests \cap Jobs = {} /\ Runtime \cap Admins = {}

VARIABLES
  status,     \* memberships.status; "none": no such row yet
  roleRows,   \* membership_roles, as pairs
  pc,         \* per session: the lock it asks for or the statement it is at
  actor,      \* per request: TenantContext.membershipId
  perms,      \* per request: freshActorPermissions
  target,     \* per runtime session: the membership it administers
  intent,     \* per session: what it writes, uncommitted once pc is "commit"
  seen,       \* per runtime session: target's status and roles as read
  sharing,    \* per session: membership rows locked FOR SHARE
  updating    \* per session: membership rows locked FOR UPDATE

rows  == <<status, roleRows>>
locks == <<sharing, updating>>
vars  == <<status, roleRows, pc, actor, perms, target, intent, seen, sharing, updating>>

(***************************************************************************)
(* Roles and permissions (RBAC_MATRIX_V1).  "staff" stands for the roles   *)
(* service_advisor and technician, which need the same permission.         *)
(***************************************************************************)

Roles  == {"owner", "admin", "staff"}
Status == {"none", "active", "suspended", "revoked"}

Permissions == {"manage_staff", "assign_staff", "assign_admin", "assign_owner"}

RolePermissions ==
  [owner |-> Permissions, admin |-> {"manage_staff", "assign_staff"}, staff |-> {}]

AssignPermission ==
  [owner |-> "assign_owner", admin |-> "assign_admin", staff |-> "assign_staff"]

Transitions == {<<"active", "suspended">>, <<"active", "revoked">>, <<"suspended", "revoked">>}

RolesOf(m) == {r \in Roles : <<m, r>> \in roleRows}

\* The permissions of m as its rows say now; none unless m is active.
PermissionsOf(m) ==
  IF status[m] = "active" THEN UNION {RolePermissions[r] : r \in RolesOf(m)} ELSE {}

(***************************************************************************)
(* What a transaction writes.                                              *)
(***************************************************************************)

NoIntent     == [grant |-> {}, revoke |-> {}, move |-> {}]
Assign(m, r) == [grant |-> {<<m, r>>}, revoke |-> {}, move |-> {}]
Remove(m, r) == [grant |-> {}, revoke |-> {<<m, r>>}, move |-> {}]
Become(m, s) == [grant |-> {}, revoke |-> {}, move |-> {<<m, s>>}]

Intents == [grant : SUBSET (Members \X Roles), revoke : SUBSET (Members \X Roles),
            move : SUBSET (Members \X {"suspended", "revoked"})]

\* The rows as the writer, and after its COMMIT everyone, sees them.
RolesAfter(i)  == (roleRows \cup i.grant) \ i.revoke
StatusAfter(i) ==
  [m \in Members |-> IF <<m, "revoked">> \in i.move THEN "revoked"
                     ELSE IF <<m, "suspended">> \in i.move THEN "suspended"
                     ELSE status[m]]

OwnersAfter(i) == {m \in Members : StatusAfter(i)[m] = "active"
                                   /\ <<m, "owner">> \in RolesAfter(i)}
ActiveOwners   == {m \in Members : status[m] = "active" /\ <<m, "owner">> \in roleRows}

\* When the triggers look for a remaining active owner: an owner role goes, or
\* an active member that holds one stops being active.
Shrinks(i) ==
  \/ \E m \in Members : <<m, "owner">> \in i.revoke
  \/ \E m \in Members : /\ status[m] = "active" /\ StatusAfter(i)[m] # "active"
                        /\ <<m, "owner">> \in RolesAfter(i)

TriggersPass(i) == Shrinks(i) => OwnersAfter(i) # {}

TypeOK ==
  /\ status \in [Members -> Status]
  /\ roleRows \in SUBSET (Members \X Roles)
  /\ pc \in [Sessions -> {"idle", "inserted", "gate", "workshop", "actor", "target",
                          "write", "commit"}]
  /\ actor \in [Requests -> Members \cup {NoMember}]
  /\ perms \in [Requests -> SUBSET Permissions]
  /\ target \in [Runtime -> Members \cup {NoMember}]
  /\ intent \in [Sessions -> Intents]
  /\ seen \in [Runtime -> [status : Status, roles : SUBSET Roles]]
  /\ sharing \in [Sessions -> SUBSET Members]
  /\ updating \in [Sessions -> SUBSET Members]

NothingSeen == [status |-> "none", roles |-> {}]

\* Onboarding committed: one active owner, nobody else yet.
Init ==
  /\ \E founder \in Members :
       /\ status = [m \in Members |-> IF m = founder THEN "active" ELSE "none"]
       /\ roleRows = {<<founder, "owner">>}
  /\ pc = [s \in Sessions |-> "idle"]
  /\ actor = [s \in Requests |-> NoMember]
  /\ perms = [s \in Requests |-> {}]
  /\ target = [s \in Runtime |-> NoMember]
  /\ intent = [s \in Sessions |-> NoIntent]
  /\ seen = [s \in Runtime |-> NothingSeen]
  /\ sharing = [s \in Sessions |-> {}]
  /\ updating = [s \in Sessions |-> {}]

(***************************************************************************)
(* Locks, held until the transaction ends.                                 *)
(***************************************************************************)

\* Mutant: the gate is given back when the statement ends.
GateForOneStatement(s) ==
  s \in Runtime /\ pc[s] \in {"workshop", "actor", "target", "write"}

HoldsShared(s)    == s \in Runtime /\ pc[s] \in {"workshop", "actor", "target", "write", "commit"}
HoldsExclusive(s) == s \in Admins /\ pc[s] \in {"write", "commit"}
HoldsWorkshop(s)  == s \in Runtime /\ pc[s] \in {"actor", "target", "write", "commit"}

\* The owners the revocation job locks before its target.
OwnerRows == {m \in Members : <<m, "owner">> \in roleRows}

\* Mutant: the target is read without a lock.
OwnersOnly(s) == IF s \in Jobs THEN OwnerRows ELSE {}

RowsWanted(s) == {target[s]} \cup (IF s \in Jobs THEN OwnerRows ELSE {})

\* s asks for a lock that o holds in a conflicting mode.
Waits(s, o) ==
  /\ s # o
  /\ \/ s \in Runtime /\ pc[s] = "gate" /\ HoldsExclusive(o)
     \/ s \in Admins /\ pc[s] = "gate" /\ (HoldsShared(o) \/ HoldsExclusive(o))
     \/ s \in Runtime /\ pc[s] = "workshop" /\ HoldsWorkshop(o)
     \/ s \in Requests /\ pc[s] = "actor" /\ actor[s] \in updating[o]
     \/ s \in Runtime /\ pc[s] = "target"
        /\ RowsWanted(s) \cap (sharing[o] \cup updating[o]) # {}

Blocked(s) == \E o \in Sessions : Waits(s, o)

\* COMMIT or ROLLBACK: locks and locals are gone.
End(s) ==
  /\ pc' = [pc EXCEPT ![s] = "idle"]
  /\ intent' = [intent EXCEPT ![s] = NoIntent]
  /\ sharing' = [sharing EXCEPT ![s] = {}]
  /\ updating' = [updating EXCEPT ![s] = {}]
  /\ IF s \in Requests
     THEN actor' = [actor EXCEPT ![s] = NoMember] /\ perms' = [perms EXCEPT ![s] = {}]
     ELSE UNCHANGED <<actor, perms>>
  /\ IF s \in Runtime
     THEN target' = [target EXCEPT ![s] = NoMember] /\ seen' = [seen EXCEPT ![s] = NothingSeen]
     ELSE UNCHANGED <<target, seen>>

(***************************************************************************)
(* Runtime sessions: the four commands of the API and the revocation job.  *)
(***************************************************************************)

\* The tenant request opens: m is active and passes the route's permission.
Begin(s, m) ==
  /\ s \in Requests /\ pc[s] = "idle"
  /\ "manage_staff" \in PermissionsOf(m)
  /\ actor' = [actor EXCEPT ![s] = m]
  /\ pc' = [pc EXCEPT ![s] = "gate"]
  /\ UNCHANGED <<rows, perms, target, intent, seen, locks>>

BeginJob(s, m) ==
  /\ s \in Jobs /\ pc[s] = "idle"
  /\ target' = [target EXCEPT ![s] = m]
  /\ intent' = [intent EXCEPT ![s] = Become(m, "revoked")]
  /\ pc' = [pc EXCEPT ![s] = "gate"]
  /\ UNCHANGED <<rows, actor, perms, seen, locks>>

\* lock_current_tenant_owner_set: gate ACCESS SHARE, then the workshop row.
LockGate(s) ==
  /\ s \in Runtime /\ pc[s] = "gate" /\ ~Blocked(s)
  /\ pc' = [pc EXCEPT ![s] = "workshop"]
  /\ UNCHANGED <<rows, actor, perms, target, intent, seen, locks>>

LockWorkshop(s) ==
  /\ s \in Runtime /\ pc[s] = "workshop" /\ ~Blocked(s)
  /\ pc' = [pc EXCEPT ![s] = IF s \in Jobs THEN "target" ELSE "actor"]
  /\ UNCHANGED <<rows, actor, perms, target, intent, seen, locks>>

\* freshActorPermissions.  What the request asks for plays no part before this
\* point but that it does not name the actor itself, and is chosen here.
ReadActor(s) ==
  /\ s \in Requests /\ pc[s] = "actor" /\ ~Blocked(s)
  /\ perms' = [perms EXCEPT ![s] = PermissionsOf(actor[s])]
  /\ sharing' = [sharing EXCEPT ![s] = IF status[actor[s]] = "active" THEN {actor[s]} ELSE {}]
  /\ \E m \in Members \ {actor[s]} :
       /\ target' = [target EXCEPT ![s] = m]
       /\ \E i \in {Assign(m, r) : r \in Roles} \cup {Remove(m, r) : r \in Roles}
                     \cup {Become(m, to) : to \in {"suspended", "revoked"}} :
            intent' = [intent EXCEPT ![s] = i]
  /\ pc' = [pc EXCEPT ![s] = "target"]
  /\ UNCHANGED <<rows, actor, seen, updating>>

\* memberships.manage_staff, and the permission to assign the role in question
\* and every role the target holds.
Authorized(permissions, held, i) ==
  /\ "manage_staff" \in permissions
  /\ \A r \in Roles :
       r \in held \/ (\E m \in Members : <<m, r>> \in i.grant \cup i.revoke)
         => AssignPermission[r] \in permissions

\* Mutant: roles change whatever the member's status.
ApplicableAnyStatus(was, held, i) ==
  /\ \A m \in Members, r \in Roles :
       /\ <<m, r>> \in i.grant => r \notin held
       /\ <<m, r>> \in i.revoke => r \in held
  /\ \A m \in Members, to \in {"suspended", "revoked"} :
       <<m, to>> \in i.move => <<was, to>> \in Transitions

\* Roles change on an active member only, statuses along the table.
Applicable(was, held, i) ==
  /\ \A m \in Members, r \in Roles :
       /\ <<m, r>> \in i.grant => was = "active" /\ r \notin held
       /\ <<m, r>> \in i.revoke => was = "active" /\ r \in held
  /\ \A m \in Members, to \in {"suspended", "revoked"} :
       <<m, to>> \in i.move => <<was, to>> \in Transitions

\* Mutant: the roles the target already holds are not looked at.
MayProceedOnChangeOnly(s, m) ==
  /\ s \in Requests => Authorized(perms[s], {}, intent[s])
  /\ Applicable(status[m], RolesOf(m), intent[s])

MayProceed(s, m) ==
  /\ s \in Requests => Authorized(perms[s], RolesOf(m), intent[s])
  /\ Applicable(status[m], RolesOf(m), intent[s])

\* lockTarget, rolesOf and the checks.  A refusal changes no membership; it
\* ends the transaction (with its audit row, which is not modelled).
LockTarget(s) ==
  /\ s \in Runtime /\ pc[s] = "target" /\ ~Blocked(s)
  /\ IF status[target[s]] # "none" /\ MayProceed(s, target[s])
     THEN /\ seen' = [seen EXCEPT ![s] = [status |-> status[target[s]],
                                          roles |-> RolesOf(target[s])]]
          /\ updating' = [updating EXCEPT ![s] = RowsWanted(s)]
          /\ pc' = [pc EXCEPT ![s] = "write"]
          /\ UNCHANGED <<actor, perms, target, intent, sharing>>
     ELSE End(s)
  /\ UNCHANGED rows

\* The INSERT, DELETE or UPDATE and its triggers, which raise
\* LAST_OWNER_REQUIRED (the job: kept_last_owner) and roll back.
Write(s) ==
  /\ s \in Runtime /\ pc[s] = "write"
  /\ IF TriggersPass(intent[s])
     THEN /\ pc' = [pc EXCEPT ![s] = "commit"]
          /\ UNCHANGED <<actor, perms, target, intent, seen, locks>>
     ELSE End(s)
  /\ UNCHANGED rows

(***************************************************************************)
(* Sessions that bypass RLS: role rows inserted first, which takes no gate,*)
(* then one statement that updates or deletes, which does.                 *)
(***************************************************************************)

\* The INSERT's trigger locks the membership FOR SHARE.
InsertRole(s, m, r) ==
  /\ s \in Admins /\ pc[s] = "idle"
  /\ status[m] = "active" /\ <<m, r>> \notin roleRows
  /\ \A o \in Sessions \ {s} : m \notin updating[o]
  /\ intent' = [intent EXCEPT ![s] = Assign(m, r)]
  /\ sharing' = [sharing EXCEPT ![s] = {m}]
  /\ pc' = [pc EXCEPT ![s] = "inserted"]
  /\ UNCHANGED <<rows, actor, perms, target, seen, updating>>

AskGate(s) ==
  /\ s \in Admins /\ pc[s] \in {"idle", "inserted"}
  /\ pc' = [pc EXCEPT ![s] = "gate"]
  /\ UNCHANGED <<rows, actor, perms, target, intent, seen, locks>>

\* enforce_owner_set_lock_order: ACCESS EXCLUSIVE before the statement's rows.
LockGateExclusive(s) ==
  /\ s \in Admins /\ pc[s] = "gate" /\ ~Blocked(s)
  /\ pc' = [pc EXCEPT ![s] = "write"]
  /\ UNCHANGED <<rows, actor, perms, target, intent, seen, locks>>

\* A statement over any rows; the row triggers look when all are written.
DeleteRoles(s, ms, r) ==
  /\ s \in Admins /\ pc[s] = "write"
  /\ LET i == [grant |-> intent[s].grant, revoke |-> ms \X {r}, move |-> {}]
     IN  /\ i.revoke \subseteq roleRows \cup intent[s].grant
         /\ TriggersPass(i)
         /\ intent' = [intent EXCEPT ![s] = i]
  /\ pc' = [pc EXCEPT ![s] = "commit"]
  /\ UNCHANGED <<rows, actor, perms, target, seen, locks>>

UpdateStatus(s, ms, to) ==
  /\ s \in Admins /\ pc[s] = "write"
  /\ \A m \in ms : /\ <<status[m], to>> \in Transitions
                   /\ \A o \in Sessions \ {s} : m \notin sharing[o] \cup updating[o]
  /\ LET i == [grant |-> intent[s].grant, revoke |-> {}, move |-> ms \X {to}]
     IN  TriggersPass(i) /\ intent' = [intent EXCEPT ![s] = i]
  /\ updating' = [updating EXCEPT ![s] = ms]
  /\ pc' = [pc EXCEPT ![s] = "commit"]
  /\ UNCHANGED <<rows, actor, perms, target, seen, sharing>>

(***************************************************************************)
(* Every session.                                                          *)
(***************************************************************************)

Commit(s) ==
  /\ pc[s] \in {"inserted", "commit"}
  /\ roleRows' = RolesAfter(intent[s])
  /\ status' = StatusAfter(intent[s])
  /\ End(s)

\* ROLLBACK: an error, a lost connection, a timeout, a deadlock's victim.
Abort(s) ==
  /\ pc[s] # "idle"
  /\ End(s)
  /\ UNCHANGED rows

\* acceptInvitation commits: the membership and its role, no gate, no row.
Join(m, r) ==
  /\ status[m] = "none"
  /\ status' = [status EXCEPT ![m] = "active"]
  /\ roleRows' = roleRows \cup {<<m, r>>}
  /\ UNCHANGED <<pc, actor, perms, target, intent, seen, locks>>

RuntimeStep(s) ==
  \/ \E m \in Members : Begin(s, m) \/ BeginJob(s, m)
  \/ LockGate(s) \/ LockWorkshop(s) \/ ReadActor(s) \/ LockTarget(s) \/ Write(s)

AdminStep(s) ==
  \/ \E m \in Members, r \in Roles : InsertRole(s, m, r)
  \/ AskGate(s) \/ LockGateExclusive(s)
  \/ \E ms \in SUBSET Members :
       \/ \E r \in Roles : DeleteRoles(s, ms, r)
       \/ \E to \in {"suspended", "revoked"} : UpdateStatus(s, ms, to)

Next ==
  \/ \E s \in Sessions : RuntimeStep(s) \/ AdminStep(s) \/ Commit(s) \/ Abort(s)
  \/ \E m \in Members, r \in Roles : Join(m, r)

Spec == Init /\ [][Next]_vars

(***************************************************************************)
(* Properties.                                                             *)
(***************************************************************************)

\* Whatever transactions interleave, the workshop has an active owner.
AtLeastOneOwner == ActiveOwners # {}

\* A request changes a membership only if, when it commits, its actor is active
\* and its rows, not those the request started with, give it the permissions
\* the change and the target's current roles call for; and never its own.
AuthorizedAtCommit ==
  [][\A s \in Requests : Commit(s) =>
       /\ target[s] # actor[s]
       /\ Authorized(PermissionsOf(actor[s]), RolesOf(target[s]), intent[s])]_vars

\* The "before" of the audit row of a role or status change is what the change
\* replaces: nothing slips in between reading the target and committing.
AuditTellsTheTruth ==
  [][\A s \in Runtime : Commit(s) =>
       seen[s] = [status |-> status[target[s]], roles |-> RolesOf(target[s])]]_vars

\* A role is only ever added to a membership that is active until that moment
\* or joins at it, whoever suspends it meanwhile; and a status only moves along
\* the table of migration 0016.
GrantsOnlyToActive ==
  [][\A m \in Members :
       /\ (\E r \in Roles : <<m, r>> \in roleRows' \ roleRows) =>
            status[m] = "active" \/ (status[m] = "none" /\ status'[m] = "active")
       /\ status[m] \notin {"none", status'[m]} => <<status[m], status'[m]>> \in Transitions]_vars

\* What the data model document says of the lock hierarchy ("sin 40P01 entre
\* runtime y privilegiado"): no deadlock between the two.
NoDeadlock == \A s \in Runtime, p \in Admins : ~(Waits(s, p) /\ Waits(p, s))
=============================================================================
