-------------------------- MODULE MembershipProofs --------------------------
(***************************************************************************)
(* Theorems about MemberAdmin, for every number of members and sessions,   *)
(* and about IdentitySync and Accounts, for any subjects, addresses,       *)
(* invitations, calls, events, workers and bounds.                         *)
(*                                                                         *)
(* The argument for the administration of members: the gate and the        *)
(* workshop's row let one runtime session, or one privileged one, past its *)
(* reads at a time (Exclusion), so what it read and checked there still    *)
(* holds when it commits (Fresh, Permitted, Kept).  Only an INSERT by a    *)
(* privileged session and Join run beside it; they take nothing away       *)
(* (Plans, RowLocks).                                                      *)
(*                                                                         *)
(* The argument for identities: a call that is past its provisioning holds *)
(* the lock of its identity (Alone), under which nothing is blocked or     *)
(* deleted (Live); so the user it makes active at its COMMIT may be        *)
(* active, and the memberships a tombstone finds are all there will be.    *)
(*                                                                         *)
(* For synchronisation (NewsInv): what a run has seen is what the provider *)
(* says or something happened after its event (Observed); so the user is   *)
(* what the provider says or there is an event newer than the last one     *)
(* applied (UpToDate), and a processed job's event is applied or           *)
(* superseded (Delivered).  With every job done there is no newer event.   *)
(*                                                                         *)
(* For invitations (AccountsInv): one call at a time holds an invitation   *)
(* or enters an address in the index of pending ones (OneWriter), so what  *)
(* it has read still holds at its COMMIT (StillTrue); every membership     *)
(* has the one call it came of (Memberful).                                *)
(***************************************************************************)
EXTENDS MemberAdmin, IdentitySync, FiniteSetTheorems, TLAPS

\* A session past its start knows whom it acts for and on.
Named ==
  /\ \A s \in Requests : pc[s] \in {"gate", "workshop", "actor", "target", "write", "commit"} =>
       actor[s] \in Members
  /\ \A s \in Jobs : pc[s] \in {"gate", "workshop", "target", "write", "commit"} =>
       target[s] \in Members
  /\ \A s \in Requests : pc[s] \in {"target", "write", "commit"} => target[s] \in Members
  /\ \A s \in Runtime : pc[s] # "inserted"
  /\ \A s \in Jobs : pc[s] # "actor"
  /\ \A s \in Admins : pc[s] \in {"idle", "inserted", "gate", "write", "commit"}

TypeInv == TypeOK /\ Named

\* Who can be past the gate and past the workshop's row together.
Exclusion ==
  /\ \A s, o \in Runtime : HoldsWorkshop(s) /\ HoldsWorkshop(o) => s = o
  /\ \A a \in Admins, s \in Sessions : HoldsExclusive(a) /\ s # a =>
       ~HoldsShared(s) /\ ~HoldsExclusive(s)

\* A session without locks plans nothing; until its gated statement an admin
\* session has only inserted role rows, of memberships it keeps active by its
\* share locks.
Plans ==
  /\ \A a \in Admins : pc[a] # "commit" => intent[a].revoke = {} /\ intent[a].move = {}
  /\ \A a \in Admins, m \in Members, r \in Roles :
       <<m, r>> \in intent[a].grant => m \in sharing[a] /\ status[m] = "active"
  /\ \A a \in Admins, m \in Members, to \in Status :
       <<m, to>> \in intent[a].move =>
         m \in updating[a] /\ <<status[m], to>> \in Transitions
  /\ \A s \in Sessions : pc[s] \in {"idle", "inserted"} => updating[s] = {}

\* What a row lock keeps out.
RowLocks ==
  \A s, o \in Sessions : s # o => updating[s] \cap sharing[o] = {}

\* The active owners that writing i leaves, of statuses st and role rows rr.
Left(st, rr, i) ==
  {m \in Members : /\ st[m] = "active"
                   /\ <<m, "suspended">> \notin i.move /\ <<m, "revoked">> \notin i.move
                   /\ <<m, "owner">> \in (rr \cup i.grant) \ i.revoke}

\* What a session is about to commit leaves an active owner.
Kept == \A s \in Sessions : pc[s] = "commit" => Left(status, roleRows, intent[s]) # {}

\* Between reading the target and COMMIT nobody changes it.
Fresh ==
  \A s \in Runtime : pc[s] \in {"write", "commit"} =>
    /\ target[s] \in updating[s]
    /\ seen[s].status # "none"
    /\ seen[s] = [status |-> status[target[s]], roles |-> RolesOf(target[s])]
    /\ Applicable(seen[s].status, seen[s].roles, intent[s])

\* A request writes its target only.
OnTarget ==
  \A s \in Runtime, m \in Members :
    /\ \A r \in Roles : <<m, r>> \in intent[s].grant \cup intent[s].revoke => m = target[s]
    /\ \A to \in Status : <<m, to>> \in intent[s].move => m = target[s]

\* What member m may do, of statuses st and role rows rr.
MayDo(st, rr, m) ==
  IF st[m] = "active" THEN UNION {RolePermissions[r] : r \in {q \in Roles : <<m, q>> \in rr}}
  ELSE {}

\* The permissions a request has read can only have grown.
Permitted ==
  \A s \in Requests : pc[s] \in {"target", "write", "commit"} =>
    /\ actor[s] # target[s]
    /\ perms[s] \subseteq MayDo(status, roleRows, actor[s])
    /\ pc[s] # "target" => Authorized(perms[s], seen[s].roles, intent[s])

IInv == TypeInv /\ Exclusion /\ Plans /\ RowLocks /\ Kept /\ AtLeastOneOwner
        /\ Fresh /\ OnTarget /\ Permitted

\* What a session may plan is well-typed.
LEMMA IntentTypes ==
  /\ NoIntent \in Intents
  /\ \A m \in Members, r \in Roles : Assign(m, r) \in Intents /\ Remove(m, r) \in Intents
  /\ \A m \in Members, to \in {"suspended", "revoked"} : Become(m, to) \in Intents
<1>1. NoIntent \in Intents
  BY DEF NoIntent, Intents
<1>2. \A m \in Members, r \in Roles : Assign(m, r) \in Intents /\ Remove(m, r) \in Intents
  BY DEF Assign, Remove, Intents
<1>3. \A m \in Members, to \in {"suspended", "revoked"} : Become(m, to) \in Intents
  BY DEF Become, Intents
<1> QED
  BY <1>1, <1>2, <1>3

\* What an admin session's second statement plans is well-typed.
LEMMA StatementTypes ==
  ASSUME NEW i \in Intents, NEW ms \in SUBSET Members
  PROVE  /\ \A r \in Roles : [grant |-> i.grant, revoke |-> ms \X {r}, move |-> {}] \in Intents
         /\ \A to \in {"suspended", "revoked"} :
              [grant |-> i.grant, revoke |-> {}, move |-> ms \X {to}] \in Intents
  BY DEF Intents

\* Permissions come from the matrix.
LEMMA PermissionTypes == \A m : PermissionsOf(m) \in SUBSET Permissions
<1>1. \A r \in Roles : RolePermissions[r] \subseteq Permissions
  BY DEF Roles, RolePermissions, Permissions
<1> QED
  BY <1>1 DEF PermissionsOf, RolesOf

\* Statuses as a writer sees them are statuses.
LEMMA AfterTypes ==
  ASSUME TypeOK, NEW i \in Intents
  PROVE  /\ StatusAfter(i) \in [Members -> Status]
         /\ RolesAfter(i) \in SUBSET (Members \X Roles)
<1>1. StatusAfter(i) \in [Members -> Status]
  BY DEF TypeOK, StatusAfter, Status
<1>2. RolesAfter(i) \in SUBSET (Members \X Roles)
  BY DEF TypeOK, Intents, RolesAfter
<1> QED
  BY <1>1, <1>2

\* The end of a transaction.
LEMMA EndTypes ==
  ASSUME TypeInv, NEW s \in Sessions, End(s),
         status' \in [Members -> Status], roleRows' \in SUBSET (Members \X Roles)
  PROVE  TypeInv'
<1>1. pc' \in [Sessions -> {"idle", "inserted", "gate", "workshop", "actor", "target",
                            "write", "commit"}]
  BY DEF End, TypeInv, TypeOK
<1>2. intent' \in [Sessions -> Intents]
  BY IntentTypes DEF End, TypeInv, TypeOK
<1>3. sharing' \in [Sessions -> SUBSET Members] /\ updating' \in [Sessions -> SUBSET Members]
  BY DEF End, TypeInv, TypeOK
<1>4. actor' \in [Requests -> Members \cup {NoMember}] /\ perms' \in [Requests -> SUBSET Permissions]
  BY DEF End, TypeInv, TypeOK
<1>5. NothingSeen \in [status : Status, roles : SUBSET Roles]
  BY DEF NothingSeen, Status
<1>6. target' \in [Runtime -> Members \cup {NoMember}]
  BY DEF End, TypeInv, TypeOK
<1>7. seen' \in [Runtime -> [status : Status, roles : SUBSET Roles]]
  BY <1>5 DEF End, TypeInv, TypeOK
<1>8. \A o \in Sessions : /\ pc'[o] # "idle" => pc'[o] = pc[o] /\ o # s
                          /\ o \in Runtime /\ o # s => target'[o] = target[o]
                          /\ o \in Requests /\ o # s => actor'[o] = actor[o]
  BY DEF End, TypeInv, TypeOK
<1>9. Named'
  BY <1>1, <1>8 DEF TypeInv, Named, Runtime, Sessions, TypeOK
<1> QED
  BY <1>1, <1>2, <1>3, <1>4, <1>6, <1>7, <1>9 DEF TypeInv, TypeOK

\* Every step keeps the types.
LEMMA TypeStep ==
  ASSUME TypeInv, [Next]_vars PROVE TypeInv'
<1>1. ASSUME NEW s \in Sessions, NEW m \in Members, Begin(s, m) PROVE TypeInv'
  BY <1>1, IntentTypes, MemberAssumption DEF TypeInv, TypeOK, Named, Runtime, Sessions, Begin, rows, locks
<1>2. ASSUME NEW s \in Sessions, NEW m \in Members, BeginJob(s, m) PROVE TypeInv'
  BY <1>2, IntentTypes, MemberAssumption DEF TypeInv, TypeOK, Named, Runtime, Sessions, BeginJob, rows, locks
<1>3. ASSUME NEW s \in Sessions, LockGate(s) PROVE TypeInv'
  BY <1>3, IntentTypes, MemberAssumption DEF TypeInv, TypeOK, Named, Runtime, Sessions, LockGate, rows, locks
<1>4. ASSUME NEW s \in Sessions, LockWorkshop(s) PROVE TypeInv'
  BY <1>4, IntentTypes, MemberAssumption DEF TypeInv, TypeOK, Named, Runtime, Sessions, LockWorkshop, rows, locks
<1>5. ASSUME NEW s \in Sessions, ReadActor(s) PROVE TypeInv'
  BY <1>5, PermissionTypes, IntentTypes, MemberAssumption DEF TypeInv, TypeOK, Named, Runtime, Sessions, ReadActor, rows
<1>6. ASSUME NEW s \in Sessions, LockTarget(s) PROVE TypeInv'
  <2>0. CASE End(s)
    BY <1>6, <2>0, EndTypes DEF LockTarget, rows, TypeInv, TypeOK
  <2>1. CASE ~End(s)
    <3>1. RowsWanted(s) \in SUBSET Members
      BY <1>6 DEF LockTarget, RowsWanted, OwnerRows, TypeInv, TypeOK, Named, Runtime
    <3>2. RolesOf(target[s]) \in SUBSET Roles
      BY DEF RolesOf
    <3>3. status[target[s]] \in Status
      BY <1>6 DEF LockTarget, TypeInv, TypeOK, Named, Runtime
    <3> DEFINE sight == [status |-> status[target[s]], roles |-> RolesOf(target[s])]
    <3>4. sight \in [status : Status, roles : SUBSET Roles]
      BY <3>2, <3>3
    <3>5. /\ seen' = [seen EXCEPT ![s] = sight]
          /\ updating' = [updating EXCEPT ![s] = RowsWanted(s)]
          /\ pc' = [pc EXCEPT ![s] = "write"]
          /\ UNCHANGED <<status, roleRows, actor, perms, target, intent, sharing>>
          /\ s \in Runtime /\ pc[s] = "target"
      BY <1>6, <2>1 DEF LockTarget, rows
    <3> HIDE DEF sight
    <3> QED
      BY <3>1, <3>4, <3>5, MemberAssumption DEF TypeInv, TypeOK, Named, Runtime, Sessions
  <2> QED
    BY <2>0, <2>1
<1>7. ASSUME NEW s \in Sessions, Write(s) PROVE TypeInv'
  <2>0. CASE End(s)
    BY <1>7, <2>0, EndTypes DEF Write, rows, TypeInv, TypeOK
  <2>1. CASE ~End(s)
    BY <1>7, <2>1, MemberAssumption
    DEF TypeInv, TypeOK, Named, Runtime, Sessions, Write, rows, locks
  <2> QED
    BY <2>0, <2>1
<1>8. ASSUME NEW s \in Sessions, NEW m \in Members, NEW r \in Roles, InsertRole(s, m, r) PROVE TypeInv'
  BY <1>8, IntentTypes, MemberAssumption DEF TypeInv, TypeOK, Named, Runtime, Sessions, InsertRole, rows
<1>9. ASSUME NEW s \in Sessions, AskGate(s) PROVE TypeInv'
  BY <1>9, IntentTypes, MemberAssumption DEF TypeInv, TypeOK, Named, Runtime, Sessions, AskGate, rows, locks
<1>10. ASSUME NEW s \in Sessions, LockGateExclusive(s) PROVE TypeInv'
  BY <1>10, IntentTypes, MemberAssumption DEF TypeInv, TypeOK, Named, Runtime, Sessions, LockGateExclusive, rows, locks
<1>11. ASSUME NEW s \in Sessions, NEW ms \in SUBSET Members, NEW r \in Roles, DeleteRoles(s, ms, r) PROVE TypeInv'
  BY <1>11, StatementTypes, MemberAssumption DEF TypeInv, TypeOK, Named, Runtime, Sessions, DeleteRoles, rows, locks
<1>12. ASSUME NEW s \in Sessions, NEW ms \in SUBSET Members, NEW to \in {"suspended", "revoked"}, UpdateStatus(s, ms, to) PROVE TypeInv'
  BY <1>12, StatementTypes, MemberAssumption DEF TypeInv, TypeOK, Named, Runtime, Sessions, UpdateStatus, rows
<1>13. ASSUME NEW s \in Sessions, Commit(s) PROVE TypeInv'
  <2>1. /\ status' \in [Members -> Status]
        /\ roleRows' \in SUBSET (Members \X Roles)
    BY <1>13, AfterTypes DEF Commit, TypeInv, TypeOK
  <2> QED
    BY <1>13, <2>1, EndTypes DEF Commit
<1>14. ASSUME NEW s \in Sessions, Abort(s) PROVE TypeInv'
  BY <1>14, EndTypes DEF Abort, rows, TypeInv, TypeOK
<1>15. ASSUME NEW m \in Members, NEW r \in Roles, Join(m, r) PROVE TypeInv'
  BY <1>15, IntentTypes, MemberAssumption DEF TypeInv, TypeOK, Named, Runtime, Sessions, Join, locks, Status
<1>16. CASE UNCHANGED vars
  BY <1>16, IntentTypes, MemberAssumption DEF TypeInv, TypeOK, Named, Runtime, Sessions, vars, rows, locks
<1> QED
  BY <1>1, <1>2, <1>3, <1>4, <1>5, <1>6, <1>7, <1>8, <1>9, <1>10, <1>11, <1>12,
     <1>13, <1>14, <1>15, <1>16
  DEF Next, RuntimeStep, AdminStep

\* The gate and the workshop's row exclude each other's holders.
LEMMA ExclusionStep ==
  ASSUME TypeInv, Exclusion, [Next]_vars PROVE Exclusion'
<1>1. ASSUME NEW s \in Sessions, NEW m \in Members, Begin(s, m) PROVE Exclusion'
  BY <1>1, MemberAssumption DEF TypeInv, TypeOK, Named, Exclusion, HoldsShared, HoldsExclusive, HoldsWorkshop, Runtime, Sessions, Begin, rows, locks
<1>2. ASSUME NEW s \in Sessions, NEW m \in Members, BeginJob(s, m) PROVE Exclusion'
  BY <1>2, MemberAssumption DEF TypeInv, TypeOK, Named, Exclusion, HoldsShared, HoldsExclusive, HoldsWorkshop, Runtime, Sessions, BeginJob, rows, locks
<1>3. ASSUME NEW s \in Sessions, LockGate(s) PROVE Exclusion'
  BY <1>3, MemberAssumption DEF TypeInv, TypeOK, Named, Exclusion, HoldsShared, HoldsExclusive, HoldsWorkshop, Runtime, Sessions, LockGate, rows, locks, Blocked, Waits
<1>4. ASSUME NEW s \in Sessions, LockWorkshop(s) PROVE Exclusion'
  BY <1>4, MemberAssumption DEF TypeInv, TypeOK, Named, Exclusion, HoldsShared, HoldsExclusive, HoldsWorkshop, Runtime, Sessions, LockWorkshop, rows, locks, Blocked, Waits
<1>5. ASSUME NEW s \in Sessions, ReadActor(s) PROVE Exclusion'
  BY <1>5, MemberAssumption DEF TypeInv, TypeOK, Named, Exclusion, HoldsShared, HoldsExclusive, HoldsWorkshop, Runtime, Sessions, ReadActor, rows
<1>6. ASSUME NEW s \in Sessions, LockTarget(s) PROVE Exclusion'
  <2>1. \A o \in Sessions : pc'[o] \in {"write", "commit"} /\ pc[o] \notin {"write", "commit"}
         => o = s /\ s \in Runtime /\ pc[s] = "target"
    BY <1>6 DEF LockTarget, End, TypeInv, TypeOK
  <2>2. \A o \in Sessions : pc'[o] = pc[o] \/ pc'[o] = "idle" \/ (o = s /\ pc'[o] = "write")
    BY <1>6 DEF LockTarget, End, TypeInv, TypeOK
  <2> QED
    BY <1>6, <2>1, <2>2, MemberAssumption DEF Exclusion, HoldsShared, HoldsExclusive, HoldsWorkshop, Sessions
<1>7. ASSUME NEW s \in Sessions, Write(s) PROVE Exclusion'
  BY <1>7, MemberAssumption, SMTT(30) DEF TypeInv, TypeOK, Named, Exclusion, HoldsShared, HoldsExclusive, HoldsWorkshop, Runtime, Sessions, Write, End, rows, locks
<1>8. ASSUME NEW s \in Sessions, NEW m \in Members, NEW r \in Roles, InsertRole(s, m, r) PROVE Exclusion'
  BY <1>8, MemberAssumption DEF TypeInv, TypeOK, Named, Exclusion, HoldsShared, HoldsExclusive, HoldsWorkshop, Runtime, Sessions, InsertRole, rows
<1>9. ASSUME NEW s \in Sessions, AskGate(s) PROVE Exclusion'
  BY <1>9, MemberAssumption DEF TypeInv, TypeOK, Named, Exclusion, HoldsShared, HoldsExclusive, HoldsWorkshop, Runtime, Sessions, AskGate, rows, locks
<1>10. ASSUME NEW s \in Sessions, LockGateExclusive(s) PROVE Exclusion'
  BY <1>10, MemberAssumption DEF TypeInv, TypeOK, Named, Exclusion, HoldsShared, HoldsExclusive, HoldsWorkshop, Runtime, Sessions, LockGateExclusive, rows, locks, Blocked, Waits
<1>11. ASSUME NEW s \in Sessions, NEW ms \in SUBSET Members, NEW r \in Roles, DeleteRoles(s, ms, r) PROVE Exclusion'
  BY <1>11, MemberAssumption DEF TypeInv, TypeOK, Named, Exclusion, HoldsShared, HoldsExclusive, HoldsWorkshop, Runtime, Sessions, DeleteRoles, rows, locks
<1>12. ASSUME NEW s \in Sessions, NEW ms \in SUBSET Members, NEW to \in {"suspended", "revoked"}, UpdateStatus(s, ms, to) PROVE Exclusion'
  BY <1>12, MemberAssumption DEF TypeInv, TypeOK, Named, Exclusion, HoldsShared, HoldsExclusive, HoldsWorkshop, Runtime, Sessions, UpdateStatus, rows
<1>13. ASSUME NEW s \in Sessions, Commit(s) PROVE Exclusion'
  BY <1>13, MemberAssumption DEF TypeInv, TypeOK, Named, Exclusion, HoldsShared, HoldsExclusive, HoldsWorkshop, Runtime, Sessions, Commit, End
<1>14. ASSUME NEW s \in Sessions, Abort(s) PROVE Exclusion'
  BY <1>14, MemberAssumption DEF TypeInv, TypeOK, Named, Exclusion, HoldsShared, HoldsExclusive, HoldsWorkshop, Runtime, Sessions, Abort, End, rows
<1>15. ASSUME NEW m \in Members, NEW r \in Roles, Join(m, r) PROVE Exclusion'
  BY <1>15, MemberAssumption DEF TypeInv, TypeOK, Named, Exclusion, HoldsShared, HoldsExclusive, HoldsWorkshop, Runtime, Sessions, Join, locks
<1>16. CASE UNCHANGED vars
  BY <1>16, MemberAssumption DEF TypeInv, TypeOK, Named, Exclusion, HoldsShared, HoldsExclusive, HoldsWorkshop, Runtime, Sessions, vars, rows, locks
<1> QED
  BY <1>1, <1>2, <1>3, <1>4, <1>5, <1>6, <1>7, <1>8, <1>9, <1>10, <1>11, <1>12,
     <1>13, <1>14, <1>15, <1>16
  DEF Next, RuntimeStep, AdminStep

\* What the end of a transaction leaves alone.
LEMMA EndFrame ==
  ASSUME TypeInv, NEW s \in Sessions, End(s)
  PROVE  /\ pc'[s] = "idle" /\ intent'[s] = NoIntent /\ sharing'[s] = {} /\ updating'[s] = {}
         /\ \A o \in Sessions : o # s =>
              /\ pc'[o] = pc[o] /\ intent'[o] = intent[o]
              /\ sharing'[o] = sharing[o] /\ updating'[o] = updating[o]
         /\ \A o \in Runtime : o # s => target'[o] = target[o] /\ seen'[o] = seen[o]
         /\ \A o \in Requests : o # s => actor'[o] = actor[o] /\ perms'[o] = perms[o]
<1>1. /\ pc'[s] = "idle" /\ intent'[s] = NoIntent /\ sharing'[s] = {} /\ updating'[s] = {}
      /\ \A o \in Sessions : o # s =>
           /\ pc'[o] = pc[o] /\ intent'[o] = intent[o]
           /\ sharing'[o] = sharing[o] /\ updating'[o] = updating[o]
  BY DEF End, TypeInv, TypeOK
<1>2. \A o \in Runtime : o # s => target'[o] = target[o] /\ seen'[o] = seen[o]
  BY DEF End, TypeInv, TypeOK
<1>3. \A o \in Requests : o # s => actor'[o] = actor[o] /\ perms'[o] = perms[o]
  BY DEF End, TypeInv, TypeOK
<1> QED
  BY <1>1, <1>2, <1>3

\* What a successful read of the target does.
LEMMA TargetFrame ==
  ASSUME TypeInv, NEW s \in Sessions, LockTarget(s)
  PROVE  \/ End(s) /\ UNCHANGED rows
         \/ /\ s \in Runtime /\ pc[s] = "target" /\ ~Blocked(s)
            /\ status[target[s]] # "none" /\ MayProceed(s, target[s])
            /\ seen'[s] = [status |-> status[target[s]], roles |-> RolesOf(target[s])]
            /\ updating'[s] = RowsWanted(s) /\ pc'[s] = "write"
            /\ \A o \in Sessions : o # s => updating'[o] = updating[o] /\ pc'[o] = pc[o]
            /\ \A o \in Runtime : o # s => seen'[o] = seen[o]
            /\ UNCHANGED <<status, roleRows, actor, perms, target, intent, sharing>>
  BY DEF LockTarget, TypeInv, TypeOK, rows

\* What the statement of a runtime session does.
LEMMA WriteFrame ==
  ASSUME TypeInv, NEW s \in Sessions, Write(s)
  PROVE  \/ End(s) /\ UNCHANGED rows
         \/ /\ s \in Runtime /\ pc[s] = "write" /\ pc'[s] = "commit"
            /\ TriggersPass(intent[s])
            /\ \A o \in Sessions : o # s => pc'[o] = pc[o]
            /\ UNCHANGED <<status, roleRows, actor, perms, target, intent, seen, sharing, updating>>
  BY DEF Write, TypeInv, TypeOK, rows, locks

\* An admin session that committed only its INSERT.
LEMMA InsertedCommit ==
  ASSUME TypeInv, Plans, NEW s \in Sessions, Commit(s), pc[s] = "inserted"
  PROVE  /\ s \in Admins
         /\ status' = status
         /\ roleRows' = roleRows \cup intent[s].grant
         /\ \A m \in Members, r \in Roles :
              <<m, r>> \in roleRows' \ roleRows => m \in sharing[s] /\ status[m] = "active"
<1>1. s \in Admins
  BY DEF TypeInv, Named, Sessions
<1>2. intent[s].revoke = {} /\ intent[s].move = {}
  BY <1>1 DEF Plans
<1>3. status' = status
  BY <1>2 DEF Commit, StatusAfter, TypeInv, TypeOK
<1>4. roleRows' = roleRows \cup intent[s].grant
  BY <1>2 DEF Commit, RolesAfter
<1> QED
  BY <1>1, <1>3, <1>4 DEF Plans

\* While one session is about to commit a gated statement, no other holds the
\* workshop's row.
LEMMA SoleCommit ==
  ASSUME TypeInv, Exclusion, NEW s \in Sessions, pc[s] = "commit"
  PROVE  \A o \in Sessions : o # s => pc[o] \in {"idle", "inserted", "gate", "workshop"}
<1> SUFFICES ASSUME NEW o \in Sessions, o # s
             PROVE  pc[o] \in {"idle", "inserted", "gate", "workshop"}
  OBVIOUS
<1>1. CASE s \in Runtime /\ o \in Runtime
  BY <1>1 DEF Exclusion, HoldsWorkshop, TypeInv, TypeOK
<1>2. CASE s \in Admins \/ o \in Admins
  BY <1>2, MemberAssumption
  DEF Exclusion, HoldsShared, HoldsExclusive, TypeInv, TypeOK, Named, Sessions
<1> QED
  BY <1>1, <1>2 DEF Sessions

\* A commit moves only members whose rows are locked.
LEMMA MovedLocked ==
  ASSUME TypeInv, Exclusion, Plans, Fresh, OnTarget, NEW s \in Sessions, Commit(s)
  PROVE  \A m \in Members : status'[m] # status[m] =>
           /\ pc[s] = "commit" /\ m \in updating[s]
           /\ \E to \in {"suspended", "revoked"} : <<m, to>> \in intent[s].move /\ status'[m] = to
<1>1. \A m \in Members : status'[m] # status[m] =>
        \E to \in {"suspended", "revoked"} : <<m, to>> \in intent[s].move /\ status'[m] = to
  BY DEF Commit, StatusAfter, TypeInv, TypeOK
<1>2. CASE pc[s] = "inserted"
  BY <1>2, InsertedCommit
<1>3. CASE pc[s] = "commit" /\ s \in Admins
  BY <1>1, <1>3 DEF Plans, Status
<1>4. CASE pc[s] = "commit" /\ s \in Runtime
  BY <1>1, <1>4 DEF Fresh, OnTarget, Status
<1> QED
  BY <1>2, <1>3, <1>4 DEF Commit, Sessions

\* A row locked FOR UPDATE is locked by nobody else.
LEMMA RowLocksStep ==
  ASSUME TypeInv, RowLocks, [Next]_vars PROVE RowLocks'
<1>1. ASSUME NEW s \in Sessions, NEW m \in Members, Begin(s, m) PROVE RowLocks'
  BY <1>1, MemberAssumption DEF TypeInv, TypeOK, Named, RowLocks, Runtime, Sessions, Begin, rows, locks
<1>2. ASSUME NEW s \in Sessions, NEW m \in Members, BeginJob(s, m) PROVE RowLocks'
  BY <1>2, MemberAssumption DEF TypeInv, TypeOK, Named, RowLocks, Runtime, Sessions, BeginJob, rows, locks
<1>3. ASSUME NEW s \in Sessions, LockGate(s) PROVE RowLocks'
  BY <1>3, MemberAssumption DEF TypeInv, TypeOK, Named, RowLocks, Runtime, Sessions, LockGate, rows, locks
<1>4. ASSUME NEW s \in Sessions, LockWorkshop(s) PROVE RowLocks'
  BY <1>4, MemberAssumption DEF TypeInv, TypeOK, Named, RowLocks, Runtime, Sessions, LockWorkshop, rows, locks
<1>5. ASSUME NEW s \in Sessions, ReadActor(s) PROVE RowLocks'
  BY <1>5, MemberAssumption DEF TypeInv, TypeOK, Named, RowLocks, Runtime, Sessions, ReadActor, rows, Blocked, Waits
<1>6. ASSUME NEW s \in Sessions, LockTarget(s) PROVE RowLocks'
  <2>1. CASE End(s)
    BY <2>1, EndFrame DEF RowLocks
  <2>2. CASE ~End(s)
    <3>1. \A o \in Sessions : o # s => RowsWanted(s) \cap sharing[o] = {}
      BY <1>6, <2>2, TargetFrame DEF Blocked, Waits
    <3>2. /\ updating'[s] = RowsWanted(s) /\ sharing' = sharing
          /\ \A o \in Sessions : o # s => updating'[o] = updating[o]
      BY <1>6, <2>2, TargetFrame
    <3> QED
      BY <3>1, <3>2 DEF RowLocks
  <2> QED
    BY <2>1, <2>2
<1>7. ASSUME NEW s \in Sessions, Write(s) PROVE RowLocks'
  BY <1>7, WriteFrame, EndFrame DEF RowLocks
<1>8. ASSUME NEW s \in Sessions, NEW m \in Members, NEW r \in Roles, InsertRole(s, m, r) PROVE RowLocks'
  BY <1>8, MemberAssumption DEF TypeInv, TypeOK, Named, RowLocks, Runtime, Sessions, InsertRole, rows
<1>9. ASSUME NEW s \in Sessions, AskGate(s) PROVE RowLocks'
  BY <1>9, MemberAssumption DEF TypeInv, TypeOK, Named, RowLocks, Runtime, Sessions, AskGate, rows, locks
<1>10. ASSUME NEW s \in Sessions, LockGateExclusive(s) PROVE RowLocks'
  BY <1>10, MemberAssumption DEF TypeInv, TypeOK, Named, RowLocks, Runtime, Sessions, LockGateExclusive, rows, locks
<1>11. ASSUME NEW s \in Sessions, NEW ms \in SUBSET Members, NEW r \in Roles, DeleteRoles(s, ms, r) PROVE RowLocks'
  BY <1>11, MemberAssumption DEF TypeInv, TypeOK, Named, RowLocks, Runtime, Sessions, DeleteRoles, rows, locks
<1>12. ASSUME NEW s \in Sessions, NEW ms \in SUBSET Members, NEW to \in {"suspended", "revoked"}, UpdateStatus(s, ms, to) PROVE RowLocks'
  BY <1>12, MemberAssumption DEF TypeInv, TypeOK, Named, RowLocks, Runtime, Sessions, UpdateStatus, rows
<1>13. ASSUME NEW s \in Sessions, Commit(s) PROVE RowLocks'
  BY <1>13, EndFrame DEF Commit, RowLocks
<1>14. ASSUME NEW s \in Sessions, Abort(s) PROVE RowLocks'
  BY <1>14, EndFrame DEF Abort, RowLocks
<1>15. ASSUME NEW m \in Members, NEW r \in Roles, Join(m, r) PROVE RowLocks'
  BY <1>15, MemberAssumption DEF TypeInv, TypeOK, Named, RowLocks, Runtime, Sessions, Join, locks
<1>16. CASE UNCHANGED vars
  BY <1>16, MemberAssumption DEF TypeInv, TypeOK, Named, RowLocks, Runtime, Sessions, vars, rows, locks
<1> QED
  BY <1>1, <1>2, <1>3, <1>4, <1>5, <1>6, <1>7, <1>8, <1>9, <1>10, <1>11, <1>12,
     <1>13, <1>14, <1>15, <1>16
  DEF Next, RuntimeStep, AdminStep

\* The end of a transaction keeps the other plans.
LEMMA PlansEnd ==
  ASSUME TypeInv, Plans, NEW s \in Sessions, End(s), UNCHANGED rows PROVE Plans'
  BY EndFrame DEF Plans, NoIntent, Sessions, rows

\* Plans of admin sessions are covered by their row locks.
LEMMA PlansStep ==
  ASSUME TypeInv, Exclusion, RowLocks, Plans, OnTarget, Fresh, [Next]_vars PROVE Plans'
<1>1. ASSUME NEW s \in Sessions, NEW m \in Members, Begin(s, m) PROVE Plans'
  BY <1>1, MemberAssumption DEF TypeInv, TypeOK, Named, Plans, Runtime, Sessions, Begin, rows, locks
<1>2. ASSUME NEW s \in Sessions, NEW m \in Members, BeginJob(s, m) PROVE Plans'
  BY <1>2, MemberAssumption DEF TypeInv, TypeOK, Named, Plans, Runtime, Sessions, BeginJob, rows, locks
<1>3. ASSUME NEW s \in Sessions, LockGate(s) PROVE Plans'
  BY <1>3, MemberAssumption DEF TypeInv, TypeOK, Named, Plans, Runtime, Sessions, LockGate, rows, locks
<1>4. ASSUME NEW s \in Sessions, LockWorkshop(s) PROVE Plans'
  BY <1>4, MemberAssumption DEF TypeInv, TypeOK, Named, Plans, Runtime, Sessions, LockWorkshop, rows, locks
<1>5. ASSUME NEW s \in Sessions, ReadActor(s) PROVE Plans'
  BY <1>5, MemberAssumption DEF TypeInv, TypeOK, Named, Plans, Runtime, Sessions, ReadActor, rows
<1>6. ASSUME NEW s \in Sessions, LockTarget(s) PROVE Plans'
  <2>1. CASE End(s) /\ UNCHANGED rows
    BY <2>1, PlansEnd
  <2>2. CASE ~(End(s) /\ UNCHANGED rows)
    <3>1. s \in Runtime /\ pc'[s] = "write" /\ UNCHANGED <<status, intent, sharing>>
      BY <1>6, <2>2, TargetFrame
    <3>2. \A o \in Sessions : o # s => updating'[o] = updating[o] /\ pc'[o] = pc[o]
      BY <1>6, <2>2, TargetFrame
    <3>3. \A a \in Admins : a # s /\ a \in Sessions
      BY <3>1, MemberAssumption DEF Sessions
    <3> QED
      BY <3>1, <3>2, <3>3 DEF Plans
  <2> QED
    BY <2>1, <2>2
<1>7. ASSUME NEW s \in Sessions, Write(s) PROVE Plans'
  <2>1. CASE End(s) /\ UNCHANGED rows
    BY <2>1, PlansEnd
  <2>2. CASE ~(End(s) /\ UNCHANGED rows)
    BY <1>7, <2>2, WriteFrame, MemberAssumption DEF Plans, Sessions, TypeInv, Named
  <2> QED
    BY <2>1, <2>2
<1>8. ASSUME NEW s \in Sessions, NEW m \in Members, NEW r \in Roles, InsertRole(s, m, r) PROVE Plans'
  BY <1>8, MemberAssumption DEF TypeInv, TypeOK, Named, Plans, Runtime, Sessions, InsertRole, rows, Assign, NoIntent, RowLocks
<1>9. ASSUME NEW s \in Sessions, AskGate(s) PROVE Plans'
  BY <1>9, MemberAssumption DEF TypeInv, TypeOK, Named, Plans, Runtime, Sessions, AskGate, rows, locks
<1>10. ASSUME NEW s \in Sessions, LockGateExclusive(s) PROVE Plans'
  BY <1>10, MemberAssumption DEF TypeInv, TypeOK, Named, Plans, Runtime, Sessions, LockGateExclusive, rows, locks
<1>11. ASSUME NEW s \in Sessions, NEW ms \in SUBSET Members, NEW r \in Roles, DeleteRoles(s, ms, r) PROVE Plans'
  BY <1>11, MemberAssumption DEF TypeInv, TypeOK, Named, Plans, Runtime, Sessions, DeleteRoles, rows, locks
<1>12. ASSUME NEW s \in Sessions, NEW ms \in SUBSET Members, NEW to \in {"suspended", "revoked"}, UpdateStatus(s, ms, to) PROVE Plans'
  BY <1>12, MemberAssumption DEF TypeInv, TypeOK, Named, Plans, Runtime, Sessions, UpdateStatus, rows
<1>13. ASSUME NEW s \in Sessions, Commit(s) PROVE Plans'
  <2>1. End(s)
    BY <1>13 DEF Commit
  <2>2. ASSUME NEW a \in Admins, NEW m \in Members, NEW r \in Roles, <<m, r>> \in intent'[a].grant
        PROVE  m \in sharing'[a] /\ status'[m] = "active"
    <3>1. a # s /\ <<m, r>> \in intent[a].grant
      BY <2>1, <2>2, EndFrame DEF NoIntent, Sessions
    <3>2. m \in sharing[a] /\ status[m] = "active" /\ sharing'[a] = sharing[a]
      BY <2>1, <3>1, EndFrame DEF Plans, Sessions
    <3>3. m \notin updating[s]
      BY <3>1, <3>2 DEF RowLocks, Sessions
    <3> QED
      BY <1>13, <3>2, <3>3, MovedLocked
  <2>3. ASSUME NEW a \in Admins, NEW m \in Members, NEW to \in Status, <<m, to>> \in intent'[a].move
        PROVE  m \in updating'[a] /\ <<status'[m], to>> \in Transitions
    <3>1. a # s /\ <<m, to>> \in intent[a].move
      BY <2>1, <2>3, EndFrame DEF NoIntent, Sessions
    <3>2. pc[a] = "commit"
      BY <3>1 DEF Plans
    <3>3. pc[s] = "inserted"
      BY <1>13, <3>1, <3>2, SoleCommit DEF Commit, Sessions
    <3> QED
      BY <1>13, <2>1, <3>1, <3>3, InsertedCommit, EndFrame DEF Plans, Sessions
  <2>4. \A a \in Admins : pc'[a] # "commit" => intent'[a].revoke = {} /\ intent'[a].move = {}
    BY <2>1, EndFrame DEF Plans, NoIntent, Sessions
  <2>5. \A o \in Sessions : pc'[o] \in {"idle", "inserted"} => updating'[o] = {}
    BY <2>1, EndFrame DEF Plans
  <2> QED
    BY <2>2, <2>3, <2>4, <2>5 DEF Plans
<1>14. ASSUME NEW s \in Sessions, Abort(s) PROVE Plans'
  BY <1>14, PlansEnd DEF Abort
<1>15. ASSUME NEW m \in Members, NEW r \in Roles, Join(m, r) PROVE Plans'
  <2>1. \A o \in Members : status[o] # "none" => status'[o] = status[o]
    BY <1>15 DEF Join, TypeInv, TypeOK
  <2>2. \A to : <<"none", to>> \notin Transitions
    BY DEF Transitions
  <2> QED
    BY <1>15, <2>1, <2>2 DEF Plans, Join, locks
<1>16. CASE UNCHANGED vars
  BY <1>16, MemberAssumption DEF TypeInv, TypeOK, Named, Plans, Runtime, Sessions, vars, rows, locks
<1> QED
  BY <1>1, <1>2, <1>3, <1>4, <1>5, <1>6, <1>7, <1>8, <1>9, <1>10, <1>11, <1>12,
     <1>13, <1>14, <1>15, <1>16
  DEF Next, RuntimeStep, AdminStep

\* A runtime session plans for its target only.
LEMMA OnTargetStep ==
  ASSUME TypeInv, OnTarget, [Next]_vars PROVE OnTarget'
<1>1. ASSUME NEW s \in Sessions, NEW m \in Members, Begin(s, m) PROVE OnTarget'
  BY <1>1, MemberAssumption DEF TypeInv, TypeOK, Named, OnTarget, Runtime, Sessions, Begin, rows, locks
<1>2. ASSUME NEW s \in Sessions, NEW m \in Members, BeginJob(s, m) PROVE OnTarget'
  BY <1>2, MemberAssumption DEF TypeInv, TypeOK, Named, OnTarget, Runtime, Sessions, BeginJob, rows, locks, Become
<1>3. ASSUME NEW s \in Sessions, LockGate(s) PROVE OnTarget'
  BY <1>3, MemberAssumption DEF TypeInv, TypeOK, Named, OnTarget, Runtime, Sessions, LockGate, rows, locks
<1>4. ASSUME NEW s \in Sessions, LockWorkshop(s) PROVE OnTarget'
  BY <1>4, MemberAssumption DEF TypeInv, TypeOK, Named, OnTarget, Runtime, Sessions, LockWorkshop, rows, locks
<1>5. ASSUME NEW s \in Sessions, ReadActor(s) PROVE OnTarget'
  BY <1>5, MemberAssumption DEF TypeInv, TypeOK, Named, OnTarget, Runtime, Sessions, ReadActor, rows, Assign, Remove, Become
<1>6. ASSUME NEW s \in Sessions, LockTarget(s) PROVE OnTarget'
  <2>1. CASE End(s)
    BY <2>1, EndFrame DEF OnTarget, Sessions, NoIntent
  <2>2. CASE ~End(s)
    BY <1>6, <2>2, TargetFrame DEF OnTarget
  <2> QED
    BY <2>1, <2>2
<1>7. ASSUME NEW s \in Sessions, Write(s) PROVE OnTarget'
  BY <1>7, WriteFrame, EndFrame DEF OnTarget, Sessions, NoIntent
<1>8. ASSUME NEW s \in Sessions, NEW m \in Members, NEW r \in Roles, InsertRole(s, m, r) PROVE OnTarget'
  BY <1>8, MemberAssumption DEF TypeInv, TypeOK, Named, OnTarget, Runtime, Sessions, InsertRole, rows
<1>9. ASSUME NEW s \in Sessions, AskGate(s) PROVE OnTarget'
  BY <1>9, MemberAssumption DEF TypeInv, TypeOK, Named, OnTarget, Runtime, Sessions, AskGate, rows, locks
<1>10. ASSUME NEW s \in Sessions, LockGateExclusive(s) PROVE OnTarget'
  BY <1>10, MemberAssumption DEF TypeInv, TypeOK, Named, OnTarget, Runtime, Sessions, LockGateExclusive, rows, locks
<1>11. ASSUME NEW s \in Sessions, NEW ms \in SUBSET Members, NEW r \in Roles, DeleteRoles(s, ms, r) PROVE OnTarget'
  BY <1>11, MemberAssumption DEF TypeInv, TypeOK, Named, OnTarget, Runtime, Sessions, DeleteRoles, rows, locks
<1>12. ASSUME NEW s \in Sessions, NEW ms \in SUBSET Members, NEW to \in {"suspended", "revoked"}, UpdateStatus(s, ms, to) PROVE OnTarget'
  BY <1>12, MemberAssumption DEF TypeInv, TypeOK, Named, OnTarget, Runtime, Sessions, UpdateStatus, rows
<1>13. ASSUME NEW s \in Sessions, Commit(s) PROVE OnTarget'
  BY <1>13, EndFrame DEF Commit, OnTarget, Sessions, NoIntent
<1>14. ASSUME NEW s \in Sessions, Abort(s) PROVE OnTarget'
  BY <1>14, EndFrame DEF Abort, OnTarget, Sessions, NoIntent
<1>15. ASSUME NEW m \in Members, NEW r \in Roles, Join(m, r) PROVE OnTarget'
  BY <1>15, MemberAssumption DEF TypeInv, TypeOK, Named, OnTarget, Runtime, Sessions, Join, locks
<1>16. CASE UNCHANGED vars
  BY <1>16, MemberAssumption DEF TypeInv, TypeOK, Named, OnTarget, Runtime, Sessions, vars, rows, locks
<1> QED
  BY <1>1, <1>2, <1>3, <1>4, <1>5, <1>6, <1>7, <1>8, <1>9, <1>10, <1>11, <1>12,
     <1>13, <1>14, <1>15, <1>16
  DEF Next, RuntimeStep, AdminStep

\* What the triggers look at is what is left.
LEMMA LeftIsOwnersAfter ==
  ASSUME TypeInv, NEW i \in Intents
  PROVE  OwnersAfter(i) = Left(status, roleRows, i)
  BY DEF OwnersAfter, StatusAfter, RolesAfter, Left, TypeInv, TypeOK

\* With more rows, at least as many are left.
LEMMA LeftGrows ==
  ASSUME NEW st1, NEW st2, NEW rr1, NEW rr2, rr1 \subseteq rr2,
         \A m \in Members : st1[m] = "active" => st2[m] = "active"
  PROVE  \A i : Left(st1, rr1, i) \subseteq Left(st2, rr2, i)
  BY DEF Left

\* A statement the triggers let pass leaves an active owner.
LEMMA PassedKeeps ==
  ASSUME TypeInv, AtLeastOneOwner, NEW i \in Intents, TriggersPass(i)
  PROVE  Left(status, roleRows, i) # {}
<1>1. CASE Shrinks(i)
  BY <1>1, LeftIsOwnersAfter DEF TriggersPass
<1>2. CASE ~Shrinks(i)
  <2>1. PICK m \in Members : status[m] = "active" /\ <<m, "owner">> \in roleRows
    BY DEF AtLeastOneOwner, ActiveOwners
  <2>2. <<m, "owner">> \in RolesAfter(i)
    BY <1>2, <2>1 DEF Shrinks, RolesAfter
  <2>3. StatusAfter(i)[m] = "active"
    BY <1>2, <2>1, <2>2 DEF Shrinks
  <2> QED
    BY <2>2, <2>3, LeftIsOwnersAfter DEF OwnersAfter
<1> QED
  BY <1>1, <1>2

\* The end of a transaction that wrote nothing keeps the others' outcomes.
LEMMA KeptEnd ==
  ASSUME TypeInv, Kept, NEW s \in Sessions, End(s), UNCHANGED rows PROVE Kept'
  BY EndFrame DEF Kept, rows

\* Whoever commits next, what the others are about to commit leaves an owner.
LEMMA KeptStep ==
  ASSUME TypeInv, Exclusion, Plans, AtLeastOneOwner, Kept, [Next]_vars PROVE Kept'
<1>1. ASSUME NEW s \in Sessions, NEW m \in Members, Begin(s, m) PROVE Kept'
  BY <1>1, MemberAssumption DEF Kept, TypeInv, TypeOK, Begin, rows, locks
<1>2. ASSUME NEW s \in Sessions, NEW m \in Members, BeginJob(s, m) PROVE Kept'
  BY <1>2, MemberAssumption DEF Kept, TypeInv, TypeOK, BeginJob, rows, locks
<1>3. ASSUME NEW s \in Sessions, LockGate(s) PROVE Kept'
  BY <1>3, MemberAssumption DEF Kept, TypeInv, TypeOK, LockGate, rows, locks
<1>4. ASSUME NEW s \in Sessions, LockWorkshop(s) PROVE Kept'
  BY <1>4, MemberAssumption DEF Kept, TypeInv, TypeOK, LockWorkshop, rows, locks
<1>5. ASSUME NEW s \in Sessions, ReadActor(s) PROVE Kept'
  BY <1>5, MemberAssumption DEF Kept, TypeInv, TypeOK, ReadActor, rows
<1>6. ASSUME NEW s \in Sessions, LockTarget(s) PROVE Kept'
  <2>1. CASE End(s) /\ UNCHANGED rows
    BY <2>1, KeptEnd
  <2>2. CASE ~(End(s) /\ UNCHANGED rows)
    BY <1>6, <2>2, TargetFrame DEF Kept
  <2> QED
    BY <2>1, <2>2
<1>7. ASSUME NEW s \in Sessions, Write(s) PROVE Kept'
  <2>1. CASE End(s) /\ UNCHANGED rows
    BY <2>1, KeptEnd
  <2>2. CASE ~(End(s) /\ UNCHANGED rows)
    <3>1. Left(status, roleRows, intent[s]) # {}
      BY <1>7, <2>2, WriteFrame, PassedKeeps DEF TypeInv, TypeOK
    <3> QED
      BY <1>7, <2>2, <3>1, WriteFrame DEF Kept
  <2> QED
    BY <2>1, <2>2
<1>8. ASSUME NEW s \in Sessions, NEW m \in Members, NEW r \in Roles, InsertRole(s, m, r) PROVE Kept'
  BY <1>8, MemberAssumption DEF Kept, TypeInv, TypeOK, InsertRole, rows
<1>9. ASSUME NEW s \in Sessions, AskGate(s) PROVE Kept'
  BY <1>9, MemberAssumption DEF Kept, TypeInv, TypeOK, AskGate, rows, locks
<1>10. ASSUME NEW s \in Sessions, LockGateExclusive(s) PROVE Kept'
  BY <1>10, MemberAssumption DEF Kept, TypeInv, TypeOK, LockGateExclusive, rows, locks
<1>11. ASSUME NEW s \in Sessions, NEW ms \in SUBSET Members, NEW r \in Roles, DeleteRoles(s, ms, r) PROVE Kept'
  <2> DEFINE i == [grant |-> intent[s].grant, revoke |-> ms \X {r}, move |-> {}]
  <2>1. TriggersPass(i) /\ intent' = [intent EXCEPT ![s] = i]
        /\ pc' = [pc EXCEPT ![s] = "commit"] /\ UNCHANGED rows
    BY <1>11 DEF DeleteRoles
  <2>2. i \in Intents
    BY StatementTypes DEF TypeInv, TypeOK
  <2> HIDE DEF i
  <2>3. Left(status, roleRows, i) # {}
    BY <2>1, <2>2, PassedKeeps
  <2> QED
    BY <2>1, <2>3 DEF Kept, rows, TypeInv, TypeOK
<1>12. ASSUME NEW s \in Sessions, NEW ms \in SUBSET Members, NEW to \in {"suspended", "revoked"}, UpdateStatus(s, ms, to) PROVE Kept'
  <2> DEFINE i == [grant |-> intent[s].grant, revoke |-> {}, move |-> ms \X {to}]
  <2>1. TriggersPass(i) /\ intent' = [intent EXCEPT ![s] = i]
        /\ pc' = [pc EXCEPT ![s] = "commit"] /\ UNCHANGED rows
    BY <1>12 DEF UpdateStatus
  <2>2. i \in Intents
    BY StatementTypes DEF TypeInv, TypeOK
  <2> HIDE DEF i
  <2>3. Left(status, roleRows, i) # {}
    BY <2>1, <2>2, PassedKeeps
  <2> QED
    BY <2>1, <2>3 DEF Kept, rows, TypeInv, TypeOK
<1>13. ASSUME NEW s \in Sessions, Commit(s) PROVE Kept'
  <2>1. End(s)
    BY <1>13 DEF Commit
  <2>2. CASE pc[s] = "commit"
    BY <2>1, <2>2, SoleCommit, EndFrame DEF Kept
  <2>3. CASE pc[s] = "inserted"
    <3>1. roleRows \subseteq roleRows' /\ status' = status
      BY <1>13, <2>3, InsertedCommit
    <3>2. \A i : Left(status, roleRows, i) \subseteq Left(status', roleRows', i)
      BY <3>1, LeftGrows
    <3> QED
      BY <2>1, <3>2, EndFrame DEF Kept
  <2> QED
    BY <1>13, <2>2, <2>3 DEF Commit
<1>14. ASSUME NEW s \in Sessions, Abort(s) PROVE Kept'
  BY <1>14, KeptEnd DEF Abort
<1>15. ASSUME NEW m \in Members, NEW r \in Roles, Join(m, r) PROVE Kept'
  <2>1. roleRows \subseteq roleRows' /\ \A o \in Members : status[o] = "active" => status'[o] = "active"
    BY <1>15 DEF Join, TypeInv, TypeOK
  <2>2. \A i : Left(status, roleRows, i) \subseteq Left(status', roleRows', i)
    BY <2>1, LeftGrows
  <2>3. UNCHANGED <<pc, intent>>
    BY <1>15 DEF Join
  <2> QED
    BY <2>2, <2>3 DEF Kept
<1>16. CASE UNCHANGED vars
  BY <1>16, MemberAssumption DEF Kept, TypeInv, TypeOK, vars, rows, locks
<1> QED
  BY <1>1, <1>2, <1>3, <1>4, <1>5, <1>6, <1>7, <1>8, <1>9, <1>10, <1>11, <1>12,
     <1>13, <1>14, <1>15, <1>16
  DEF Next, RuntimeStep, AdminStep

\* Every commit leaves an active owner.
LEMMA OwnerStep ==
  ASSUME TypeInv, Plans, Kept, AtLeastOneOwner, [Next]_vars PROVE AtLeastOneOwner'
<1>1. ASSUME NEW s \in Sessions, NEW m \in Members, Begin(s, m) PROVE AtLeastOneOwner'
  BY <1>1, MemberAssumption DEF AtLeastOneOwner, ActiveOwners, Begin, rows, locks
<1>2. ASSUME NEW s \in Sessions, NEW m \in Members, BeginJob(s, m) PROVE AtLeastOneOwner'
  BY <1>2, MemberAssumption DEF AtLeastOneOwner, ActiveOwners, BeginJob, rows, locks
<1>3. ASSUME NEW s \in Sessions, LockGate(s) PROVE AtLeastOneOwner'
  BY <1>3, MemberAssumption DEF AtLeastOneOwner, ActiveOwners, LockGate, rows, locks
<1>4. ASSUME NEW s \in Sessions, LockWorkshop(s) PROVE AtLeastOneOwner'
  BY <1>4, MemberAssumption DEF AtLeastOneOwner, ActiveOwners, LockWorkshop, rows, locks
<1>5. ASSUME NEW s \in Sessions, ReadActor(s) PROVE AtLeastOneOwner'
  BY <1>5, MemberAssumption DEF AtLeastOneOwner, ActiveOwners, ReadActor, rows
<1>6. ASSUME NEW s \in Sessions, LockTarget(s) PROVE AtLeastOneOwner'
  BY <1>6 DEF LockTarget, rows, AtLeastOneOwner, ActiveOwners
<1>7. ASSUME NEW s \in Sessions, Write(s) PROVE AtLeastOneOwner'
  BY <1>7 DEF Write, rows, AtLeastOneOwner, ActiveOwners
<1>8. ASSUME NEW s \in Sessions, NEW m \in Members, NEW r \in Roles, InsertRole(s, m, r) PROVE AtLeastOneOwner'
  BY <1>8, MemberAssumption DEF AtLeastOneOwner, ActiveOwners, InsertRole, rows
<1>9. ASSUME NEW s \in Sessions, AskGate(s) PROVE AtLeastOneOwner'
  BY <1>9, MemberAssumption DEF AtLeastOneOwner, ActiveOwners, AskGate, rows, locks
<1>10. ASSUME NEW s \in Sessions, LockGateExclusive(s) PROVE AtLeastOneOwner'
  BY <1>10, MemberAssumption DEF AtLeastOneOwner, ActiveOwners, LockGateExclusive, rows, locks
<1>11. ASSUME NEW s \in Sessions, NEW ms \in SUBSET Members, NEW r \in Roles, DeleteRoles(s, ms, r) PROVE AtLeastOneOwner'
  BY <1>11, MemberAssumption DEF AtLeastOneOwner, ActiveOwners, DeleteRoles, rows, locks
<1>12. ASSUME NEW s \in Sessions, NEW ms \in SUBSET Members, NEW to \in {"suspended", "revoked"}, UpdateStatus(s, ms, to) PROVE AtLeastOneOwner'
  BY <1>12, MemberAssumption DEF AtLeastOneOwner, ActiveOwners, UpdateStatus, rows
<1>13. ASSUME NEW s \in Sessions, Commit(s) PROVE AtLeastOneOwner'
  <2>1. CASE pc[s] = "commit"
    <3>1. OwnersAfter(intent[s]) # {}
      BY <2>1, LeftIsOwnersAfter DEF Kept, TypeInv, TypeOK
    <3> QED
      BY <1>13, <3>1 DEF Commit, OwnersAfter, AtLeastOneOwner, ActiveOwners
  <2>2. CASE pc[s] = "inserted"
    BY <1>13, <2>2, InsertedCommit DEF AtLeastOneOwner, ActiveOwners
  <2> QED
    BY <1>13, <2>1, <2>2 DEF Commit
<1>14. ASSUME NEW s \in Sessions, Abort(s) PROVE AtLeastOneOwner'
  BY <1>14 DEF Abort, rows, AtLeastOneOwner, ActiveOwners
<1>15. ASSUME NEW m \in Members, NEW r \in Roles, Join(m, r) PROVE AtLeastOneOwner'
  BY <1>15 DEF Join, AtLeastOneOwner, ActiveOwners, TypeInv, TypeOK
<1>16. CASE UNCHANGED vars
  BY <1>16, MemberAssumption DEF AtLeastOneOwner, ActiveOwners, vars, rows, locks
<1> QED
  BY <1>1, <1>2, <1>3, <1>4, <1>5, <1>6, <1>7, <1>8, <1>9, <1>10, <1>11, <1>12,
     <1>13, <1>14, <1>15, <1>16
  DEF Next, RuntimeStep, AdminStep

\* The end of a transaction that wrote nothing keeps what the others have read.
LEMMA FreshEnd ==
  ASSUME TypeInv, Fresh, NEW s \in Sessions, End(s), UNCHANGED rows PROVE Fresh'
  BY EndFrame DEF Fresh, RolesOf, rows, Sessions

\* Nobody changes a target between its read and COMMIT.
LEMMA FreshStep ==
  ASSUME TypeInv, Exclusion, Plans, RowLocks, OnTarget, Fresh, [Next]_vars PROVE Fresh'
<1>1. ASSUME NEW s \in Sessions, NEW m \in Members, Begin(s, m) PROVE Fresh'
  BY <1>1, MemberAssumption DEF TypeInv, TypeOK, Named, Fresh, RolesOf, Runtime, Sessions, Begin, rows, locks
<1>2. ASSUME NEW s \in Sessions, NEW m \in Members, BeginJob(s, m) PROVE Fresh'
  BY <1>2, MemberAssumption DEF TypeInv, TypeOK, Named, Fresh, RolesOf, Runtime, Sessions, BeginJob, rows, locks
<1>3. ASSUME NEW s \in Sessions, LockGate(s) PROVE Fresh'
  BY <1>3, MemberAssumption DEF TypeInv, TypeOK, Named, Fresh, RolesOf, Runtime, Sessions, LockGate, rows, locks
<1>4. ASSUME NEW s \in Sessions, LockWorkshop(s) PROVE Fresh'
  BY <1>4, MemberAssumption DEF TypeInv, TypeOK, Named, Fresh, RolesOf, Runtime, Sessions, LockWorkshop, rows, locks
<1>5. ASSUME NEW s \in Sessions, ReadActor(s) PROVE Fresh'
  BY <1>5, MemberAssumption DEF TypeInv, TypeOK, Named, Fresh, RolesOf, Runtime, Sessions, ReadActor, rows
<1>6. ASSUME NEW s \in Sessions, LockTarget(s) PROVE Fresh'
  <2>1. CASE End(s) /\ UNCHANGED rows
    BY <2>1, FreshEnd
  <2>2. CASE ~(End(s) /\ UNCHANGED rows)
    <3>1. /\ s \in Runtime /\ status[target[s]] # "none" /\ MayProceed(s, target[s])
          /\ seen'[s] = [status |-> status[target[s]], roles |-> RolesOf(target[s])]
          /\ updating'[s] = RowsWanted(s)
          /\ \A o \in Sessions : o # s => updating'[o] = updating[o] /\ pc'[o] = pc[o]
          /\ \A o \in Runtime : o # s => seen'[o] = seen[o]
          /\ UNCHANGED <<status, roleRows, target, intent>>
      BY <1>6, <2>2, TargetFrame
    <3>2. target[s] \in RowsWanted(s)
      BY DEF RowsWanted
    <3>3. /\ seen'[s].status = status[target[s]] /\ seen'[s].roles = RolesOf(target[s])
          /\ Applicable(seen'[s].status, seen'[s].roles, intent[s])
      BY <3>1 DEF MayProceed
    <3>4. \A m \in Members : RolesOf(m)' = RolesOf(m)
      BY <3>1 DEF RolesOf
    <3>5. target[s] \in Members
      BY <1>6 DEF LockTarget, TypeInv, Named, Runtime
    <3>6. ASSUME NEW o \in Runtime, pc'[o] \in {"write", "commit"}, o # s
          PROVE  /\ target'[o] \in updating'[o]
                 /\ seen'[o].status # "none"
                 /\ seen'[o] = [status |-> status'[target'[o]], roles |-> RolesOf(target[o])']
                 /\ Applicable(seen'[o].status, seen'[o].roles, intent'[o])
      <4>1. pc[o] \in {"write", "commit"} /\ target[o] \in Members
        BY <3>1, <3>6 DEF Sessions, TypeInv, Named, Runtime
      <4> QED
        BY <3>1, <3>4, <3>6, <4>1 DEF Fresh, Sessions
    <3>7. /\ target'[s] \in updating'[s]
          /\ seen'[s].status # "none"
          /\ seen'[s] = [status |-> status'[target'[s]], roles |-> RolesOf(target[s])']
          /\ Applicable(seen'[s].status, seen'[s].roles, intent'[s])
      BY <3>1, <3>2, <3>3, <3>4, <3>5
    <3> QED
      BY <3>6, <3>7 DEF Fresh
  <2> QED
    BY <2>1, <2>2
<1>7. ASSUME NEW s \in Sessions, Write(s) PROVE Fresh'
  <2>1. CASE End(s) /\ UNCHANGED rows
    BY <2>1, FreshEnd
  <2>2. CASE ~(End(s) /\ UNCHANGED rows)
    BY <1>7, <2>2, WriteFrame DEF Fresh, RolesOf, Sessions
  <2> QED
    BY <2>1, <2>2
<1>8. ASSUME NEW s \in Sessions, NEW m \in Members, NEW r \in Roles, InsertRole(s, m, r) PROVE Fresh'
  BY <1>8, MemberAssumption DEF TypeInv, TypeOK, Named, Fresh, RolesOf, Runtime, Sessions, InsertRole, rows
<1>9. ASSUME NEW s \in Sessions, AskGate(s) PROVE Fresh'
  BY <1>9, MemberAssumption DEF TypeInv, TypeOK, Named, Fresh, RolesOf, Runtime, Sessions, AskGate, rows, locks
<1>10. ASSUME NEW s \in Sessions, LockGateExclusive(s) PROVE Fresh'
  BY <1>10, MemberAssumption DEF TypeInv, TypeOK, Named, Fresh, RolesOf, Runtime, Sessions, LockGateExclusive, rows, locks
<1>11. ASSUME NEW s \in Sessions, NEW ms \in SUBSET Members, NEW r \in Roles, DeleteRoles(s, ms, r) PROVE Fresh'
  BY <1>11, MemberAssumption DEF TypeInv, TypeOK, Named, Fresh, RolesOf, Runtime, Sessions, DeleteRoles, rows, locks
<1>12. ASSUME NEW s \in Sessions, NEW ms \in SUBSET Members, NEW to \in {"suspended", "revoked"}, UpdateStatus(s, ms, to) PROVE Fresh'
  BY <1>12, MemberAssumption DEF TypeInv, TypeOK, Named, Fresh, RolesOf, Runtime, Sessions, UpdateStatus, rows
<1>13. ASSUME NEW s \in Sessions, Commit(s) PROVE Fresh'
  <2>1. End(s)
    BY <1>13 DEF Commit
  <2>2. CASE pc[s] = "commit"
    BY <2>1, <2>2, SoleCommit, EndFrame DEF Fresh, Sessions
  <2>3. CASE pc[s] = "inserted"
    <3>1. ASSUME NEW o \in Runtime, pc'[o] \in {"write", "commit"}
          PROVE  /\ o # s /\ pc'[o] = pc[o] /\ target[o] \in Members
                 /\ RolesOf(target[o])' = RolesOf(target[o]) /\ target'[o] = target[o]
      <4>1. o # s /\ pc'[o] = pc[o] /\ target'[o] = target[o]
        BY <2>1, <3>1, EndFrame DEF Sessions
      <4>2. target[o] \in updating[o] /\ target[o] \in Members
        BY <3>1, <4>1 DEF Fresh, TypeInv, Named, Runtime
      <4>3. target[o] \notin sharing[s]
        BY <4>1, <4>2 DEF RowLocks, Sessions
      <4>4. roleRows \subseteq roleRows'
            /\ \A r \in Roles : <<target[o], r>> \in roleRows' => <<target[o], r>> \in roleRows
        BY <1>13, <2>3, <4>2, <4>3, InsertedCommit
      <4> QED
        BY <4>1, <4>2, <4>4 DEF RolesOf
    <3>2. status' = status
      BY <1>13, <2>3, InsertedCommit
    <3> QED
      BY <2>1, <3>1, <3>2, EndFrame DEF Fresh, Sessions
  <2> QED
    BY <1>13, <2>2, <2>3 DEF Commit
<1>14. ASSUME NEW s \in Sessions, Abort(s) PROVE Fresh'
  BY <1>14, FreshEnd DEF Abort
<1>15. ASSUME NEW m \in Members, NEW r \in Roles, Join(m, r) PROVE Fresh'
  <2>1. ASSUME NEW o \in Runtime, pc[o] \in {"write", "commit"}
        PROVE  target[o] # m /\ target[o] \in Members
    <3>1. target[o] \in Members
      BY <2>1 DEF TypeInv, Named, Runtime
    <3>2. status[target[o]] # "none"
      <4>1. /\ seen[o].status # "none"
            /\ seen[o] = [status |-> status[target[o]], roles |-> RolesOf(target[o])]
        BY <2>1 DEF Fresh
      <4>2. seen[o].status = status[target[o]]
        BY <4>1
      <4> QED
        BY <4>1, <4>2
    <3> QED
      BY <1>15, <3>1, <3>2 DEF Join
  <2>2. ASSUME NEW o \in Runtime, pc[o] \in {"write", "commit"}
        PROVE  RolesOf(target[o])' = RolesOf(target[o]) /\ status'[target[o]] = status[target[o]]
    BY <1>15, <2>1, <2>2 DEF Join, RolesOf, TypeInv, TypeOK
  <2> QED
    BY <1>15, <2>2 DEF Fresh, Join, locks
<1>16. CASE UNCHANGED vars
  BY <1>16, MemberAssumption DEF TypeInv, TypeOK, Named, Fresh, RolesOf, Runtime, Sessions, vars, rows, locks
<1> QED
  BY <1>1, <1>2, <1>3, <1>4, <1>5, <1>6, <1>7, <1>8, <1>9, <1>10, <1>11, <1>12,
     <1>13, <1>14, <1>15, <1>16
  DEF Next, RuntimeStep, AdminStep

\* Authority is monotone in the permissions.
LEMMA AuthorizedGrows ==
  ASSUME NEW p1, NEW p2, p1 \subseteq p2
  PROVE  \A held, i : Authorized(p1, held, i) => Authorized(p2, held, i)
  BY DEF Authorized

\* The end of a transaction that wrote nothing keeps what the others rely on.
LEMMA PermittedEnd ==
  ASSUME TypeInv, Permitted, NEW s \in Sessions, End(s), UNCHANGED rows PROVE Permitted'
<1>1. \A o \in Requests : o \in Runtime /\ o \in Sessions
  BY DEF Runtime, Sessions
<1> QED
  BY <1>1, EndFrame DEF Permitted, rows

\* What a request was permitted stays permitted.
LEMMA PermittedStep ==
  ASSUME TypeInv, Exclusion, Plans, Permitted, [Next]_vars PROVE Permitted'
<1>1. ASSUME NEW s \in Sessions, NEW m \in Members, Begin(s, m) PROVE Permitted'
  BY <1>1, MemberAssumption DEF TypeInv, TypeOK, Named, Permitted, Runtime, Sessions, Begin, rows, locks
<1>2. ASSUME NEW s \in Sessions, NEW m \in Members, BeginJob(s, m) PROVE Permitted'
  BY <1>2, MemberAssumption DEF TypeInv, TypeOK, Named, Permitted, Runtime, Sessions, BeginJob, rows, locks
<1>3. ASSUME NEW s \in Sessions, LockGate(s) PROVE Permitted'
  BY <1>3, MemberAssumption DEF TypeInv, TypeOK, Named, Permitted, Runtime, Sessions, LockGate, rows, locks
<1>4. ASSUME NEW s \in Sessions, LockWorkshop(s) PROVE Permitted'
  BY <1>4, MemberAssumption DEF TypeInv, TypeOK, Named, Permitted, Runtime, Sessions, LockWorkshop, rows, locks
<1>5. ASSUME NEW s \in Sessions, ReadActor(s) PROVE Permitted'
  <2>1. PermissionsOf(actor[s]) = MayDo(status, roleRows, actor[s])
    BY DEF PermissionsOf, RolesOf, MayDo
  <2> QED
    BY <1>5, <2>1 DEF ReadActor, Permitted, TypeInv, TypeOK, Runtime, rows
<1>6. ASSUME NEW s \in Sessions, LockTarget(s) PROVE Permitted'
  <2>1. CASE End(s) /\ UNCHANGED rows
    BY <2>1, PermittedEnd
  <2>2. CASE ~(End(s) /\ UNCHANGED rows)
    <3>1. /\ s \in Runtime /\ MayProceed(s, target[s]) /\ pc[s] = "target"
          /\ seen'[s] = [status |-> status[target[s]], roles |-> RolesOf(target[s])]
          /\ \A o \in Sessions : o # s => pc'[o] = pc[o]
          /\ \A o \in Runtime : o # s => seen'[o] = seen[o]
          /\ UNCHANGED <<status, roleRows, actor, perms, target, intent>>
      BY <1>6, <2>2, TargetFrame
    <3>2. s \in Requests => Authorized(perms[s], seen'[s].roles, intent[s])
      BY <3>1 DEF MayProceed
    <3> QED
      BY <3>1, <3>2 DEF Permitted, Runtime, Sessions
  <2> QED
    BY <2>1, <2>2
<1>7. ASSUME NEW s \in Sessions, Write(s) PROVE Permitted'
  <2>1. CASE End(s) /\ UNCHANGED rows
    BY <2>1, PermittedEnd
  <2>2. CASE ~(End(s) /\ UNCHANGED rows)
    BY <1>7, <2>2, WriteFrame DEF Permitted, Runtime, Sessions
  <2> QED
    BY <2>1, <2>2
<1>8. ASSUME NEW s \in Sessions, NEW m \in Members, NEW r \in Roles, InsertRole(s, m, r) PROVE Permitted'
  BY <1>8, MemberAssumption DEF TypeInv, TypeOK, Named, Permitted, Runtime, Sessions, InsertRole, rows
<1>9. ASSUME NEW s \in Sessions, AskGate(s) PROVE Permitted'
  BY <1>9, MemberAssumption DEF TypeInv, TypeOK, Named, Permitted, Runtime, Sessions, AskGate, rows, locks
<1>10. ASSUME NEW s \in Sessions, LockGateExclusive(s) PROVE Permitted'
  BY <1>10, MemberAssumption DEF TypeInv, TypeOK, Named, Permitted, Runtime, Sessions, LockGateExclusive, rows, locks
<1>11. ASSUME NEW s \in Sessions, NEW ms \in SUBSET Members, NEW r \in Roles, DeleteRoles(s, ms, r) PROVE Permitted'
  BY <1>11, MemberAssumption DEF TypeInv, TypeOK, Named, Permitted, Runtime, Sessions, DeleteRoles, rows, locks
<1>12. ASSUME NEW s \in Sessions, NEW ms \in SUBSET Members, NEW to \in {"suspended", "revoked"}, UpdateStatus(s, ms, to) PROVE Permitted'
  BY <1>12, MemberAssumption DEF TypeInv, TypeOK, Named, Permitted, Runtime, Sessions, UpdateStatus, rows
<1>13. ASSUME NEW s \in Sessions, Commit(s) PROVE Permitted'
  <2>0. \A o \in Requests : o \in Runtime /\ o \in Sessions
    BY DEF Runtime, Sessions
  <2>1. End(s)
    BY <1>13 DEF Commit
  <2>2. CASE pc[s] = "commit"
    BY <2>0, <2>1, <2>2, SoleCommit, EndFrame DEF Permitted
  <2>3. CASE pc[s] = "inserted"
    <3>1. roleRows \subseteq roleRows' /\ status' = status
      BY <1>13, <2>3, InsertedCommit
    <3>2. \A m : MayDo(status, roleRows, m) \subseteq MayDo(status', roleRows', m)
      BY <3>1 DEF MayDo
    <3> QED
      BY <2>0, <2>1, <3>2, EndFrame DEF Permitted
  <2> QED
    BY <1>13, <2>2, <2>3 DEF Commit
<1>14. ASSUME NEW s \in Sessions, Abort(s) PROVE Permitted'
  BY <1>14, PermittedEnd DEF Abort
<1>15. ASSUME NEW m \in Members, NEW r \in Roles, Join(m, r) PROVE Permitted'
  <2>1. /\ roleRows \subseteq roleRows'
        /\ \A o \in Members : status[o] = "active" => status'[o] = "active"
        /\ UNCHANGED <<pc, actor, perms, target, intent, seen>>
    BY <1>15 DEF Join, TypeInv, TypeOK
  <2>2. \A o \in Members : MayDo(status, roleRows, o) \subseteq MayDo(status', roleRows', o)
    BY <2>1 DEF MayDo
  <2>3. \A o \in Requests : pc[o] \in {"target", "write", "commit"} => actor[o] \in Members
    BY DEF TypeInv, Named
  <2> QED
    BY <2>1, <2>2, <2>3 DEF Permitted
<1>16. CASE UNCHANGED vars
  BY <1>16, MemberAssumption DEF TypeInv, TypeOK, Named, Permitted, Runtime, Sessions, vars, rows, locks
<1> QED
  BY <1>1, <1>2, <1>3, <1>4, <1>5, <1>6, <1>7, <1>8, <1>9, <1>10, <1>11, <1>12,
     <1>13, <1>14, <1>15, <1>16
  DEF Next, RuntimeStep, AdminStep

\* The strengthened invariant.
THEOREM Invariant == Spec => []IInv
<1>1. Init => IInv
  <2> SUFFICES ASSUME Init PROVE IInv
    OBVIOUS
  <2>1. TypeInv
    BY IntentTypes DEF Init, TypeInv, TypeOK, Named, Roles, Status, NothingSeen, Runtime, Sessions
  <2>2. Exclusion /\ RowLocks /\ Kept /\ Fresh /\ Permitted
    BY MemberAssumption DEF Init, Exclusion, RowLocks, Kept, Fresh, Permitted, HoldsShared, HoldsExclusive,
       HoldsWorkshop, Runtime, Sessions
  <2>3. Plans /\ OnTarget
    BY DEF Init, Plans, OnTarget, NoIntent, Runtime, Sessions
  <2>4. AtLeastOneOwner
    BY DEF Init, AtLeastOneOwner, ActiveOwners
  <2> QED
    BY <2>1, <2>2, <2>3, <2>4 DEF IInv
<1>2. IInv /\ [Next]_vars => IInv'
  BY TypeStep, ExclusionStep, PlansStep, RowLocksStep, KeptStep, OwnerStep, FreshStep,
     OnTargetStep, PermittedStep
  DEF IInv
<1> QED
  BY <1>1, <1>2, PTL DEF Spec

\* Every variable keeps its type.
THEOREM TypeCorrect == Spec => []TypeOK
<1>1. IInv => TypeOK
  BY DEF IInv, TypeInv
<1> QED
  BY <1>1, Invariant, PTL

\* Whatever transactions interleave, the workshop has an active owner.
THEOREM OwnerRemains == Spec => []AtLeastOneOwner
<1>1. IInv => AtLeastOneOwner
  BY DEF IInv
<1> QED
  BY <1>1, Invariant, PTL

\* A change is authorised by what the rows say when it commits.
THEOREM AuthorityHolds == Spec => AuthorizedAtCommit
<1>1. IInv => \A s \in Requests : Commit(s) =>
        /\ target[s] # actor[s]
        /\ Authorized(PermissionsOf(actor[s]), RolesOf(target[s]), intent[s])
  <2> SUFFICES ASSUME IInv, NEW s \in Requests, Commit(s)
               PROVE  /\ target[s] # actor[s]
                      /\ Authorized(PermissionsOf(actor[s]), RolesOf(target[s]), intent[s])
    OBVIOUS
  <2>1. pc[s] = "commit" /\ s \in Runtime
    BY DEF Commit, IInv, TypeInv, Named, Runtime
  <2>2. perms[s] \subseteq PermissionsOf(actor[s])
    BY <2>1 DEF IInv, Permitted, MayDo, PermissionsOf, RolesOf
  <2>3. Authorized(perms[s], RolesOf(target[s]), intent[s])
    <3>1. seen[s] = [status |-> status[target[s]], roles |-> RolesOf(target[s])]
      BY <2>1 DEF IInv, Fresh
    <3>2. seen[s].roles = RolesOf(target[s])
      BY <3>1
    <3> QED
      BY <2>1, <3>2 DEF IInv, Permitted
  <2>4. target[s] # actor[s]
    BY <2>1 DEF IInv, Permitted
  <2> QED
    BY <2>2, <2>3, <2>4, AuthorizedGrows
<1>2. IInv /\ [Next]_vars =>
        [\A s \in Requests : Commit(s) =>
           /\ target[s] # actor[s]
           /\ Authorized(PermissionsOf(actor[s]), RolesOf(target[s]), intent[s])]_vars
  BY <1>1
<1> QED
  BY <1>2, Invariant, PTL DEF Spec, AuthorizedAtCommit

\* The audit's "before" is what the change replaces.
THEOREM AuditHolds == Spec => AuditTellsTheTruth
<1>1. IInv => \A s \in Runtime : Commit(s) =>
        seen[s] = [status |-> status[target[s]], roles |-> RolesOf(target[s])]
  BY DEF IInv, TypeInv, Named, Fresh, Commit
<1>2. IInv /\ [Next]_vars =>
        [\A s \in Runtime : Commit(s) =>
           seen[s] = [status |-> status[target[s]], roles |-> RolesOf(target[s])]]_vars
  BY <1>1
<1> QED
  BY <1>2, Invariant, PTL DEF Spec, AuditTellsTheTruth

\* What a transaction may commit: roles for active memberships, legal moves.
LEMMA CommitLegal ==
  ASSUME IInv, NEW s \in Sessions, Commit(s), NEW m \in Members
  PROVE  /\ \A r \in Roles : <<m, r>> \in intent[s].grant => status[m] = "active"
         /\ \A to \in {"suspended", "revoked"} :
              <<m, to>> \in intent[s].move => <<status[m], to>> \in Transitions
<1>1. CASE s \in Admins
  BY <1>1 DEF IInv, Plans, Status
<1>2. CASE s \in Runtime
  <2>1. pc[s] = "commit"
    BY <1>2 DEF Commit, IInv, TypeInv, Named, Runtime
  <2>2. /\ seen[s] = [status |-> status[target[s]], roles |-> RolesOf(target[s])]
        /\ Applicable(seen[s].status, seen[s].roles, intent[s])
    BY <1>2, <2>1 DEF IInv, Fresh
  <2>3. seen[s].status = status[target[s]]
    BY <2>2
  <2>4. /\ \A r \in Roles : <<m, r>> \in intent[s].grant => m = target[s]
        /\ \A to \in Status : <<m, to>> \in intent[s].move => m = target[s]
    BY <1>2 DEF IInv, OnTarget
  <2> QED
    BY <2>2, <2>3, <2>4 DEF Applicable, Status
<1> QED
  BY <1>1, <1>2 DEF Sessions

\* Only COMMIT and an acceptance change a membership.
LEMMA RowChanges ==
  ASSUME [Next]_vars
  PROVE  \/ UNCHANGED rows
         \/ \E s \in Sessions : Commit(s)
         \/ \E m \in Members, r \in Roles : Join(m, r)
<1>1. ASSUME NEW s \in Sessions, RuntimeStep(s) PROVE UNCHANGED rows
  BY <1>1 DEF RuntimeStep, Begin, BeginJob, LockGate, LockWorkshop, ReadActor, LockTarget, Write, rows
<1>2. ASSUME NEW s \in Sessions, AdminStep(s) PROVE UNCHANGED rows
  BY <1>2 DEF AdminStep, InsertRole, AskGate, LockGateExclusive, DeleteRoles, UpdateStatus, rows
<1>3. ASSUME NEW s \in Sessions, Abort(s) PROVE UNCHANGED rows
  BY <1>3 DEF Abort
<1> QED
  BY <1>1, <1>2, <1>3 DEF Next, vars, rows

\* Roles go to active or joining memberships only; statuses move along the table.
THEOREM GrantsHold == Spec => GrantsOnlyToActive
<1> DEFINE Legal(m) ==
      /\ (\E r \in Roles : <<m, r>> \in roleRows' \ roleRows) =>
           status[m] = "active" \/ (status[m] = "none" /\ status'[m] = "active")
      /\ status[m] \notin {"none", status'[m]} => <<status[m], status'[m]>> \in Transitions
<1>1. IInv /\ [Next]_vars => [\A m \in Members : Legal(m)]_vars
  <2> SUFFICES ASSUME IInv, [Next]_vars, NEW m \in Members PROVE Legal(m)
    OBVIOUS
  <2>1. CASE UNCHANGED rows
    BY <2>1 DEF rows
  <2>2. ASSUME NEW s \in Sessions, Commit(s) PROVE Legal(m)
    <3>1. /\ roleRows' = (roleRows \cup intent[s].grant) \ intent[s].revoke
          /\ status'[m] = IF <<m, "revoked">> \in intent[s].move THEN "revoked"
                          ELSE IF <<m, "suspended">> \in intent[s].move THEN "suspended"
                          ELSE status[m]
      BY <2>2 DEF Commit, RolesAfter, StatusAfter
    <3>2. /\ \A r \in Roles : <<m, r>> \in intent[s].grant => status[m] = "active"
          /\ \A to \in {"suspended", "revoked"} :
               <<m, to>> \in intent[s].move => <<status[m], to>> \in Transitions
      BY <2>2, CommitLegal
    <3> QED
      BY <3>1, <3>2
  <2>3. ASSUME NEW n \in Members, NEW r \in Roles, Join(n, r) PROVE Legal(m)
    BY <2>3 DEF Join, IInv, TypeInv, TypeOK
  <2> QED
    BY <2>1, <2>2, <2>3, RowChanges
<1> QED
  BY <1>1, Invariant, PTL DEF Spec, GrantsOnlyToActive
-----------------------------------------------------------------------------
(* Deadlocks of the sessions that administer members. *)

\* Where a session may hold row locks.
RowsHeld ==
  /\ \A s \in Sessions : updating[s] # {} => pc[s] \in {"write", "commit"}
  /\ \A s \in Sessions : sharing[s] # {} => pc[s] # "idle"
  /\ \A s \in Runtime : sharing[s] # {} => pc[s] \in {"target", "write", "commit"}

LEMMA RowsHeldStep ==
  ASSUME TypeInv, RowsHeld, [Next]_vars
  PROVE  RowsHeld'
<1> USE MemberAssumption DEF TypeInv, TypeOK, Sessions, Runtime
<1>1. ASSUME NEW s \in Sessions, End(s) PROVE RowsHeld'
  <2>1. /\ pc'[s] = "idle" /\ sharing'[s] = {} /\ updating'[s] = {}
        /\ \A o \in Sessions \ {s} : /\ pc'[o] = pc[o] /\ sharing'[o] = sharing[o]
                                     /\ updating'[o] = updating[o]
    BY <1>1, EndFrame
  <2> QED
    BY <2>1 DEF RowsHeld
<1>2. ASSUME NEW s \in Sessions, NEW next, pc' = [pc EXCEPT ![s] = next], UNCHANGED locks,
             next # "idle",
             pc[s] \in {"target", "write", "commit"} => next \in {"target", "write", "commit"},
             pc[s] \in {"write", "commit"} => next \in {"write", "commit"}
      PROVE  RowsHeld'
  <2>1. /\ pc'[s] = next /\ sharing' = sharing /\ updating' = updating
        /\ \A o \in Sessions \ {s} : pc'[o] = pc[o]
    BY <1>2 DEF locks
  <2> QED
    BY <1>2, <2>1 DEF RowsHeld
<1>3. ASSUME NEW s \in Sessions, NEW m \in Members, Begin(s, m) \/ BeginJob(s, m) PROVE RowsHeld'
  <2>1. pc[s] = "idle" /\ pc' = [pc EXCEPT ![s] = "gate"] /\ UNCHANGED locks
    BY <1>3 DEF Begin, BeginJob
  <2> QED
    BY <1>2, <2>1
<1>4. ASSUME NEW s \in Sessions, LockGate(s) \/ LockWorkshop(s) PROVE RowsHeld'
  <2>1. /\ pc[s] \in {"gate", "workshop"} /\ UNCHANGED locks
        /\ \E next \in {"workshop", "target", "actor"} : pc' = [pc EXCEPT ![s] = next]
    BY <1>4 DEF LockGate, LockWorkshop
  <2> QED
    BY <1>2, <2>1
<1>5. ASSUME NEW s \in Sessions, ReadActor(s) PROVE RowsHeld'
  <2>1. /\ pc'[s] = "target" /\ updating' = updating /\ updating[s] = {}
        /\ \A o \in Sessions \ {s} : pc'[o] = pc[o] /\ sharing'[o] = sharing[o]
    BY <1>5 DEF ReadActor, RowsHeld
  <2> QED
    BY <2>1 DEF RowsHeld
<1>6. ASSUME NEW s \in Sessions, LockTarget(s) PROVE RowsHeld'
  <2>1. CASE End(s)
    BY <1>1, <2>1
  <2>2. CASE ~End(s)
    <3>1. /\ pc'[s] = "write" /\ sharing' = sharing
          /\ \A o \in Sessions \ {s} : pc'[o] = pc[o] /\ updating'[o] = updating[o]
      BY <1>6, <2>2, TargetFrame
    <3> QED
      BY <3>1 DEF RowsHeld
  <2> QED
    BY <2>1, <2>2
<1>7. ASSUME NEW s \in Sessions, Write(s) PROVE RowsHeld'
  <2>1. \/ End(s)
        \/ pc[s] = "write" /\ pc' = [pc EXCEPT ![s] = "commit"] /\ UNCHANGED locks
    BY <1>7 DEF Write
  <2> QED
    BY <1>1, <1>2, <2>1
<1>8. ASSUME NEW s \in Sessions, NEW m \in Members, NEW r \in Roles, InsertRole(s, m, r)
      PROVE  RowsHeld'
  <2>1. /\ s \in Admins /\ s \notin Runtime /\ pc[s] = "idle"
        /\ pc'[s] = "inserted" /\ updating' = updating
        /\ \A o \in Sessions \ {s} : pc'[o] = pc[o] /\ sharing'[o] = sharing[o]
    BY <1>8 DEF InsertRole
  <2> QED
    BY <2>1 DEF RowsHeld
<1>9. ASSUME NEW s \in Sessions, AskGate(s) \/ LockGateExclusive(s) PROVE RowsHeld'
  <2>1. /\ pc[s] \in {"idle", "inserted", "gate"} /\ UNCHANGED locks
        /\ \E next \in {"gate", "write"} : pc' = [pc EXCEPT ![s] = next]
    BY <1>9 DEF AskGate, LockGateExclusive
  <2> QED
    BY <1>2, <2>1
<1>10. ASSUME NEW s \in Sessions, NEW ms \in SUBSET Members,
              (\E r \in Roles : DeleteRoles(s, ms, r))
                \/ \E to \in {"suspended", "revoked"} : UpdateStatus(s, ms, to)
       PROVE  RowsHeld'
  <2>1. /\ s \in Admins /\ s \notin Runtime /\ pc'[s] = "commit" /\ sharing' = sharing
        /\ \A o \in Sessions \ {s} : pc'[o] = pc[o] /\ updating'[o] = updating[o]
    BY <1>10 DEF DeleteRoles, UpdateStatus, locks
  <2> QED
    BY <2>1 DEF RowsHeld
<1>11. ASSUME NEW s \in Sessions, Commit(s) \/ Abort(s) PROVE RowsHeld'
  BY <1>1, <1>11 DEF Commit, Abort
<1>12. CASE \E m \in Members, r \in Roles : Join(m, r)
  BY <1>12 DEF Join, locks, RowsHeld
<1>13. CASE UNCHANGED vars
  BY <1>13 DEF vars, RowsHeld
<1> QED
  BY <1>3, <1>4, <1>5, <1>6, <1>7, <1>8, <1>9, <1>10, <1>11, <1>12, <1>13
  DEF Next, RuntimeStep, AdminStep

AtWork == {s \in Sessions : pc[s] # "idle"}

\* A privileged session that waits for the gate with a membership locked.
InsertedFirst == \E a \in Admins : pc[a] = "gate" /\ sharing[a] # {}

SomeoneGoesOn == AtWork # {} => \E s \in AtWork : ~Blocked(s)

LEMMA OnlyAfterInsert ==
  ASSUME TypeInv, Exclusion, RowsHeld, ~InsertedFirst
  PROVE  SomeoneGoesOn
<1> SUFFICES ASSUME NEW c \in AtWork, \A s \in AtWork : Blocked(s) PROVE FALSE
  BY DEF SomeoneGoesOn
<1> USE DEF Sessions, Runtime
<1>1. \A s \in AtWork : pc[s] \in {"gate", "workshop", "actor", "target"}
  BY DEF Blocked, Waits
<1>2. \A o \in Sessions : ~HoldsExclusive(o) /\ updating[o] = {}
  BY <1>1 DEF AtWork, HoldsExclusive, RowsHeld
<1>3. ASSUME NEW s \in AtWork, pc[s] = "target" PROVE FALSE
  <2>1. PICK o \in Sessions : Waits(s, o)
    BY DEF Blocked
  <2>2. s \in Runtime /\ s # o /\ sharing[o] # {}
    BY <1>2, <1>3, <2>1, MemberAssumption DEF Waits
  <2>3. CASE o \in Runtime
    BY <1>3, <2>2, <2>3 DEF RowsHeld, Exclusion, HoldsWorkshop
  <2>4. CASE o \in Admins
    <3>1. o \in AtWork
      BY <2>2 DEF RowsHeld, AtWork
    <3>2. pc[o] = "gate"
      BY <1>1, <2>4, <3>1 DEF TypeInv, Named
    <3> QED
      BY <2>2, <2>4, <3>2 DEF InsertedFirst
  <2> QED
    BY <2>3, <2>4
<1>4. ASSUME NEW s \in AtWork, pc[s] = "actor" PROVE FALSE
  BY <1>2, <1>4 DEF Blocked, Waits
<1>5. \A o \in Sessions : ~HoldsWorkshop(o)
  BY <1>1, <1>3, <1>4 DEF HoldsWorkshop, AtWork
<1>6. ASSUME NEW s \in AtWork, pc[s] = "workshop" PROVE FALSE
  BY <1>5, <1>6 DEF Blocked, Waits
<1>7. \A o \in Sessions : ~HoldsShared(o)
  BY <1>1, <1>3, <1>4, <1>6 DEF HoldsShared, AtWork
<1>8. pc[c] = "gate"
  BY <1>1, <1>3, <1>4, <1>6
<1> QED
  BY <1>2, <1>7, <1>8 DEF Blocked, Waits

\* The lock hierarchy of 0013 does what it is for: requests, jobs and privileged
\* sessions, however many, never wait for each other in a circle, as long as no
\* privileged session asks for the gate after an INSERT of its own has locked a
\* membership.  That one case is the deadlock the hierarchy does not exclude.
THEOREM OnlyInsertsDeadlock == Spec => [](~InsertedFirst => SomeoneGoesOn)
<1>1. Init => RowsHeld
  BY DEF Init, RowsHeld, Sessions, Runtime
<1>2. IInv /\ RowsHeld /\ [Next]_vars => RowsHeld'
  BY RowsHeldStep DEF IInv
<1>3. IInv /\ RowsHeld => (~InsertedFirst => SomeoneGoesOn)
  BY OnlyAfterInsert DEF IInv
<1> QED
  BY <1>1, <1>2, <1>3, Invariant, PTL DEF Spec
-----------------------------------------------------------------------------
(* Identities. *)

\* An event, a job of it and a run of that job are about a subject.
Linked ==
  /\ \A e \in Events : events[e].type # "none" => events[e].who \in Subjects
  /\ \A e \in Events : jobs[e].status # "none" => events[e].who \in Subjects
  /\ \A w \in Runners : runs[w].at # "idle" =>
       runs[w].job \in Events /\ events[runs[w].job].who \in Subjects

Alone == \A s \in Subjects : \A q, r \in Callers :
           HoldsIdentity(q, s) /\ HoldsIdentity(r, s) => q = r

Live == \A s \in Subjects : \A q \in Callers : HoldsIdentity(q, s) => ~UserIsDisabled(s)

\* Only calls that hold an identity make a member.
Joins(c) == c.sets \in {"workshop", "accepted"} => c.op \in {"accept", "onboard"}

Joined == \A q \in Callers : Joins(asked[q])

\* Cardinality(Happened) is a number.
Recent == IsFiniteSet(Happened)

SyncIInv == SyncTypeOK /\ Linked /\ Recent /\ Joined /\ Alone /\ Live /\ TombstonesHold

-----------------------------------------------------------------------------
(* Calls. *)

\* A step of call q on itself alone; past its provisioning only by way of it.
Moves(q) ==
  /\ asked' \in [Callers -> Call]
  /\ \A r \in Callers : r # q => asked'[r] = asked[r]
  /\ \A s \in Subjects : HoldsIdentity(q, s)' =>
       HoldsIdentity(q, s) \/ (IdentityFree(s) /\ ~UserIsDisabled(s))
  /\ Joins(asked[q]) => Joins(asked'[q])

\* Whatever a call turns into, provided it does not enter.
LEMMA Updating ==
  ASSUME asked \in [Callers -> Call], NEW q \in Callers, NEW c \in Call,
         asked' = [asked EXCEPT ![q] = c], c.op = asked[q].op, c.who = asked[q].who
  PROVE  /\ asked' \in [Callers -> Call]
         /\ \A r \in Callers : r # q => asked'[r] = asked[r]
         /\ asked'[q] = c
OBVIOUS

LEMMA GoesEffect ==
  ASSUME asked \in [Callers -> Call], NEW q \in Callers, NEW at \in Places, Goes(q, at),
         \A s \in Subjects : HoldsIdentity(q, s) \/ at \notin {"find", "check", "write", "commit"}
            \/ asked[q].op \notin {"accept", "onboard"} \/ asked[q].who # s
            \/ (IdentityFree(s) /\ ~UserIsDisabled(s))
  PROVE  Moves(q)
<1> DEFINE c == [asked[q] EXCEPT !.at = at]
<1>1. asked[q] \in Call
  OBVIOUS
<1>2. c \in Call /\ c.at = at /\ c.op = asked[q].op /\ c.who = asked[q].who /\ c.sets = asked[q].sets
  BY <1>1 DEF Call
<1>3. asked' = [asked EXCEPT ![q] = c]
  BY DEF Goes
<1>4. /\ asked' \in [Callers -> Call]
      /\ \A r \in Callers : r # q => asked'[r] = asked[r]
      /\ asked'[q] = c
  BY <1>2, <1>3, Updating
<1> HIDE DEF c
<1> QED
  BY <1>2, <1>4 DEF Moves, HoldsIdentity, Joins

LEMMA RefuseEffect ==
  ASSUME asked \in [Callers -> Call], NEW q \in Callers, NEW answer \in Answers, Refuse(q, answer)
  PROVE  Moves(q)
<1> DEFINE c == [asked[q] EXCEPT !.at = "done", !.answer = answer]
<1>1. asked[q] \in Call /\ "done" \in Places
  BY DEF Places
<1>2. c \in Call /\ c.at = "done" /\ c.op = asked[q].op /\ c.who = asked[q].who /\ c.sets = asked[q].sets
  BY <1>1 DEF Call
<1>3. asked' = [asked EXCEPT ![q] = c]
  BY DEF Refuse
<1>4. /\ asked' \in [Callers -> Call]
      /\ \A r \in Callers : r # q => asked'[r] = asked[r]
      /\ asked'[q] = c
  BY <1>2, <1>3, Updating
<1> HIDE DEF c
<1> QED
  BY <1>2, <1>4 DEF Moves, HoldsIdentity, Joins

LEMMA WritesEffect ==
  ASSUME asked \in [Callers -> Call], NEW q \in Callers, NEW sets \in Outcomes, NEW answer \in Answers,
         Writes(q, sets, answer), asked[q].at \in {"find", "check", "write"},
         sets \in {"workshop", "accepted"} => asked[q].op \in {"accept", "onboard"}
  PROVE  Moves(q)
<1> DEFINE c == [asked[q] EXCEPT !.at = "commit", !.sets = sets, !.answer = answer]
<1>1. asked[q] \in Call /\ "commit" \in Places
  BY DEF Places
<1>2. c \in Call /\ c.at = "commit" /\ c.op = asked[q].op /\ c.who = asked[q].who /\ c.sets = sets
  BY <1>1 DEF Call
<1>3. asked' = [asked EXCEPT ![q] = c]
  BY DEF Writes
<1>4. /\ asked' \in [Callers -> Call]
      /\ \A r \in Callers : r # q => asked'[r] = asked[r]
      /\ asked'[q] = c
  BY <1>2, <1>3, Updating
<1> HIDE DEF c
<1> QED
  BY <1>2, <1>4 DEF Moves, HoldsIdentity, Joins

(* What every step of a call but its COMMIT does. *)
LEMMA ReadProfileMoves ==
  ASSUME AccountsTypeOK, NEW q \in Callers, ReadProfile(q)
  PROVE  Moves(q)
<1> DEFINE p == provider[asked[q].who]
<1>0. asked \in [Callers -> Call] /\ asked[q] \in Call
  BY DEF AccountsTypeOK
<1>1. CASE p.gone \/ p.email = None
  <2>1. Refuse(q, "IDENTITY_PROFILE_INVALID") /\ "IDENTITY_PROFILE_INVALID" \in Answers
    BY <1>1 DEF ReadProfile, Answers
  <2> QED
    BY <1>0, <2>1, RefuseEffect
<1>2. CASE ~(p.gone \/ p.email = None)
  <2> DEFINE c == [asked[q] EXCEPT !.at = "provision", !.profile = p.email]
  <2>1. asked' = [asked EXCEPT ![q] = c]
    BY <1>2 DEF ReadProfile
  <2>2. asked[q].who \in Subjects /\ "provision" \in Places
    BY <1>0 DEF Call, Places
  <2>3. p.email \in Emails \cup {None}
    BY <2>2 DEF AccountsTypeOK
  <2> HIDE DEF p
  <2>4. c \in Call /\ c.at = "provision" /\ c.op = asked[q].op /\ c.who = asked[q].who /\ c.sets = asked[q].sets
    BY <1>0, <2>2, <2>3 DEF Call
  <2>5. /\ asked' \in [Callers -> Call]
        /\ \A r \in Callers : r # q => asked'[r] = asked[r]
        /\ asked'[q] = c
    BY <1>0, <2>1, <2>4, Updating
  <2> HIDE DEF c
  <2> QED
    BY <2>4, <2>5 DEF Moves, HoldsIdentity, Joins
<1> QED
  BY <1>1, <1>2

LEMMA ProvisionMoves ==
  ASSUME AccountsTypeOK, NEW q \in Callers, Provision(q)
  PROVE  Moves(q)
<1>0. asked \in [Callers -> Call] /\ {"find", "check"} \subseteq Places /\ "USER_DISABLED" \in Answers
  BY DEF AccountsTypeOK, Places, Answers
<1>1. CASE UserIsDisabled(asked[q].who)
  BY <1>0, <1>1, RefuseEffect DEF Provision
<1>2. CASE ~UserIsDisabled(asked[q].who)
  <2> DEFINE at == IF asked[q].op = "accept" THEN "find" ELSE "check"
  <2>1. Goes(q, at) /\ IdentityFree(asked[q].who) /\ at \in Places
    BY <1>0, <1>2 DEF Provision
  <2> HIDE DEF at
  <2> QED
    BY <1>0, <1>2, <2>1, GoesEffect
<1> QED
  BY <1>1, <1>2

LEMMA FoundWorkshopMoves ==
  ASSUME AccountsTypeOK, AccountsAssumption, NEW q \in Callers, FoundWorkshop(q)
  PROVE  Moves(q)
<1>0. /\ asked \in [Callers -> Call] /\ asked[q] \in Call /\ asked[q].at = "check" /\ asked[q].op = "onboard"
      /\ {"provision", "check"} \subseteq Places /\ "workshop" \in Outcomes
      /\ {"ONBOARDING_ALREADY_COMPLETED", "created", "error"} \subseteq Answers
  BY DEF AccountsTypeOK, Places, Answers, Outcomes, FoundWorkshop
<1>1. CASE Refuse(q, "ONBOARDING_ALREADY_COMPLETED") \/ Refuse(q, "error")
  BY <1>0, <1>1, RefuseEffect
<1>2. CASE Writes(q, "workshop", "created")
  BY <1>0, <1>2, WritesEffect
<1>3. CASE /\ asked[q].attempt < SlugAttempts
           /\ asked' = [asked EXCEPT ![q] = [@ EXCEPT !.at = "provision", !.attempt = asked[q].attempt + 1]]
  <2> DEFINE c == [asked[q] EXCEPT !.at = "provision", !.attempt = asked[q].attempt + 1]
  <2>1. asked' = [asked EXCEPT ![q] = c]
    BY <1>3
  <2>0. asked[q].attempt \in 1 .. SlugAttempts
    BY <1>0 DEF Call
  <2>2. asked[q].attempt + 1 \in 1 .. SlugAttempts
    BY <1>3, <2>0 DEF AccountsAssumption
  <2>3. c \in Call /\ c.at = "provision" /\ c.op = asked[q].op /\ c.who = asked[q].who /\ c.sets = asked[q].sets
    BY <1>0, <2>2 DEF Call
  <2>4. /\ asked' \in [Callers -> Call]
        /\ \A r \in Callers : r # q => asked'[r] = asked[r]
        /\ asked'[q] = c
    BY <1>0, <2>1, <2>3, Updating
  <2> HIDE DEF c
  <2> QED
    BY <2>3, <2>4 DEF Moves, HoldsIdentity, Joins
<1> QED
  BY <1>1, <1>2, <1>3 DEF FoundWorkshop

LEMMA FindInvitationMoves ==
  ASSUME AccountsTypeOK, NEW q \in Callers, FindInvitation(q)
  PROVE  Moves(q)
<1> DEFINE wrong == Objection(q, asked[q].inv)
<1>0. /\ asked \in [Callers -> Call] /\ asked[q] \in Call
      /\ asked[q].op = "accept" /\ asked[q].at = "find"
      /\ "write" \in Places /\ {"nothing", "expired"} \subseteq Outcomes
      /\ {"IN_PROGRESS", "expired", "INVITATION_EMAIL_MISMATCH"} \subseteq Answers
  BY DEF AccountsTypeOK, Places, Answers, Outcomes, Terminal, FindInvitation
<1>1. \/ wrong \in {"nothing", "late"}
      \/ wrong \in Answers
  <2>0. CASE invited[asked[q].inv].status = "none"
    <3>1. wrong = "INVITATION_INVALID"
      BY <2>0 DEF Objection
    <3> QED
      BY <3>1 DEF Answers
  <2>1. CASE /\ invited[asked[q].inv].status # "none"
             /\ invited[asked[q].inv].email # asked[q].profile
    <3>1. wrong = "INVITATION_EMAIL_MISMATCH"
      BY <2>1 DEF Objection
    <3> QED
      BY <3>1 DEF Answers
  <2>2. CASE /\ invited[asked[q].inv].status # "none"
             /\ invited[asked[q].inv].email = asked[q].profile
             /\ invited[asked[q].inv].status \in Terminal
    <3>1. wrong = invited[asked[q].inv].status
      BY <2>2 DEF Objection
    <3> QED
      BY <2>2, <3>1 DEF Answers
  <2>3. CASE /\ invited[asked[q].inv].status # "none"
             /\ invited[asked[q].inv].email = asked[q].profile
             /\ invited[asked[q].inv].status \notin Terminal
    <3>1. wrong \in {"late", "MEMBERSHIP_ALREADY_EXISTS", "nothing"}
      BY <2>3 DEF Objection
    <3> QED
      BY <3>1 DEF Answers
  <2> QED
    BY <2>0, <2>1, <2>2, <2>3
<1>2. \/ wrong = "nothing" /\ Goes(q, "write")
      \/ Refuse(q, "IN_PROGRESS")
      \/ Writes(q, "expired", "expired")
      \/ Writes(q, "nothing", "INVITATION_EMAIL_MISMATCH")
      \/ wrong \in Answers /\ Refuse(q, wrong)
  <2> HIDE DEF wrong
  <2>1. CASE wrong \notin {"nothing", "late", "INVITATION_EMAIL_MISMATCH"}
    BY <1>1, <2>1 DEF FindInvitation, wrong
  <2>2. CASE wrong \in {"nothing", "late", "INVITATION_EMAIL_MISMATCH"}
    BY <2>2 DEF FindInvitation, wrong
  <2> QED
    BY <2>1, <2>2
<1> HIDE DEF wrong
<1>3. \A s \in Subjects : HoldsIdentity(q, s) \/ asked[q].who # s
  BY <1>0 DEF HoldsIdentity
<1> QED
  BY <1>0, <1>2, <1>3, GoesEffect, RefuseEffect, WritesEffect

LEMMA AcceptInvitationMoves ==
  ASSUME AccountsTypeOK, NEW q \in Callers, AcceptInvitation(q)
  PROVE  Moves(q)
<1>0. /\ asked \in [Callers -> Call] /\ asked[q].at = "write" /\ asked[q].op = "accept" /\ "accepted" \in Outcomes
      /\ {"IN_PROGRESS", "expired", "accepted"} \subseteq Answers
  BY DEF AccountsTypeOK, Answers, Outcomes, Terminal, AcceptInvitation
<1> QED
  BY <1>0, RefuseEffect, WritesEffect DEF AcceptInvitation

LEMMA BeginRevokeMoves ==
  ASSUME AccountsTypeOK, NEW q \in Callers, BeginRevoke(q)
  PROVE  Moves(q)
<1> DEFINE row == invited[asked[q].inv]
<1>0. /\ asked \in [Callers -> Call] /\ asked[q].op = "revoke" /\ "write" \in Places
      /\ {"INVITATION_NOT_FOUND", "expired", "INVITATION_ROLE_NOT_ALLOWED"} \cup Terminal \subseteq Answers
  BY DEF AccountsTypeOK, Answers, Places, Terminal, BeginRevoke
<1>1. \/ Goes(q, "write") \/ Refuse(q, "INVITATION_NOT_FOUND") \/ Refuse(q, "expired")
      \/ Refuse(q, "INVITATION_ROLE_NOT_ALLOWED")
      \/ row.status \in Terminal /\ Refuse(q, row.status)
  BY DEF BeginRevoke
<1> HIDE DEF row
<1> QED
  BY <1>0, <1>1, GoesEffect, RefuseEffect

LEMMA RevokeInvitationMoves ==
  ASSUME AccountsTypeOK, NEW q \in Callers, RevokeInvitation(q)
  PROVE  Moves(q)
<1>0. /\ asked \in [Callers -> Call] /\ asked[q].at = "write" /\ "revoked" \in Outcomes
      /\ {"IN_PROGRESS", "revoked"} \subseteq Answers
  BY DEF AccountsTypeOK, Answers, Outcomes, Terminal, RevokeInvitation
<1> QED
  BY <1>0, RefuseEffect, WritesEffect DEF RevokeInvitation

LEMMA ExpireOverdueMoves ==
  ASSUME AccountsTypeOK, NEW q \in Callers, ExpireOverdue(q)
  PROVE  Moves(q)
<1> DEFINE overdue == {i \in Invitations : /\ invited[i].email = asked[q].email
                                           /\ invited[i].status = "pending"
                                           /\ invited[i].due}
           c == [asked[q] EXCEPT !.at = "insert", !.drops = overdue]
<1>0. /\ asked \in [Callers -> Call] /\ asked[q] \in Call /\ asked[q].op = "create" /\ "insert" \in Places
      /\ {"INVITATION_ROLE_NOT_ALLOWED", "error"} \subseteq Answers /\ overdue \subseteq Invitations
  BY DEF AccountsTypeOK, Answers, Places, ExpireOverdue
<1>1. \/ Refuse(q, "INVITATION_ROLE_NOT_ALLOWED") \/ Refuse(q, "error")
      \/ asked' = [asked EXCEPT ![q] = c]
  BY DEF ExpireOverdue
<1> HIDE DEF overdue
<1>2. CASE asked' = [asked EXCEPT ![q] = c]
  <2>1. c \in Call /\ c.at = "insert" /\ c.op = "create" /\ c.who = asked[q].who /\ c.sets = asked[q].sets
    BY <1>0 DEF Call
  <2>2. /\ asked' \in [Callers -> Call]
        /\ \A r \in Callers : r # q => asked'[r] = asked[r]
        /\ asked'[q] = c
    BY <1>0, <1>2, <2>1, Updating
  <2> HIDE DEF c
  <2> QED
    BY <1>0, <2>1, <2>2 DEF Moves, HoldsIdentity, Joins
<1> QED
  BY <1>0, <1>1, <1>2, RefuseEffect

LEMMA CreateInvitationMoves ==
  ASSUME AccountsTypeOK, NEW q \in Callers, CreateInvitation(q)
  PROVE  Moves(q)
<1>0. /\ asked \in [Callers -> Call] /\ asked[q] \in Call /\ asked[q].op = "create" /\ "commit" \in Places
      /\ {"INVITATION_ALREADY_PENDING", "created"} \subseteq Answers /\ "created" \in Outcomes
  BY DEF AccountsTypeOK, Answers, Places, Outcomes, CreateInvitation
<1>1. CASE InsertInvitation(q)
  <2>1. PICK i \in Invitations :
          asked' = [asked EXCEPT ![q] = [@ EXCEPT !.at = "commit", !.inv = i, !.sets = "created",
                                                 !.answer = "created"]]
    BY <1>1 DEF InsertInvitation
  <2> DEFINE c == [asked[q] EXCEPT !.at = "commit", !.inv = i, !.sets = "created", !.answer = "created"]
  <2>2. asked' = [asked EXCEPT ![q] = c]
    BY <2>1
  <2>3. c \in Call /\ c.at = "commit" /\ c.op = "create" /\ c.op = asked[q].op
        /\ c.who = asked[q].who /\ c.sets = "created"
    BY <1>0 DEF Call
  <2>4. /\ asked' \in [Callers -> Call]
        /\ \A r \in Callers : r # q => asked'[r] = asked[r]
        /\ asked'[q] = c
    BY <1>0, <2>2, <2>3, Updating
  <2> HIDE DEF c
  <2> QED
    BY <2>3, <2>4 DEF Moves, HoldsIdentity, Joins
<1> QED
  BY <1>0, <1>1, RefuseEffect DEF CreateInvitation

LEMMA AbortMoves ==
  ASSUME AccountsTypeOK, NEW q \in Callers, AbortCall(q) \/ GiveUp(q)
  PROVE  Moves(q)
BY RefuseEffect DEF AbortCall, GiveUp, AccountsTypeOK, Answers

\* A call moves alone until its COMMIT.
LEMMA CallMoves ==
  ASSUME AccountsTypeOK, AccountsAssumption, NEW q \in Callers, CallStep(q), ~CommitCall(q)
  PROVE  Moves(q) /\ UNCHANGED <<provider, lifecycle, mailing, accountRows>>
<1>1. UNCHANGED <<provider, lifecycle, mailing, accountRows>>
  BY DEF CallStep, ReadProfile, Provision, FoundWorkshop, FindInvitation, AcceptInvitation, BeginRevoke,
         RevokeInvitation, ExpireOverdue, CreateInvitation, AbortCall, GiveUp
<1> QED
  BY <1>1, ReadProfileMoves, ProvisionMoves, FoundWorkshopMoves, FindInvitationMoves, AcceptInvitationMoves,
     BeginRevokeMoves, RevokeInvitationMoves, ExpireOverdueMoves, CreateInvitationMoves, AbortMoves
     DEF CallStep

-----------------------------------------------------------------------------
(* The steps of Accounts. *)

LEMMA CallPreserves ==
  ASSUME SyncIInv, AccountsAssumption, NEW q \in Callers, CallStep(q), ~CommitCall(q), UNCHANGED syncVars
  PROVE  SyncIInv'
<1>1. Moves(q) /\ UNCHANGED <<provider, lifecycle, mailing, accountRows>>
  BY CallMoves DEF SyncIInv, SyncTypeOK
<1>2. UNCHANGED <<provider, user, lifecycle, members, invited, mailing>>
  BY <1>1 DEF accountRows
<1>3. SyncTypeOK'
  BY <1>1, <1>2 DEF SyncIInv, SyncTypeOK, AccountsTypeOK, Moves, syncVars
<1>4. Linked' /\ Recent' /\ TombstonesHold'
  BY <1>2 DEF SyncIInv, Linked, Recent, Happened, TombstonesHold, MembersOf, syncVars
<1>5. \A r \in Callers : r # q => \A s \in Subjects : HoldsIdentity(r, s)' <=> HoldsIdentity(r, s)
  BY <1>1 DEF Moves, HoldsIdentity
<1>6. \A s \in Subjects : UserIsDisabled(s)' <=> UserIsDisabled(s)
  BY <1>2 DEF UserIsDisabled
<1>7. Joined'
  BY <1>1 DEF SyncIInv, Joined, Joins, Moves
<1>8. Alone'
  BY <1>1, <1>5 DEF SyncIInv, Alone, Moves, IdentityFree
<1>9. Live'
  BY <1>1, <1>5, <1>6 DEF SyncIInv, Live, Moves
<1> QED
  BY <1>3, <1>4, <1>7, <1>8, <1>9 DEF SyncIInv

LEMMA CommitPreserves ==
  ASSUME SyncIInv, NEW q \in Callers, CommitCall(q), UNCHANGED syncVars
  PROVE  SyncIInv'
<1> DEFINE who == asked[q].who
<1>1. /\ asked \in [Callers -> Call] /\ asked[q] \in Call /\ asked[q].at = "commit" /\ "done" \in Places
      /\ who \in Subjects /\ AccountsTypeOK
  BY DEF SyncIInv, SyncTypeOK, AccountsTypeOK, Call, CommitCall, Places
<1>2. Moves(q) /\ asked'[q].at = "done"
  <2>1. Goes(q, "done")
    BY DEF CommitCall
  <2>2. asked'[q].at = "done"
    BY <1>1, <2>1 DEF Goes, Call
  <2> QED
    BY <1>1, <2>1, <2>2, GoesEffect
<1>3. UNCHANGED <<provider, lifecycle, mailing>>
  BY DEF CommitCall
<1>4. user' \in [Subjects -> UserRow]
  <2>1. [status |-> "active", email |-> asked[q].profile] \in UserRow
    BY <1>1 DEF Call, UserRow
  <2> QED
    BY <1>1, <2>1 DEF CommitCall, AccountsTypeOK
<1>5. /\ members \subseteq members'
      /\ \A m \in members' \ members : /\ m = NewMember(q) /\ m \in Memberships
                                       /\ m.who = who /\ m.status = "active" /\ HoldsIdentity(q, who)
  <2>1. CASE asked[q].sets \in {"workshop", "accepted"}
    <3>1. members' = members \cup {NewMember(q)}
      BY <2>1 DEF CommitCall
    <3>2. asked[q].op \in {"accept", "onboard"}
      BY <2>1 DEF SyncIInv, Joined, Joins
    <3>3. HoldsIdentity(q, who)
      BY <1>1, <3>2 DEF HoldsIdentity
    <3>4. asked[q].inv \in Invitations \cup {None}
      BY <1>1 DEF Call
    <3>5. NewMember(q) \in Memberships /\ NewMember(q).who = who /\ NewMember(q).status = "active"
      BY <1>1, <3>4 DEF NewMember, Memberships, Shops
    <3> QED
      BY <3>1, <3>3, <3>5
  <2>2. CASE asked[q].sets \notin {"workshop", "accepted"}
    BY <2>2 DEF CommitCall
  <2> QED
    BY <2>1, <2>2
<1>6. invited' \in [Invitations -> [status : Terminal \cup {"none", "pending"},
                                    email : Emails \cup {None}, due : BOOLEAN]]
  <2> DEFINE Row == [status : Terminal \cup {"none", "pending"}, email : Emails \cup {None}, due : BOOLEAN]
             new(i) == IF i \in asked[q].drops THEN [invited[i] EXCEPT !.status = "expired"]
                       ELSE IF asked[q].inv # i THEN invited[i]
                       ELSE IF asked[q].sets \in Terminal THEN [invited[i] EXCEPT !.status = asked[q].sets]
                       ELSE IF asked[q].sets = "created"
                            THEN [status |-> "pending", email |-> asked[q].email, due |-> FALSE]
                       ELSE invited[i]
  <2>1. invited' = [i \in Invitations |-> new(i)]
    BY DEF CommitCall
  <2>2. asked[q].email \in Emails /\ "expired" \in Terminal
    BY <1>1 DEF Call, Terminal
  <2>3. \A i \in Invitations : new(i) \in Row
    <3> SUFFICES ASSUME NEW i \in Invitations PROVE new(i) \in Row
      OBVIOUS
    <3>1. invited[i] \in Row
      BY <1>1 DEF AccountsTypeOK
    <3> QED
      BY <2>2, <3>1
  <2> HIDE DEF new
  <2> QED
    BY <2>1, <2>3
<1>7. SyncTypeOK'
  BY <1>2, <1>3, <1>4, <1>5, <1>6 DEF SyncIInv, SyncTypeOK, AccountsTypeOK, Moves, syncVars
<1>8. Linked'
  BY DEF SyncIInv, Linked, syncVars
<1>8a. Recent'
  BY DEF SyncIInv, Recent, Happened, syncVars
<1>9. \A r \in Callers : r # q => \A s \in Subjects : HoldsIdentity(r, s)' <=> HoldsIdentity(r, s)
  BY <1>2 DEF Moves, HoldsIdentity
<1>10. \A s \in Subjects : ~HoldsIdentity(q, s)'
  BY <1>2 DEF HoldsIdentity
<1>11. Joined'
  BY <1>2 DEF SyncIInv, Joined, Joins, Moves
<1>12. Alone'
  BY <1>9, <1>10 DEF SyncIInv, Alone
<1>13. \A s \in Subjects : user'[s] = user[s]
         \/ (s = who /\ HoldsIdentity(q, s) /\ user[s].status = "none" /\ user'[s].status = "active")
  BY <1>1 DEF CommitCall, HoldsIdentity, AccountsTypeOK
<1>14. Live'
  BY <1>3, <1>9, <1>10, <1>13 DEF SyncIInv, Live, Alone, UserIsDisabled
<1>15. TombstonesHold'
  <2> SUFFICES ASSUME NEW s \in Subjects
               PROVE  /\ lifecycle'[s] \in {"blocked", "deleted"} => user'[s].status # "active"
                      /\ lifecycle'[s] = "deleted" =>
                           \A m \in MembersOf(s)' : m.status = "active" => m \in (revocations \cup kept)'
    BY DEF TombstonesHold
  <2>1. lifecycle'[s] \in {"blocked", "deleted"} => user'[s].status # "active"
    BY <1>3, <1>13 DEF SyncIInv, TombstonesHold, Live, UserIsDisabled
  <2>2. lifecycle'[s] = "deleted" => s # who \/ ~HoldsIdentity(q, who)
    BY <1>1, <1>3 DEF SyncIInv, Live, UserIsDisabled
  <2>3. lifecycle'[s] = "deleted" => MembersOf(s)' = MembersOf(s)
    BY <1>5, <2>2 DEF MembersOf
  <2> QED
    BY <1>3, <2>1, <2>3 DEF SyncIInv, TombstonesHold, syncVars
<1> QED
  BY <1>7, <1>8, <1>8a, <1>11, <1>12, <1>14, <1>15 DEF SyncIInv

\* Steps that leave the identities alone.
LEMMA AroundPreserves ==
  ASSUME SyncIInv, NEW i \in Invitations, PassDeadline(i) \/ BeginMailing(i) \/ EndMailing(i), UNCHANGED syncVars
  PROVE  SyncIInv'
<1>1. UNCHANGED <<provider, user, lifecycle, members, asked>>
  BY DEF PassDeadline, BeginMailing, EndMailing, accountRows
<1>2. /\ invited' \in [Invitations -> [status : Terminal \cup {"none", "pending"},
                                       email : Emails \cup {None}, due : BOOLEAN]]
      /\ mailing' \subseteq Invitations
  <2>1. CASE PassDeadline(i)
    <3> DEFINE Row == [status : Terminal \cup {"none", "pending"}, email : Emails \cup {None}, due : BOOLEAN]
    <3>1. invited \in [Invitations -> Row] /\ mailing \subseteq Invitations
      BY DEF SyncIInv, SyncTypeOK, AccountsTypeOK
    <3>2. invited' = [invited EXCEPT ![i] = [invited[i] EXCEPT !.due = TRUE]] /\ mailing' = mailing
      BY <2>1 DEF PassDeadline
    <3>3. [invited[i] EXCEPT !.due = TRUE] \in Row
      BY <3>1
    <3> HIDE DEF Row
    <3>4. invited' \in [Invitations -> Row]
      BY <3>1, <3>2, <3>3
    <3> QED
      BY <3>1, <3>2, <3>4 DEF Row
  <2>2. CASE BeginMailing(i) \/ EndMailing(i)
    BY <2>2 DEF BeginMailing, EndMailing, accountRows, SyncIInv, SyncTypeOK, AccountsTypeOK
  <2> QED
    BY <2>1, <2>2
<1>3. SyncTypeOK'
  BY <1>1, <1>2 DEF SyncIInv, SyncTypeOK, AccountsTypeOK, syncVars
<1>4. Linked' /\ Recent' /\ Joined' /\ TombstonesHold'
  BY <1>1 DEF SyncIInv, Linked, Recent, Happened, Joined, Joins, TombstonesHold, MembersOf, syncVars
<1>5. Alone' /\ Live'
  BY <1>1 DEF SyncIInv, Alone, Live, HoldsIdentity, UserIsDisabled
<1> QED
  BY <1>3, <1>4, <1>5 DEF SyncIInv

-----------------------------------------------------------------------------
(* The steps of the synchronisation. *)

\* What a step leaves true when it touches neither users, nor calls.
LEMMA AccountsApart ==
  ASSUME SyncIInv, UNCHANGED <<user, lifecycle, members, asked>>, SyncTypeOK', Linked', Recent',
         \A m \in members : m \in revocations \cup kept => m \in (revocations \cup kept)'
  PROVE  SyncIInv'
<1>1. Joined' /\ TombstonesHold'
  BY DEF SyncIInv, Joined, Joins, TombstonesHold, MembersOf
<1>2. Alone' /\ Live'
  BY DEF SyncIInv, Alone, Live, HoldsIdentity, UserIsDisabled
<1> QED
  BY <1>1, <1>2 DEF SyncIInv

LEMMA HappensPreserves ==
  ASSUME SyncIInv, NEW s \in Subjects, NEW type \in {"changed", "deleted"},
         NEW profile \in [email : Emails \cup {None}, banned : BOOLEAN, gone : BOOLEAN],
         Happens(s, type, profile)
  PROVE  SyncIInv'
<1>1. PICK e \in Events \ Happened, t \in Moments :
        events' = [events EXCEPT ![e] = [who |-> s, type |-> type, time |-> t]]
  BY DEF Happens
<1>2. /\ UNCHANGED <<user, lifecycle, members, invited, mailing, asked>>
      /\ UNCHANGED <<hooks, conflicts, jobs, runs, applied, revocations, kept>>
      /\ provider' = [provider EXCEPT ![s] = profile]
  BY DEF Happens, accountRows
<1>3. t \in Nat
  BY FS_CardinalityType DEF Moments, SyncIInv, Recent
<1>4. SyncTypeOK'
  <2>1. [who |-> s, type |-> type, time |-> t]
          \in [who : Subjects \cup {None}, type : {"none", "changed", "deleted"}, time : Nat]
    BY <1>3
  <2>2. events' \in [Events -> [who : Subjects \cup {None}, type : {"none", "changed", "deleted"}, time : Nat]]
    BY <1>1, <2>1 DEF SyncIInv, SyncTypeOK
  <2>3. provider' \in [Subjects -> [email : Emails \cup {None}, banned : BOOLEAN, gone : BOOLEAN]]
    BY <1>2 DEF SyncIInv, SyncTypeOK, AccountsTypeOK
  <2> QED
    BY <1>2, <2>2, <2>3 DEF SyncIInv, SyncTypeOK, AccountsTypeOK
<1>5. /\ \A d \in Events : d # e => events'[d] = events[d]
      /\ events'[e].who = s /\ events'[e].type = type
  BY <1>1 DEF SyncIInv, SyncTypeOK
<1>6. Linked'
  BY <1>2, <1>5 DEF SyncIInv, Linked
<1>7. Recent'
  <2>1. Happened' = Happened \cup {e}
    BY <1>5 DEF Happened
  <2> QED
    BY <2>1, FS_AddElement DEF SyncIInv, Recent
<1> QED
  BY <1>2, <1>4, <1>6, <1>7, AccountsApart

LEMMA JobRows ==
  ASSUME SyncTypeOK, NEW e \in Events, NEW state \in {"pending", "processed", "dead"},
         jobs' = [jobs EXCEPT ![e].status = state]
  PROVE  jobs' \in [Events -> JobRow]
<1>1. jobs \in [Events -> JobRow]
  BY DEF SyncTypeOK
<1>2. [jobs[e] EXCEPT !.status = state] \in JobRow
  BY <1>1 DEF JobRow
<1>3. jobs' = [jobs EXCEPT ![e] = [jobs[e] EXCEPT !.status = state]]
  OBVIOUS
<1> QED
  BY <1>1, <1>2, <1>3

LEMMA IngestPreserves ==
  ASSUME SyncIInv, NEW e \in Events, NEW h \in Hashes, Ingest(e, h)
  PROVE  SyncIInv'
<1>1. /\ UNCHANGED <<provider, user, lifecycle, members, invited, mailing, asked>>
      /\ UNCHANGED <<events, runs, applied, revocations, kept>>
      /\ events[e].type # "none"
  BY DEF Ingest, accountVars, Happened
<1>2. SyncTypeOK'
  <2>1. jobs' \in [Events -> JobRow]
    BY JobRows DEF Ingest, SyncIInv, SyncTypeOK
  <2>2. hooks' \in [Events -> Hashes \cup {None}] /\ conflicts' \subseteq Events
    BY DEF Ingest, SyncIInv, SyncTypeOK
  <2>3. AccountsTypeOK'
    BY <1>1 DEF SyncIInv, SyncTypeOK, AccountsTypeOK
  <2> QED
    BY <1>1, <2>1, <2>2, <2>3 DEF SyncIInv, SyncTypeOK
<1>3. \A d \in Events : jobs'[d].status # "none" => d = e \/ jobs[d].status # "none"
  BY DEF Ingest, SyncIInv, SyncTypeOK
<1>4. Linked' /\ Recent'
  BY <1>1, <1>3 DEF SyncIInv, Linked, Recent, Happened
<1> QED
  BY <1>1, <1>2, <1>4, AccountsApart

LEMMA StallPreserves ==
  ASSUME SyncIInv, NEW e \in Events, StallJob(e)
  PROVE  SyncIInv'
<1>1. /\ UNCHANGED <<provider, user, lifecycle, members, invited, mailing, asked>>
      /\ UNCHANGED <<events, hooks, conflicts, runs, applied, revocations, kept>>
  BY DEF StallJob, accountVars
<1>2. SyncTypeOK'
  <2>1. jobs' \in [Events -> JobRow]
    BY JobRows DEF StallJob, SyncIInv
  <2>2. AccountsTypeOK'
    BY <1>1 DEF SyncIInv, SyncTypeOK, AccountsTypeOK
  <2> QED
    BY <1>1, <2>1, <2>2 DEF SyncIInv, SyncTypeOK
<1>3. \A d \in Events : jobs'[d].status # "none" => jobs[d].status # "none"
  BY DEF StallJob, SyncIInv, SyncTypeOK
<1>4. Linked' /\ Recent'
  BY <1>1, <1>3 DEF SyncIInv, Linked, Recent, Happened
<1> QED
  BY <1>1, <1>2, <1>4, AccountsApart

LEMMA ClaimPreserves ==
  ASSUME SyncIInv, NEW w \in Runners, NEW e \in Events, ClaimJob(w, e)
  PROVE  SyncIInv'
<1>1. /\ UNCHANGED <<provider, user, lifecycle, members, invited, mailing, asked>>
      /\ UNCHANGED <<events, hooks, conflicts, applied, revocations, kept>>
      /\ jobs[e].status = "pending" /\ events[e].who \in Subjects
  BY DEF ClaimJob, accountVars, SyncIInv, Linked
<1>2. jobs[e].claims \in Nat /\ Unseen \in Observations
  BY DEF SyncIInv, SyncTypeOK, JobRow, Unseen, Observations
<1>3. /\ [status |-> "processing", claims |-> jobs[e].claims + 1]
           \in JobRow
      /\ [job |-> e, at |-> "classify", claim |-> jobs[e].claims + 1, seen |-> Unseen]
           \in Run
  BY <1>2 DEF JobRow, Run
<1>4. /\ jobs' = [jobs EXCEPT ![e] = [status |-> "processing", claims |-> jobs[e].claims + 1]]
      /\ runs' = [runs EXCEPT ![w] = [job |-> e, at |-> "classify", claim |-> jobs[e].claims + 1, seen |-> Unseen]]
  BY DEF ClaimJob
<1>5. SyncTypeOK'
  BY <1>1, <1>3, <1>4 DEF SyncIInv, SyncTypeOK, AccountsTypeOK
<1>6. /\ \A d \in Events : d = e \/ jobs'[d] = jobs[d]
      /\ \A v \in Runners : v # w => runs'[v] = runs[v]
      /\ runs'[w].job = e
  BY <1>4 DEF SyncIInv, SyncTypeOK
<1>7. Linked' /\ Recent'
  BY <1>1, <1>6 DEF SyncIInv, Linked, Recent, Happened
<1> QED
  BY <1>1, <1>5, <1>7, AccountsApart

\* The end of a run, whatever became of its job.
LEMMA JobEndsEffect ==
  ASSUME SyncTypeOK, Linked, NEW e \in Events, NEW state \in {"pending", "processed", "dead"}, JobEnds(e, state)
  PROVE  /\ jobs' \in [Events -> JobRow]
         /\ \A d \in Events : jobs'[d].status # "none" => jobs[d].status # "none"
<1>1. CASE jobs[e].status = "processing"
  <2>1. jobs' = [jobs EXCEPT ![e].status = state]
    BY <1>1 DEF JobEnds
  <2>2. jobs' \in [Events -> JobRow]
    BY <2>1, JobRows
  <2>3. \A d \in Events : d # e => jobs'[d] = jobs[d]
    BY <2>1 DEF SyncTypeOK
  <2> QED
    BY <1>1, <2>2, <2>3
<1>2. CASE jobs[e].status # "processing"
  BY <1>2 DEF JobEnds, SyncTypeOK
<1> QED
  BY <1>1, <1>2

LEMMA RestEffect ==
  ASSUME SyncTypeOK, NEW w \in Runners, Rest(w)
  PROVE  /\ runs' \in [Runners -> Run]
         /\ \A v \in Runners : v # w => runs'[v] = runs[v]
         /\ runs'[w].at = "idle"
<1>1. [job |-> None, at |-> "idle", claim |-> 0, seen |-> Unseen] \in Run
  BY DEF Run, Unseen, Observations
<1> QED
  BY <1>1 DEF SyncTypeOK, Rest

LEMMA KnowsEffect ==
  ASSUME SyncTypeOK, NEW w \in Runners, NEW at \in {"fetch", "apply"}, NEW view \in Observations,
         Knows(w, at, view)
  PROVE  /\ runs' \in [Runners -> Run]
         /\ \A v \in Runners : v # w => runs'[v] = runs[v]
         /\ runs'[w].job = runs[w].job
<1> DEFINE r == [runs[w] EXCEPT !.at = at, !.seen = view]
<1>1. runs' = [runs EXCEPT ![w] = r]
  BY DEF Knows
<1>2. r \in Run /\ r.job = runs[w].job
  BY DEF SyncTypeOK, Run
<1> HIDE DEF r
<1> QED
  BY <1>1, <1>2 DEF SyncTypeOK

LEMMA FailPreserves ==
  ASSUME SyncIInv, NEW w \in Runners, FailRun(w)
  PROVE  SyncIInv'
<1>1. /\ UNCHANGED <<provider, user, lifecycle, members, invited, mailing, asked>>
      /\ UNCHANGED <<events, hooks, conflicts, applied, revocations, kept>>
      /\ Rest(w) /\ runs[w].job \in Events
  BY DEF FailRun, accountVars, SyncIInv, Linked
<1>2. PICK state \in {"pending", "processed", "dead"} : JobEnds(runs[w].job, state)
  BY DEF FailRun
<1>3. /\ jobs' \in [Events -> JobRow]
      /\ \A d \in Events : jobs'[d].status # "none" => jobs[d].status # "none"
  BY <1>1, <1>2, JobEndsEffect DEF SyncIInv
<1>4. /\ runs' \in [Runners -> Run]
      /\ \A v \in Runners : v # w => runs'[v] = runs[v]
      /\ runs'[w].at = "idle"
  BY <1>1, RestEffect DEF SyncIInv
<1>5. SyncTypeOK'
  BY <1>1, <1>3, <1>4 DEF SyncIInv, SyncTypeOK, AccountsTypeOK
<1>6. Linked' /\ Recent'
  BY <1>1, <1>3, <1>4 DEF SyncIInv, Linked, Recent, Happened
<1> QED
  BY <1>1, <1>5, <1>6, AccountsApart

LEMMA AskPreserves ==
  ASSUME SyncIInv, NEW w \in Runners, Classify(w) \/ Fetch(w)
  PROVE  SyncIInv'
<1>1. /\ UNCHANGED <<provider, user, lifecycle, members, invited, mailing, asked>>
      /\ UNCHANGED <<events, hooks, conflicts, jobs, applied, revocations, kept>>
      /\ runs[w].at # "idle" /\ runs[w].job \in Events /\ events[runs[w].job].who \in Subjects
  BY DEF Classify, Fetch, accountVars, SyncIInv, Linked
<1>2. PICK at \in {"fetch", "apply"}, view \in Observations : Knows(w, at, view)
  <2>1. CASE Classify(w)
    <3>1. /\ Unseen \in Observations
          /\ [Unseen EXCEPT !.kind = "skip"] \in Observations
          /\ [Unseen EXCEPT !.kind = "deleted"] \in Observations
      BY DEF Unseen, Observations
    <3> QED
      BY <2>1, <3>1 DEF Classify
  <2>2. CASE Fetch(w)
    <3> DEFINE p == provider[events[runs[w].job].who]
    <3>1. p.email \in Emails \cup {None} /\ p.banned \in BOOLEAN
      BY <1>1 DEF SyncIInv, SyncTypeOK, AccountsTypeOK
    <3>2. /\ [Unseen EXCEPT !.kind = "not_found"] \in Observations
          /\ [kind |-> "snapshot", email |-> p.email, banned |-> p.banned] \in Observations
      BY <3>1 DEF Unseen, Observations
    <3> QED
      BY <2>2, <3>2 DEF Fetch
  <2> QED
    BY <2>1, <2>2
<1>3. /\ runs' \in [Runners -> Run]
      /\ \A v \in Runners : v # w => runs'[v] = runs[v]
      /\ runs'[w].job = runs[w].job
  BY <1>2, KnowsEffect DEF SyncIInv
<1>4. SyncTypeOK'
  BY <1>1, <1>3 DEF SyncIInv, SyncTypeOK, AccountsTypeOK
<1>5. Linked' /\ Recent'
  BY <1>1, <1>3 DEF SyncIInv, Linked, Recent, Happened
<1> QED
  BY <1>1, <1>4, <1>5, AccountsApart

(* Apply: under the lock of the identity nobody is about to make its user active. *)

LEMMA SnapshotEffect ==
  ASSUME SyncTypeOK, TombstonesHold, NEW s \in Subjects, NEW view \in Observations,
         lifecycle[s] # "deleted", SnapshotApplied(s, view)
  PROVE  /\ user' \in [Subjects -> UserRow]
         /\ lifecycle' \in [Subjects -> {"none", "active", "blocked", "deleted"}]
         /\ \A r \in Subjects : r # s => user'[r] = user[r] /\ lifecycle'[r] = lifecycle[r]
         /\ lifecycle'[s] # "deleted"
         /\ lifecycle'[s] = "blocked" => user'[s].status # "active"
<1>1. user[s] \in UserRow /\ view.email \in Emails \cup {None} /\ user \in [Subjects -> UserRow]
  BY DEF SyncTypeOK, AccountsTypeOK, Observations, UserRow
<1>2. UserAfter(s, view) \in UserRow
  BY <1>1 DEF UserAfter, UserRow
<1>3. /\ user' \in [Subjects -> UserRow] /\ user'[s] = UserAfter(s, view)
      /\ \A r \in Subjects : r # s => user'[r] = user[r]
  BY <1>1, <1>2 DEF SnapshotApplied
<1>4. /\ lifecycle' \in [Subjects -> {"none", "active", "blocked", "deleted"}]
      /\ lifecycle'[s] = IF view.banned \/ lifecycle[s] = "blocked" THEN "blocked" ELSE "active"
      /\ \A r \in Subjects : r # s => lifecycle'[r] = lifecycle[r]
  BY DEF SnapshotApplied, SyncTypeOK, AccountsTypeOK
<1>5. lifecycle'[s] = "blocked" => UserAfter(s, view).status # "active"
  BY <1>4 DEF UserAfter, TombstonesHold
<1> QED
  BY <1>3, <1>4, <1>5

LEMMA TombstoneEffect ==
  ASSUME SyncTypeOK, NEW s \in Subjects, TombstoneApplied(s)
  PROVE  /\ user' \in [Subjects -> UserRow]
         /\ lifecycle' \in [Subjects -> {"none", "active", "blocked", "deleted"}]
         /\ \A r \in Subjects : r # s => user'[r] = user[r] /\ lifecycle'[r] = lifecycle[r]
         /\ user'[s].status # "active"
         /\ revocations' = revocations \cup {m \in MembersOf(s) : m.status = "active"}
<1>1. user \in [Subjects -> UserRow]
  BY DEF SyncTypeOK, AccountsTypeOK, UserRow
<1>2. [user[s] EXCEPT !.status = "disabled"] \in UserRow /\ [user[s] EXCEPT !.status = "disabled"].status = "disabled"
  BY <1>1 DEF UserRow
<1>3. /\ user' \in [Subjects -> UserRow] /\ user'[s].status # "active"
      /\ \A r \in Subjects : r # s => user'[r] = user[r]
  <2>1. CASE user[s].status = "none"
    BY <1>1, <2>1 DEF TombstoneApplied
  <2>2. CASE user[s].status # "none"
    <3>1. user' = [user EXCEPT ![s] = [user[s] EXCEPT !.status = "disabled"]]
      BY <2>2 DEF TombstoneApplied
    <3> QED
      BY <1>1, <1>2, <3>1
  <2> QED
    BY <2>1, <2>2
<1> QED
  BY <1>3 DEF TombstoneApplied, SyncTypeOK, AccountsTypeOK

LEMMA ApplyPreserves ==
  ASSUME SyncIInv, NEW w \in Runners, Apply(w)
  PROVE  SyncIInv'
<1> DEFINE e == runs[w].job
           s == events[e].who
           view == runs[w].seen
<1>1. /\ UNCHANGED <<provider, members, invited, mailing, asked, events, hooks, conflicts, kept>>
      /\ runs[w].at = "apply" /\ e \in Events /\ s \in Subjects /\ view \in Observations
      /\ Rest(w) /\ JobEnds(e, "processed")
      /\ view.kind # "skip" => IdentityFree(s)
  BY DEF Apply, SyncIInv, Linked, SyncTypeOK, Run
<1>2. \/ UNCHANGED <<applied, user, lifecycle, revocations>>
      \/ /\ IdentityFree(s) /\ applied' = [applied EXCEPT ![s] = e]
         /\ lifecycle[s] # "deleted" /\ SnapshotApplied(s, view)
      \/ /\ IdentityFree(s) /\ applied' = [applied EXCEPT ![s] = e]
         /\ TombstoneApplied(s)
  BY DEF Apply, IsFresh
<1> HIDE DEF e, s, view
<1>3. /\ user' \in [Subjects -> UserRow]
      /\ lifecycle' \in [Subjects -> {"none", "active", "blocked", "deleted"}]
      /\ applied' \in [Subjects -> Events \cup {None}]
      /\ revocations' \subseteq Memberships
      /\ revocations \subseteq revocations'
  <2>1. /\ user \in [Subjects -> UserRow] /\ applied \in [Subjects -> Events \cup {None}]
        /\ lifecycle \in [Subjects -> {"none", "active", "blocked", "deleted"}]
        /\ revocations \subseteq Memberships /\ MembersOf(s) \subseteq Memberships
    BY DEF SyncIInv, SyncTypeOK, AccountsTypeOK, UserRow, MembersOf
  <2>2. CASE UNCHANGED <<applied, user, lifecycle, revocations>>
    BY <2>1, <2>2
  <2>3. CASE /\ applied' = [applied EXCEPT ![s] = e]
             /\ lifecycle[s] # "deleted" /\ SnapshotApplied(s, view)
    <3>1. revocations' = revocations
      BY <2>3 DEF SnapshotApplied
    <3> QED
      BY <1>1, <2>1, <2>3, <3>1, SnapshotEffect DEF SyncIInv
  <2>4. CASE applied' = [applied EXCEPT ![s] = e] /\ TombstoneApplied(s)
    BY <1>1, <2>1, <2>4, TombstoneEffect DEF SyncIInv
  <2> QED
    BY <1>2, <2>2, <2>3, <2>4
<1>4. /\ jobs' \in [Events -> JobRow]
      /\ \A d \in Events : jobs'[d].status # "none" => jobs[d].status # "none"
  BY <1>1, JobEndsEffect DEF SyncIInv
<1>5. /\ runs' \in [Runners -> Run]
      /\ \A v \in Runners : v # w => runs'[v] = runs[v]
      /\ runs'[w].at = "idle"
  BY <1>1, RestEffect DEF SyncIInv
<1>6. SyncTypeOK'
  BY <1>1, <1>3, <1>4, <1>5 DEF SyncIInv, SyncTypeOK, AccountsTypeOK, UserRow
<1>7. Linked' /\ Recent' /\ Joined'
  BY <1>1, <1>4, <1>5 DEF SyncIInv, Linked, Recent, Happened, Joined, Joins
<1>8. Alone'
  BY <1>1 DEF SyncIInv, Alone, HoldsIdentity
<1>9. \A r \in Subjects : (user'[r] = user[r] /\ lifecycle'[r] = lifecycle[r]) \/ (r = s /\ IdentityFree(s))
  BY <1>1, <1>2, SnapshotEffect, TombstoneEffect DEF SyncIInv
<1>10. Live'
  BY <1>1, <1>9 DEF SyncIInv, Live, IdentityFree, HoldsIdentity, UserIsDisabled
<1>11. TombstonesHold'
  <2> SUFFICES ASSUME NEW r \in Subjects
               PROVE  /\ lifecycle'[r] \in {"blocked", "deleted"} => user'[r].status # "active"
                      /\ lifecycle'[r] = "deleted" =>
                           \A m \in MembersOf(r) : m.status = "active" => m \in revocations' \cup kept
    BY <1>1 DEF TombstonesHold, MembersOf
  <2>1. CASE user'[r] = user[r] /\ lifecycle'[r] = lifecycle[r]
    BY <1>3, <2>1 DEF SyncIInv, TombstonesHold
  <2>2. CASE r = s /\ lifecycle[s] # "deleted" /\ SnapshotApplied(s, view)
    BY <1>1, <2>2, SnapshotEffect DEF SyncIInv
  <2>3. CASE r = s /\ TombstoneApplied(s)
    BY <1>1, <2>3, TombstoneEffect DEF SyncIInv
  <2>4. CASE r # s
    <3>1. user'[r] = user[r] /\ lifecycle'[r] = lifecycle[r]
      BY <1>9, <2>4
    <3> QED
      BY <2>1, <3>1
  <2> QED
    BY <1>2, <2>1, <2>2, <2>3, <2>4
<1> QED
  BY <1>6, <1>7, <1>8, <1>10, <1>11 DEF SyncIInv

LEMMA RevokePreserves ==
  ASSUME SyncIInv, NEW m \in revocations, RevokeMembership(m)
  PROVE  SyncIInv'
<1>1. /\ UNCHANGED <<provider, user, lifecycle, invited, mailing, asked>>
      /\ UNCHANGED <<events, hooks, conflicts, jobs, runs, applied>>
      /\ revocations' = revocations \ {m} /\ m \in Memberships
  BY DEF RevokeMembership, SyncIInv, SyncTypeOK
<1>2. [m EXCEPT !.status = "revoked"] \in Memberships /\ [m EXCEPT !.status = "revoked"].status = "revoked"
  BY <1>1 DEF Memberships
<1>3. /\ members' \subseteq Memberships /\ kept' \subseteq Memberships /\ kept \subseteq kept'
      /\ \A n \in members' : n.status = "active" => n \in members /\ (n = m => m \in kept')
  BY <1>1, <1>2 DEF RevokeMembership, SyncIInv, SyncTypeOK, AccountsTypeOK
<1>4. SyncTypeOK'
  BY <1>1, <1>3 DEF SyncIInv, SyncTypeOK, AccountsTypeOK
<1>5. Linked' /\ Recent' /\ Joined' /\ Alone' /\ Live'
  BY <1>1 DEF SyncIInv, Linked, Recent, Happened, Joined, Joins, Alone, Live, HoldsIdentity, UserIsDisabled
<1>6. TombstonesHold'
  BY <1>1, <1>3 DEF SyncIInv, TombstonesHold, MembersOf
<1> QED
  BY <1>4, <1>5, <1>6 DEF SyncIInv

-----------------------------------------------------------------------------
(* The specification. *)

LEMMA Initially ==
  ASSUME SyncInit
  PROVE  SyncIInv
<1>1. AccountsTypeOK
  <2>1. /\ provider \in [Subjects -> [email : Emails \cup {None}, banned : BOOLEAN, gone : BOOLEAN]]
        /\ invited \in [Invitations -> [status : Terminal \cup {"none", "pending"},
                                        email : Emails \cup {None}, due : BOOLEAN]]
    BY DEF SyncInit, AccountsInit
  <2>2. user \in [Subjects -> UserRow]
    BY DEF SyncInit, AccountsInit, UserRow
  <2>3. asked \in [Callers -> Call]
    BY DEF SyncInit, AccountsInit, NewCalls
  <2>4. /\ lifecycle \in [Subjects -> {"none", "active", "blocked", "deleted"}]
        /\ members \subseteq Memberships /\ mailing \subseteq Invitations
    BY DEF SyncInit, AccountsInit
  <2> QED
    BY <2>1, <2>2, <2>3, <2>4 DEF AccountsTypeOK
<1>2. SyncTypeOK
  BY <1>1 DEF SyncInit, SyncTypeOK, JobRow, Run, Unseen, Observations
<1>3. Happened = {} /\ IsFiniteSet({})
  BY FS_EmptySet DEF SyncInit, Happened
<1>4. Linked /\ Recent
  BY <1>3 DEF SyncInit, Linked, Recent
<1>5. \A q \in Callers : asked[q].at \in {"start", "done"} /\ asked[q].sets = "nothing"
  <2> SUFFICES ASSUME NEW q \in Callers
               PROVE  asked[q].at \in {"start", "done"} /\ asked[q].sets = "nothing"
    OBVIOUS
  <2>1. asked[q] \in NewCalls
    BY DEF SyncInit, AccountsInit
  <2> QED
    BY <2>1 DEF NewCalls
<1>6. Joined /\ Alone /\ Live
  BY <1>5 DEF Joined, Joins, Alone, Live, HoldsIdentity
<1>7. TombstonesHold
  BY DEF SyncInit, AccountsInit, TombstonesHold
<1> QED
  BY <1>2, <1>4, <1>6, <1>7 DEF SyncIInv

LEMMA ProviderRow ==
  ASSUME SyncTypeOK, NEW s \in Subjects
  PROVE  [provider[s] EXCEPT !.gone = TRUE] \in [email : Emails \cup {None}, banned : BOOLEAN, gone : BOOLEAN]
<1>1. provider[s] \in [email : Emails \cup {None}, banned : BOOLEAN, gone : BOOLEAN]
  BY DEF SyncTypeOK, AccountsTypeOK
<1> QED
  BY <1>1

\* The inductive invariant of both components together.
LEMMA Inductive ==
  ASSUME AccountsAssumption, SyncIInv, [SyncNext]_syncAll
  PROVE  SyncIInv'
<1>1. CASE UNCHANGED syncAll
  BY <1>1 DEF syncAll, accountVars, syncVars, SyncIInv, SyncTypeOK, AccountsTypeOK, Linked, Recent, Happened, Joined,
              Joins, Alone, Live, HoldsIdentity, UserIsDisabled, TombstonesHold, MembersOf
<1>2. ASSUME NEW s \in Subjects, ChangeAtProvider(s) \/ DeleteAtProvider(s)
      PROVE  SyncIInv'
  <2>1. PICK type \in {"changed", "deleted"},
             profile \in [email : Emails \cup {None}, banned : BOOLEAN, gone : BOOLEAN] : Happens(s, type, profile)
    BY <1>2, ProviderRow DEF ChangeAtProvider, DeleteAtProvider, SyncIInv
  <2> QED
    BY <2>1, HappensPreserves
<1>3. CASE \E e \in Events : StallJob(e) \/ \E h \in Hashes : Ingest(e, h)
  BY <1>3, StallPreserves, IngestPreserves
<1>4. CASE \E w \in Runners : FailRun(w) \/ Classify(w) \/ Fetch(w) \/ Apply(w) \/ \E e \in Events : ClaimJob(w, e)
  BY <1>4, FailPreserves, AskPreserves, ApplyPreserves, ClaimPreserves
<1>5. CASE \E m \in revocations : RevokeMembership(m)
  BY <1>5, RevokePreserves
<1>6. CASE AccountsNext /\ UNCHANGED syncVars
  BY <1>6, CallPreserves, CommitPreserves, AroundPreserves DEF AccountsNext
<1> QED
  BY <1>1, <1>2, <1>3, <1>4, <1>5, <1>6 DEF SyncNext, SyncStep

LEMMA Invariance == SyncSpec => []SyncIInv
<1>1. SyncInit => SyncIInv
  BY Initially
<1>2. SyncIInv /\ [SyncNext]_syncAll => SyncIInv'
  BY Inductive, AccountsAssumption
<1> QED
  BY <1>1, <1>2, PTL DEF SyncSpec

\* Users, memberships, invitations, calls, events and jobs keep their types.
THEOREM SyncTypeCorrect == SyncSpec => []SyncTypeOK
<1>1. SyncIInv => SyncTypeOK
  BY DEF SyncIInv
<1> QED
  BY <1>1, Invariance, PTL

\* However the calls that make users and memberships race with the jobs that
\* block and delete them (app.bootstrap_provision_user and app.identity_sync_apply
\* under one advisory lock), a blocked or deleted identity has no active user and
\* no membership that nothing is going to revoke.
THEOREM TombstonesFinal == SyncSpec => []TombstonesHold
<1>1. SyncIInv => TombstonesHold
  BY DEF SyncIInv
<1> QED
  BY <1>1, Invariance, PTL
-----------------------------------------------------------------------------
(* Synchronisation. *)

\* The event is applied, or a newer one is, or the identity is deleted.
Superseded(e) ==
  LET s == events[e].who IN
  lifecycle[s] = "deleted" \/ (applied[s] # None /\ (applied[s] = e \/ Before(e, applied[s])))

\* Something happened after the event e, or at all if there is none.
After(s, e) == \E d \in Happened : events[d].who = s /\ (e = None \/ events[d].time > events[e].time)

Delivered ==
  /\ \A e \in Events : hooks[e] # None => e \in Happened
  /\ \A e \in Events : jobs[e].status # "none" => hooks[e] # None
  /\ \A e \in Events : jobs[e].status = "processed" => Superseded(e)
  /\ \A w \in Runners : runs[w].at # "idle" => runs[w].job \in Events /\ hooks[runs[w].job] # None
  /\ \A s \in Subjects : applied[s] # None => applied[s] \in Events /\ events[applied[s]].who = s /\ hooks[applied[s]] # None

\* What a run is about to apply: what the provider says, or something newer happened.
Observed(w) ==
  LET e == runs[w].job  s == events[e].who  view == runs[w].seen IN
  runs[w].at = "apply" =>
    /\ view.kind \in {"skip", "deleted", "not_found", "snapshot"}
    /\ view.kind = "skip" => Superseded(e)
    /\ view.kind = "snapshot" =>
         \/ ~provider[s].gone /\ view.email = provider[s].email /\ view.banned = provider[s].banned
         \/ After(s, e)

\* What the user is is what the provider says, or there is news.
UpToDate(s) ==
  \/ lifecycle[s] = "deleted"
  \/ After(s, applied[s])
  \/ /\ ~provider[s].gone
     /\ provider[s].banned => lifecycle[s] = "blocked"
     /\ user[s].status = "active" => provider[s].email \in {None, user[s].email}
     /\ user[s].status = "none" => \A q \in Callers :
          /\ asked[q].who = s /\ asked[q].op \in {"accept", "onboard"}
          /\ asked[q].at \in {"provision", "find", "check", "write", "commit"}
          => provider[s].email \in {None, asked[q].profile}

NewsInv == Delivered /\ (\A w \in Runners : Observed(w)) /\ \A s \in Subjects : UpToDate(s)
-----------------------------------------------------------------------------
LEMMA EventOrder ==
  ASSUME SyncTypeOK, SyncAssumption, NEW d \in Events, NEW e \in Events
  PROVE  /\ d = e \/ Before(d, e) \/ Before(e, d)
         /\ Before(d, e) => events[d].time <= events[e].time
         /\ \A f \in Events : Before(d, e) /\ Before(e, f) => Before(d, f)
         /\ events[d].time \in Nat
<1>1. \A f \in Events : events[f].time \in Nat /\ Rank(f) \in {0, 1} /\ f \in Nat
  BY DEF SyncTypeOK, SyncAssumption, Rank
<1>2. d = e \/ Before(d, e) \/ Before(e, d)
  <2>1. /\ events[d].time \in Nat /\ events[e].time \in Nat
        /\ Rank(d) \in {0, 1} /\ Rank(e) \in {0, 1}
        /\ d \in Nat /\ e \in Nat
    BY <1>1
  <2> QED
    BY <2>1 DEF Before
<1>3. Before(d, e) => events[d].time <= events[e].time
  <2>1. events[d].time \in Nat /\ events[e].time \in Nat
    BY <1>1
  <2> QED
    BY <2>1 DEF Before
<1>4. ASSUME NEW f \in Events, Before(d, e), Before(e, f) PROVE Before(d, f)
  <2>1. /\ events[d].time \in Nat /\ events[e].time \in Nat /\ events[f].time \in Nat
        /\ Rank(d) \in {0, 1} /\ Rank(e) \in {0, 1} /\ Rank(f) \in {0, 1}
        /\ d \in Nat /\ e \in Nat /\ f \in Nat
    BY <1>1
  <2> QED
    BY <1>4, <2>1 DEF Before
<1> QED
  BY <1>1, <1>2, <1>3, <1>4

\* A step that leaves the events and what is applied of them alone.
LEMMA StillSuperseded ==
  ASSUME UNCHANGED <<events, lifecycle, applied>>
  PROVE  /\ \A e : Superseded(e)' <=> Superseded(e)
         /\ \A s, e : After(s, e)' <=> After(s, e)
         /\ Happened' = Happened
<1>1. Happened' = Happened
  BY DEF Happened
<1>2. \A d, e : Before(d, e)' <=> Before(d, e)
  BY DEF Before, Rank
<1>3. \A e : Superseded(e)' <=> Superseded(e)
  BY <1>2 DEF Superseded
<1>4. \A s, e : After(s, e)' <=> After(s, e)
  BY <1>1 DEF After
<1> QED
  BY <1>1, <1>3, <1>4

Others(q) == \A r \in Callers : r # q => asked'[r] = asked[r]

\* The call keeps what it was asked.
Asked(q) ==
  /\ Others(q)
  /\ asked'[q].op = asked[q].op /\ asked'[q].who = asked[q].who /\ asked'[q].email = asked[q].email

\* What a call's row turns into.
LEMMA RefuseRow ==
  ASSUME AccountsTypeOK, NEW q \in Callers, NEW answer, Refuse(q, answer)
  PROVE  /\ Asked(q) /\ asked'[q].inv = asked[q].inv /\ asked'[q].profile = asked[q].profile
         /\ asked'[q].sets = asked[q].sets /\ asked'[q].drops = asked[q].drops
         /\ asked'[q].at = "done" /\ asked'[q].answer = answer
<1>1. asked[q] \in Call /\ Others(q) /\ asked'[q] = [asked[q] EXCEPT !.at = "done", !.answer = answer]
  BY DEF AccountsTypeOK, Refuse, Others
<1> DEFINE c == [asked[q] EXCEPT !.at = "done", !.answer = answer]
<1>2. /\ c.op = asked[q].op /\ c.who = asked[q].who /\ c.email = asked[q].email /\ c.inv = asked[q].inv
      /\ c.profile = asked[q].profile /\ c.sets = asked[q].sets /\ c.drops = asked[q].drops /\ c.answer = answer /\ c.at = "done"
  BY <1>1 DEF Call
<1> HIDE DEF c
<1>3. asked'[q] = c
  BY <1>1 DEF c
<1> QED
  BY <1>1, <1>2, <1>3 DEF Asked

LEMMA WritesRow ==
  ASSUME AccountsTypeOK, NEW q \in Callers, NEW sets, NEW answer, Writes(q, sets, answer)
  PROVE  /\ Asked(q) /\ asked'[q].inv = asked[q].inv /\ asked'[q].profile = asked[q].profile
         /\ asked'[q].sets = sets /\ asked'[q].drops = asked[q].drops
         /\ asked'[q].at = "commit" /\ asked'[q].answer = answer
<1>1. asked[q] \in Call /\ Others(q) /\ asked'[q] = [asked[q] EXCEPT !.at = "commit", !.sets = sets, !.answer = answer]
  BY DEF AccountsTypeOK, Writes, Others
<1> DEFINE c == [asked[q] EXCEPT !.at = "commit", !.sets = sets, !.answer = answer]
<1>2. /\ c.op = asked[q].op /\ c.who = asked[q].who /\ c.email = asked[q].email /\ c.inv = asked[q].inv
      /\ c.profile = asked[q].profile /\ c.sets = sets /\ c.drops = asked[q].drops /\ c.answer = answer /\ c.at = "commit"
  BY <1>1 DEF Call
<1> HIDE DEF c
<1>3. asked'[q] = c
  BY <1>1 DEF c
<1> QED
  BY <1>1, <1>2, <1>3 DEF Asked

LEMMA GoesRow ==
  ASSUME AccountsTypeOK, NEW q \in Callers, NEW at, Goes(q, at)
  PROVE  /\ Asked(q) /\ asked'[q].inv = asked[q].inv /\ asked'[q].profile = asked[q].profile
         /\ asked'[q].sets = asked[q].sets /\ asked'[q].drops = asked[q].drops
         /\ asked'[q].at = at /\ asked'[q].answer = asked[q].answer
<1>1. asked[q] \in Call /\ Others(q) /\ asked'[q] = [asked[q] EXCEPT !.at = at]
  BY DEF AccountsTypeOK, Goes, Others
<1> DEFINE c == [asked[q] EXCEPT !.at = at]
<1>2. /\ c.op = asked[q].op /\ c.who = asked[q].who /\ c.email = asked[q].email /\ c.inv = asked[q].inv
      /\ c.profile = asked[q].profile /\ c.sets = asked[q].sets /\ c.drops = asked[q].drops /\ c.answer = asked[q].answer /\ c.at = at
  BY <1>1 DEF Call
<1> HIDE DEF c
<1>3. asked'[q] = c
  BY <1>1 DEF c
<1> QED
  BY <1>1, <1>2, <1>3 DEF Asked

LEMMA ProfileRow ==
  ASSUME AccountsTypeOK, NEW q \in Callers, NEW profile,
         asked' = [asked EXCEPT ![q] = [@ EXCEPT !.at = "provision", !.profile = profile]]
  PROVE  /\ Asked(q) /\ asked'[q].inv = asked[q].inv /\ asked'[q].profile = profile
         /\ asked'[q].sets = asked[q].sets /\ asked'[q].drops = asked[q].drops
         /\ asked'[q].at = "provision" /\ asked'[q].answer = asked[q].answer
<1>1. asked[q] \in Call /\ Others(q) /\ asked'[q] = [asked[q] EXCEPT !.at = "provision", !.profile = profile]
  BY DEF AccountsTypeOK, Others
<1> DEFINE c == [asked[q] EXCEPT !.at = "provision", !.profile = profile]
<1>2. /\ c.op = asked[q].op /\ c.who = asked[q].who /\ c.email = asked[q].email /\ c.inv = asked[q].inv
      /\ c.profile = profile /\ c.sets = asked[q].sets /\ c.drops = asked[q].drops /\ c.answer = asked[q].answer /\ c.at = "provision"
  BY <1>1 DEF Call
<1> HIDE DEF c
<1>3. asked'[q] = c
  BY <1>1 DEF c
<1> QED
  BY <1>1, <1>2, <1>3 DEF Asked

LEMMA AttemptRow ==
  ASSUME AccountsTypeOK, NEW q \in Callers, NEW attempt,
         asked' = [asked EXCEPT ![q] = [@ EXCEPT !.at = "provision", !.attempt = attempt]]
  PROVE  /\ Asked(q) /\ asked'[q].inv = asked[q].inv /\ asked'[q].profile = asked[q].profile
         /\ asked'[q].sets = asked[q].sets /\ asked'[q].drops = asked[q].drops
         /\ asked'[q].at = "provision" /\ asked'[q].answer = asked[q].answer
<1>1. asked[q] \in Call /\ Others(q) /\ asked'[q] = [asked[q] EXCEPT !.at = "provision", !.attempt = attempt]
  BY DEF AccountsTypeOK, Others
<1> DEFINE c == [asked[q] EXCEPT !.at = "provision", !.attempt = attempt]
<1>2. /\ c.op = asked[q].op /\ c.who = asked[q].who /\ c.email = asked[q].email /\ c.inv = asked[q].inv
      /\ c.profile = asked[q].profile /\ c.sets = asked[q].sets /\ c.drops = asked[q].drops /\ c.answer = asked[q].answer /\ c.at = "provision"
  BY <1>1 DEF Call
<1> HIDE DEF c
<1>3. asked'[q] = c
  BY <1>1 DEF c
<1> QED
  BY <1>1, <1>2, <1>3 DEF Asked

LEMMA DropsRow ==
  ASSUME AccountsTypeOK, NEW q \in Callers, NEW drops,
         asked' = [asked EXCEPT ![q] = [@ EXCEPT !.at = "insert", !.drops = drops]]
  PROVE  /\ Asked(q) /\ asked'[q].inv = asked[q].inv /\ asked'[q].profile = asked[q].profile
         /\ asked'[q].sets = asked[q].sets /\ asked'[q].drops = drops
         /\ asked'[q].at = "insert" /\ asked'[q].answer = asked[q].answer
<1>1. asked[q] \in Call /\ Others(q) /\ asked'[q] = [asked[q] EXCEPT !.at = "insert", !.drops = drops]
  BY DEF AccountsTypeOK, Others
<1> DEFINE c == [asked[q] EXCEPT !.at = "insert", !.drops = drops]
<1>2. /\ c.op = asked[q].op /\ c.who = asked[q].who /\ c.email = asked[q].email /\ c.inv = asked[q].inv
      /\ c.profile = asked[q].profile /\ c.sets = asked[q].sets /\ c.drops = drops /\ c.answer = asked[q].answer /\ c.at = "insert"
  BY <1>1 DEF Call
<1> HIDE DEF c
<1>3. asked'[q] = c
  BY <1>1 DEF c
<1> QED
  BY <1>1, <1>2, <1>3 DEF Asked

LEMMA InsertRow ==
  ASSUME AccountsTypeOK, NEW q \in Callers, NEW i,
         asked' = [asked EXCEPT ![q] = [@ EXCEPT !.at = "commit", !.inv = i, !.sets = "created", !.answer = "created"]]
  PROVE  /\ Asked(q) /\ asked'[q].inv = i /\ asked'[q].profile = asked[q].profile
         /\ asked'[q].sets = "created" /\ asked'[q].drops = asked[q].drops
         /\ asked'[q].at = "commit" /\ asked'[q].answer = "created"
<1>1. /\ asked[q] \in Call /\ Others(q)
      /\ asked'[q] = [asked[q] EXCEPT !.at = "commit", !.inv = i, !.sets = "created", !.answer = "created"]
  BY DEF AccountsTypeOK, Others
<1> DEFINE c == [asked[q] EXCEPT !.at = "commit", !.inv = i, !.sets = "created", !.answer = "created"]
<1>2. /\ c.op = asked[q].op /\ c.who = asked[q].who /\ c.email = asked[q].email /\ c.inv = i
      /\ c.profile = asked[q].profile /\ c.sets = "created" /\ c.drops = asked[q].drops /\ c.answer = "created" /\ c.at = "commit"
  BY <1>1 DEF Call
<1> HIDE DEF c
<1>3. asked'[q] = c
  BY <1>1 DEF c
<1> QED
  BY <1>1, <1>2, <1>3 DEF Asked

\* What a call does not change as long as it is under way, and how it gets its address.
CallRow(q) ==
  /\ Asked(q) /\ asked[q].at # "done"
  /\ asked[q].op \in {"accept", "onboard"} /\ asked'[q].at # "done" =>
       /\ asked[q].at # "insert"
       /\ IF asked[q].at = "start" THEN asked'[q].profile = provider[asked[q].who].email
                                   ELSE asked'[q].profile = asked[q].profile

LEMMA Rows ==
  ASSUME AccountsTypeOK, NEW q \in Callers, CallStep(q), ~CommitCall(q)
  PROVE  CallRow(q)
<1>0. asked \in [Callers -> Call] /\ asked[q] \in Call
  BY DEF AccountsTypeOK
<1>1. CASE ReadProfile(q)
  BY <1>1, RefuseRow, ProfileRow DEF ReadProfile, CallRow
<1>2. ASSUME NEW answer, Refuse(q, answer), asked[q].at # "done" PROVE CallRow(q)
  BY <1>2, RefuseRow DEF CallRow
<1>3. ASSUME NEW at, Goes(q, at), asked[q].at \notin {"done", "insert"},
             asked[q].at # "start" \/ asked[q].op = "revoke" PROVE CallRow(q)
  BY <1>3, GoesRow DEF CallRow
<1>4. ASSUME NEW sets, NEW answer, Writes(q, sets, answer), asked[q].at \notin {"start", "insert", "done"} PROVE CallRow(q)
  BY <1>4, WritesRow DEF CallRow
<1>5. CASE Provision(q)
  BY <1>5, <1>2, <1>3 DEF Provision
<1>6. CASE FoundWorkshop(q)
  <2>1. CASE asked' = [asked EXCEPT ![q] = [@ EXCEPT !.at = "provision", !.attempt = asked[q].attempt + 1]]
    BY <1>6, <2>1, AttemptRow DEF FoundWorkshop, CallRow
  <2> QED
    BY <1>6, <2>1, <1>2, <1>4 DEF FoundWorkshop
<1>7. CASE FindInvitation(q)
  <2> DEFINE wrong == Objection(q, asked[q].inv)
  <2>1. /\ asked[q].at = "find"
        /\ \/ Goes(q, "write") \/ Refuse(q, "IN_PROGRESS") \/ Writes(q, "expired", "expired")
           \/ Writes(q, "nothing", wrong) \/ Refuse(q, wrong)
    <3> HIDE DEF wrong
    <3>1. CASE wrong \notin {"nothing", "late", "INVITATION_EMAIL_MISMATCH"}
      BY <1>7, <3>1 DEF FindInvitation, wrong
    <3>2. CASE wrong \in {"nothing", "late", "INVITATION_EMAIL_MISMATCH"}
      BY <1>7, <3>2 DEF FindInvitation, wrong
    <3> QED
      BY <3>1, <3>2
  <2> HIDE DEF wrong
  <2> QED
    BY <2>1, <1>2, <1>3, <1>4
<1>8. CASE AcceptInvitation(q) \/ RevokeInvitation(q)
  BY <1>8, <1>2, <1>4 DEF AcceptInvitation, RevokeInvitation
<1>9. CASE BeginRevoke(q)
  <2> DEFINE state == invited[asked[q].inv].status
  <2>1. /\ asked[q].at = "start" /\ asked[q].op = "revoke"
        /\ \/ Refuse(q, "INVITATION_NOT_FOUND") \/ Refuse(q, "INVITATION_ROLE_NOT_ALLOWED")
           \/ Refuse(q, state) \/ Refuse(q, "expired") \/ Goes(q, "write")
    BY <1>9 DEF BeginRevoke
  <2> HIDE DEF state
  <2> QED
    BY <2>1, <1>2, <1>3
<1>10. CASE ExpireOverdue(q)
  <2> DEFINE overdue == {i \in Invitations : /\ invited[i].email = asked[q].email
                                             /\ invited[i].status = "pending"
                                             /\ invited[i].due}
  <2>1. /\ asked[q].at = "start" /\ asked[q].op = "create"
        /\ \/ Refuse(q, "INVITATION_ROLE_NOT_ALLOWED") \/ Refuse(q, "error")
           \/ asked' = [asked EXCEPT ![q] = [@ EXCEPT !.at = "insert", !.drops = overdue]]
    BY <1>10 DEF ExpireOverdue
  <2> HIDE DEF overdue
  <2>2. CASE asked' = [asked EXCEPT ![q] = [@ EXCEPT !.at = "insert", !.drops = overdue]]
    BY <2>1, <2>2, DropsRow DEF CallRow
  <2> QED
    BY <2>1, <2>2, <1>2
<1>11. CASE CreateInvitation(q)
  <2>1. asked[q].at = "insert" /\ asked[q].op = "create"
    BY <1>11 DEF CreateInvitation
  <2>2. CASE InsertInvitation(q)
    <3>1. PICK i \in Invitations :
                asked' = [asked EXCEPT ![q] = [@ EXCEPT !.at = "commit", !.inv = i, !.sets = "created",
                                                        !.answer = "created"]]
      BY <2>2 DEF InsertInvitation
    <3> QED
      BY <2>1, <3>1, InsertRow DEF CallRow
  <2> QED
    BY <1>2, <1>11, <2>1, <2>2 DEF CreateInvitation
<1>12. CASE AbortCall(q) \/ GiveUp(q)
  BY <1>2, <1>12 DEF AbortCall, GiveUp
<1> QED
  BY <1>1, <1>5, <1>6, <1>7, <1>8, <1>9, <1>10, <1>11, <1>12 DEF CallStep
-----------------------------------------------------------------------------
LEMMA SameRun ==
  ASSUME NEW w \in Runners, Observed(w), runs'[w] = runs[w], UNCHANGED <<events, lifecycle, applied, provider>>
  PROVE  Observed(w)'
BY StillSuperseded DEF Observed

LEMMA SameUser ==
  ASSUME NEW s \in Subjects, UpToDate(s), UNCHANGED <<events, lifecycle, applied, provider, user, asked>>
  PROVE  UpToDate(s)'
BY StillSuperseded DEF UpToDate

LEMMA CallNews ==
  ASSUME SyncIInv, NewsInv, NEW q \in Callers, CallStep(q), ~CommitCall(q), UNCHANGED syncVars,
         AccountsAssumption
  PROVE  NewsInv'
<1>1. UNCHANGED <<provider, lifecycle, mailing, accountRows>> /\ UNCHANGED <<events, hooks, jobs, runs, applied>>
  BY CallMoves DEF SyncIInv, SyncTypeOK, syncVars
<1>2. CallRow(q) /\ asked[q] \in Call
  BY Rows DEF SyncIInv, SyncTypeOK, AccountsTypeOK
<1>3. Delivered'
  BY <1>1, StillSuperseded DEF NewsInv, Delivered
<1>4. \A w \in Runners : Observed(w)'
  BY <1>1, SameRun DEF NewsInv
<1>5. ASSUME NEW s \in Subjects PROVE UpToDate(s)'
  <2>1. UpToDate(s) /\ (After(s, applied[s])' <=> After(s, applied[s]))
    BY <1>1, StillSuperseded DEF NewsInv
  <2>2. ASSUME NEW r \in Callers, asked'[r].who = s, asked'[r].op \in {"accept", "onboard"},
               asked'[r].at \in {"provision", "find", "check", "write", "commit"}
        PROVE  \/ asked'[r].profile = provider[s].email
               \/ /\ asked[r].who = s /\ asked[r].op \in {"accept", "onboard"}
                  /\ asked[r].at \in {"provision", "find", "check", "write", "commit"}
                  /\ asked'[r].profile = asked[r].profile
    <3>1. CASE r # q
      BY <1>2, <2>2, <3>1 DEF CallRow, Asked, Others
    <3>2. CASE r = q
      <4>1. asked[q].at \in Places
        BY <1>2 DEF Call
      <4> QED
        BY <1>2, <2>2, <3>2, <4>1 DEF CallRow, Asked, Places
    <3> QED
      BY <3>1, <3>2
  <2> QED
    BY <1>1, <2>1, <2>2 DEF UpToDate, accountRows
<1> QED
  BY <1>3, <1>4, <1>5 DEF NewsInv

LEMMA CommitNews ==
  ASSUME SyncIInv, NewsInv, NEW q \in Callers, CommitCall(q), UNCHANGED syncVars
  PROVE  NewsInv'
<1>1. /\ UNCHANGED <<provider, lifecycle>> /\ UNCHANGED <<events, hooks, jobs, runs, applied>>
      /\ asked[q].at = "commit" /\ asked[q].who \in Subjects
  BY DEF CommitCall, syncVars, SyncIInv, SyncTypeOK, AccountsTypeOK, Call
<1>2. Asked(q) /\ asked'[q].at = "done"
  BY GoesRow DEF CommitCall, SyncIInv, SyncTypeOK
<1>3. Delivered'
  BY <1>1, StillSuperseded DEF NewsInv, Delivered
<1>4. \A w \in Runners : Observed(w)'
  BY <1>1, SameRun DEF NewsInv
<1>5. ASSUME NEW s \in Subjects PROVE UpToDate(s)'
  <2>1. UpToDate(s) /\ (After(s, applied[s])' <=> After(s, applied[s]))
    BY <1>1, StillSuperseded DEF NewsInv
  <2>2. \/ user'[s] = user[s]
        \/ /\ asked[q].who = s /\ asked[q].op \in {"accept", "onboard"} /\ user[s].status = "none"
           /\ user'[s].status = "active" /\ user'[s].email = asked[q].profile
    BY <1>1 DEF CommitCall, SyncIInv, SyncTypeOK, AccountsTypeOK
  <2> QED
    BY <1>1, <1>2, <2>1, <2>2 DEF UpToDate, Asked, Others
<1> QED
  BY <1>3, <1>4, <1>5 DEF NewsInv

LEMMA HappensNews ==
  ASSUME SyncIInv, NewsInv, NEW s \in Subjects, NEW type \in {"changed", "deleted"}, NEW profile,
         Happens(s, type, profile)
  PROVE  NewsInv'
<1>1. PICK e \in Events \ Happened, t \in Moments :
        events' = [events EXCEPT ![e] = [who |-> s, type |-> type, time |-> t]]
  BY DEF Happens
<1>2. /\ UNCHANGED <<user, lifecycle, asked, hooks, jobs, runs, applied>>
      /\ \A r \in Subjects : r # s => provider'[r] = provider[r]
  BY DEF Happens, accountRows, SyncIInv, SyncTypeOK, AccountsTypeOK
<1>3. /\ \A d \in Events : d # e => events'[d] = events[d]
      /\ events'[e] = [who |-> s, type |-> type, time |-> t]
  BY <1>1 DEF SyncIInv, SyncTypeOK
<1>4. Happened' = Happened \cup {e}
  BY <1>3 DEF Happened
<1>5. \A d \in Events : hooks[d] # None => d # e /\ d \in Happened /\ events[d].time < t
  BY <1>1 DEF NewsInv, Delivered, Moments
<1>6. \A d \in Events : hooks[d] # None => (Superseded(d) <=> Superseded(d)')
  <2> SUFFICES ASSUME NEW d \in Events, hooks[d] # None PROVE Superseded(d) <=> Superseded(d)'
    OBVIOUS
  <2>1. events'[d] = events[d] /\ events[d].who \in Subjects
    BY <1>3, <1>5 DEF Happened, SyncIInv, Linked
  <2>2. applied[events[d].who] # None => events'[applied[events[d].who]] = events[applied[events[d].who]]
    BY <1>3, <1>5, <2>1 DEF NewsInv, Delivered
  <2> QED
    BY <1>2, <2>1, <2>2 DEF Superseded, Before, Rank
<1>7. Delivered'
  BY <1>2, <1>3, <1>4, <1>5, <1>6 DEF NewsInv, Delivered
<1>8. ASSUME NEW d \in Events, hooks[d] # None PROVE After(s, d)'
  BY <1>3, <1>4, <1>5, <1>8 DEF After
<1>9. After(s, None)'
  BY <1>3, <1>4 DEF After
<1>10. ASSUME NEW r \in Subjects, NEW d \in Events, hooks[d] # None, After(r, d) PROVE After(r, d)'
  BY <1>1, <1>3, <1>4, <1>5, <1>10 DEF After
<1>11. ASSUME NEW w \in Runners PROVE Observed(w)'
  <2>1. CASE runs[w].at # "apply"
    BY <1>2, <2>1 DEF Observed
  <2>2. CASE runs[w].at = "apply"
    <3>1. /\ runs[w].job \in Events /\ hooks[runs[w].job] # None /\ events[runs[w].job].who \in Subjects
          /\ events'[runs[w].job] = events[runs[w].job]
      BY <1>3, <1>5, <2>2 DEF NewsInv, Delivered, SyncIInv, Linked
    <3>2. CASE events[runs[w].job].who = s
      BY <1>2, <1>6, <1>8, <2>2, <3>1, <3>2 DEF NewsInv, Observed
    <3>3. CASE events[runs[w].job].who # s
      BY <1>2, <1>6, <1>10, <2>2, <3>1, <3>3 DEF NewsInv, Observed
    <3> QED
      BY <3>2, <3>3
  <2> QED
    BY <2>1, <2>2
<1>12. ASSUME NEW r \in Subjects PROVE UpToDate(r)'
  <2>1. applied[r] # None => applied[r] \in Events /\ hooks[applied[r]] # None
    BY DEF NewsInv, Delivered
  <2>2. CASE r = s
    BY <1>2, <1>8, <1>9, <2>1, <2>2 DEF UpToDate
  <2>3. CASE r # s
    <3>1. After(r, applied[r]) => After(r, applied[r])'
      <4>1. CASE applied[r] = None
        BY <1>2, <1>3, <1>4, <1>1, <4>1 DEF After
      <4> QED
        BY <1>2, <1>10, <2>1, <4>1
    <3> QED
      BY <1>2, <2>3, <3>1 DEF NewsInv, UpToDate
  <2> QED
    BY <2>2, <2>3
<1> QED
  BY <1>7, <1>11, <1>12 DEF NewsInv

\* The steps of the jobs that apply nothing.
LEMMA QuietNews ==
  ASSUME SyncIInv, NewsInv, UNCHANGED <<provider, user, lifecycle, asked, events, applied>>,
         Delivered', \A w \in Runners : runs'[w] = runs[w] \/ Observed(w)'
  PROVE  NewsInv'
<1>1. \A w \in Runners : Observed(w)'
  BY SameRun DEF NewsInv
<1>2. \A s \in Subjects : UpToDate(s)'
  BY SameUser DEF NewsInv
<1> QED
  BY <1>1, <1>2 DEF NewsInv

LEMMA IngestNews ==
  ASSUME SyncIInv, NewsInv, SyncAssumption, NEW e \in Events, NEW h \in Hashes, Ingest(e, h)
  PROVE  NewsInv'
<1>1. UNCHANGED <<provider, user, lifecycle, asked, events, applied, runs>> /\ e \in Happened
  BY DEF Ingest, accountVars
<1>2. /\ \A d \in Events : d # e => hooks'[d] = hooks[d] /\ jobs'[d] = jobs[d]
      /\ hooks[e] # None => hooks'[e] = hooks[e] /\ jobs'[e] = jobs[e]
      /\ hooks[e] = None => hooks'[e] # None /\ jobs'[e].status = "pending"
  BY DEF Ingest, SyncIInv, SyncTypeOK, SyncAssumption, JobRow
<1>3. Delivered'
  BY <1>1, <1>2, StillSuperseded, ZenonT(40) DEF NewsInv, Delivered
<1> QED
  BY <1>1, <1>3, QuietNews

LEMMA StallNews ==
  ASSUME SyncIInv, NewsInv, NEW e \in Events, StallJob(e)
  PROVE  NewsInv'
<1>1. UNCHANGED <<provider, user, lifecycle, asked, events, applied, runs, hooks>>
  BY DEF StallJob, accountVars
<1>2. /\ \A d \in Events : d # e => jobs'[d] = jobs[d]
      /\ jobs'[e].status = "pending" /\ jobs[e].status # "none"
  BY DEF StallJob, SyncIInv, SyncTypeOK, JobRow
<1>3. Delivered'
  BY <1>1, <1>2, StillSuperseded DEF NewsInv, Delivered
<1> QED
  BY <1>1, <1>3, QuietNews

LEMMA ClaimNews ==
  ASSUME SyncIInv, NewsInv, NEW w \in Runners, NEW e \in Events, ClaimJob(w, e)
  PROVE  NewsInv'
<1>1. UNCHANGED <<provider, user, lifecycle, asked, events, applied, hooks>>
  BY DEF ClaimJob, accountVars
<1>2. /\ \A d \in Events : d # e => jobs'[d] = jobs[d]
      /\ jobs'[e].status = "processing" /\ jobs[e].status # "none"
      /\ \A v \in Runners : v # w => runs'[v] = runs[v]
      /\ runs'[w].job = e /\ runs'[w].at = "classify"
  BY DEF ClaimJob, SyncIInv, SyncTypeOK, JobRow
<1>3. Delivered'
  BY <1>1, <1>2, StillSuperseded DEF NewsInv, Delivered
<1>4. Observed(w)'
  BY <1>2 DEF Observed
<1> QED
  BY <1>1, <1>2, <1>3, <1>4, QuietNews

\* The end of a run: the job keeps its state or takes a new one.
LEMMA EndRow ==
  ASSUME SyncTypeOK, NEW e \in Events, NEW state, JobEnds(e, state)
  PROVE  /\ \A d \in Events : d # e => jobs'[d] = jobs[d]
         /\ jobs'[e] = jobs[e] \/ (jobs[e].status = "processing" /\ jobs'[e].status = state)
BY DEF JobEnds, SyncTypeOK, JobRow

LEMMA FailNews ==
  ASSUME SyncIInv, NewsInv, NEW w \in Runners, FailRun(w)
  PROVE  NewsInv'
<1>1. /\ UNCHANGED <<provider, user, lifecycle, asked, events, applied, hooks>>
      /\ Rest(w) /\ runs[w].job \in Events
  BY DEF FailRun, accountVars, SyncIInv, Linked
<1>2. PICK state \in {"pending", "dead"} : JobEnds(runs[w].job, state)
  BY DEF FailRun
<1>3. /\ \A v \in Runners : v # w => runs'[v] = runs[v]
      /\ runs'[w].at = "idle"
  BY <1>1, RestEffect DEF SyncIInv
<1>4. \A d \in Events : jobs'[d] = jobs[d] \/ (jobs[d].status = "processing" /\ jobs'[d].status \in {"pending", "dead"})
  BY <1>1, <1>2, EndRow DEF SyncIInv
<1>5. Delivered'
  BY <1>1, <1>3, <1>4, StillSuperseded DEF NewsInv, Delivered
<1>6. Observed(w)'
  BY <1>3 DEF Observed
<1> QED
  BY <1>1, <1>3, <1>5, <1>6, QuietNews

LEMMA KnowsRow ==
  ASSUME SyncTypeOK, NEW w \in Runners, NEW at, NEW view, Knows(w, at, view)
  PROVE  /\ \A v \in Runners : v # w => runs'[v] = runs[v]
         /\ runs'[w].at = at /\ runs'[w].seen = view /\ runs'[w].job = runs[w].job
<1> DEFINE r == [runs[w] EXCEPT !.at = at, !.seen = view]
<1>1. runs' = [runs EXCEPT ![w] = r]
  BY DEF Knows
<1>2. r.at = at /\ r.seen = view /\ r.job = runs[w].job
  BY DEF SyncTypeOK, Run
<1> HIDE DEF r
<1> QED
  BY <1>1, <1>2 DEF SyncTypeOK

\* What is not fresh is superseded.
LEMMA Stale ==
  ASSUME SyncIInv, NewsInv, SyncAssumption, NEW e \in Events, events[e].who \in Subjects, ~IsFresh(events[e].who, e)
  PROVE  Superseded(e)
<1>1. CASE lifecycle[events[e].who] = "deleted"
  BY <1>1 DEF Superseded
<1>2. CASE lifecycle[events[e].who] # "deleted"
  <2>1. applied[events[e].who] # None /\ ~Before(applied[events[e].who], e) /\ applied[events[e].who] \in Events
    BY <1>2 DEF IsFresh, NewsInv, Delivered
  <2> QED
    BY <2>1, EventOrder DEF Superseded, SyncIInv
<1> QED
  BY <1>1, <1>2

LEMMA ClassifyNews ==
  ASSUME SyncIInv, NewsInv, SyncAssumption, NEW w \in Runners, Classify(w)
  PROVE  NewsInv'
<1>1. /\ UNCHANGED <<provider, user, lifecycle, asked, events, applied, hooks, jobs>>
      /\ runs[w].at = "classify" /\ runs[w].job \in Events /\ events[runs[w].job].who \in Subjects
  BY DEF Classify, accountVars, SyncIInv, Linked
<1>2. PICK at \in {"fetch", "apply"}, view \in Observations :
        /\ Knows(w, at, view)
        /\ at = "apply" => \/ view.kind = "skip" /\ ~IsFresh(events[runs[w].job].who, runs[w].job)
                           \/ view.kind = "deleted"
  <2>1. /\ Unseen \in Observations
        /\ [Unseen EXCEPT !.kind = "skip"] \in Observations /\ [Unseen EXCEPT !.kind = "skip"].kind = "skip"
        /\ [Unseen EXCEPT !.kind = "deleted"] \in Observations /\ [Unseen EXCEPT !.kind = "deleted"].kind = "deleted"
    BY DEF Unseen, Observations
  <2> QED
    BY <2>1 DEF Classify
<1>3. /\ \A v \in Runners : v # w => runs'[v] = runs[v]
      /\ runs'[w].at = at /\ runs'[w].seen = view /\ runs'[w].job = runs[w].job
  BY <1>2, KnowsRow DEF SyncIInv
<1>4. Delivered'
  BY <1>1, <1>3, StillSuperseded DEF NewsInv, Delivered
<1>5. Observed(w)'
  <2>1. view.kind = "skip" /\ at = "apply" => Superseded(runs[w].job)'
    BY <1>1, <1>2, <1>3, Stale, StillSuperseded
  <2> QED
    BY <1>1, <1>2, <1>3, <2>1 DEF Observed
<1> QED
  BY <1>1, <1>3, <1>4, <1>5, QuietNews

LEMMA FetchNews ==
  ASSUME SyncIInv, NewsInv, NEW w \in Runners, Fetch(w)
  PROVE  NewsInv'
<1> DEFINE p == provider[events[runs[w].job].who]
<1>1. /\ UNCHANGED <<provider, user, lifecycle, asked, events, applied, hooks, jobs>>
      /\ runs[w].at = "fetch" /\ runs[w].job \in Events /\ events[runs[w].job].who \in Subjects
  BY DEF Fetch, accountVars, SyncIInv, Linked
<1>2. PICK view : /\ Knows(w, "apply", view)
                  /\ \/ view.kind = "not_found"
                     \/ view.kind = "snapshot" /\ ~p.gone /\ view.email = p.email /\ view.banned = p.banned
  <2>1. CASE p.gone
    <3>1. [Unseen EXCEPT !.kind = "not_found"].kind = "not_found"
      BY DEF Unseen
    <3>2. Knows(w, "apply", [Unseen EXCEPT !.kind = "not_found"])
      BY <2>1 DEF Fetch
    <3> QED
      BY <3>1, <3>2
  <2>2. CASE ~p.gone
    <3> DEFINE view == [kind |-> "snapshot", email |-> p.email, banned |-> p.banned]
    <3>1. Knows(w, "apply", view)
      BY <2>2 DEF Fetch
    <3>2. view.kind = "snapshot" /\ view.email = p.email /\ view.banned = p.banned
      OBVIOUS
    <3> HIDE DEF view
    <3> QED
      BY <2>2, <3>1, <3>2
  <2> QED
    BY <2>1, <2>2
<1>3. /\ \A v \in Runners : v # w => runs'[v] = runs[v]
      /\ runs'[w].at = "apply" /\ runs'[w].seen = view /\ runs'[w].job = runs[w].job
  BY <1>2, KnowsRow DEF SyncIInv
<1>4. Delivered'
  BY <1>1, <1>3, StillSuperseded DEF NewsInv, Delivered
<1>5. Observed(w)'
  BY <1>1, <1>2, <1>3 DEF Observed
<1> QED
  BY <1>1, <1>3, <1>4, <1>5, QuietNews

\* The event takes effect: it is newer than what the subject has.
LEMMA TakesEffect ==
  ASSUME SyncIInv, NewsInv, SyncAssumption, NEW e \in Events, events[e].who \in Subjects, hooks[e] # None,
         IsFresh(events[e].who, e), UNCHANGED <<provider, asked, events, hooks>>,
         applied' = [applied EXCEPT ![events[e].who] = e],
         \A s \in Subjects : s # events[e].who => user'[s] = user[s] /\ lifecycle'[s] = lifecycle[s]
  PROVE  /\ \A d \in Happened : Superseded(d) => Superseded(d)'
         /\ Superseded(e)'
         /\ applied'[events[e].who] = e
         /\ \A s \in Subjects : s # events[e].who => applied'[s] = applied[s] /\ UpToDate(s)'
         /\ \A s, d : After(s, d)' <=> After(s, d)
         /\ Happened' = Happened
<1> DEFINE s == events[e].who
<1>1. /\ applied'[s] = e /\ \A r \in Subjects : r # s => applied'[r] = applied[r]
      /\ e # None /\ lifecycle[s] # "deleted"
  BY DEF SyncIInv, SyncTypeOK, SyncAssumption, IsFresh
<1>2. Happened' = Happened /\ \A d, f : Before(d, f)' <=> Before(d, f)
  BY DEF Happened, Before, Rank
<1>3. \A r, d : After(r, d)' <=> After(r, d)
  BY <1>2 DEF After
<1>4. ASSUME NEW d \in Happened, Superseded(d) PROVE Superseded(d)'
  <2>1. d \in Events /\ events[d].who \in Subjects
    BY DEF Happened, SyncIInv, Linked
  <2>2. CASE events[d].who # s
    BY <1>1, <1>2, <1>4, <2>1, <2>2 DEF Superseded
  <2>3. CASE events[d].who = s
    <3>1. applied[s] # None /\ applied[s] \in Events /\ (applied[s] = d \/ Before(d, applied[s]))
      BY <1>1, <1>4, <2>1, <2>3 DEF Superseded, NewsInv, Delivered
    <3>2. Before(applied[s], e)
      BY <3>1 DEF IsFresh
    <3>3. Before(d, e)
      BY <2>1, <3>1, <3>2, EventOrder DEF SyncIInv
    <3> QED
      BY <1>1, <1>2, <2>3, <3>3 DEF Superseded
  <2> QED
    BY <2>2, <2>3
<1>5. Superseded(e)'
  BY <1>1 DEF Superseded
<1>6. \A r \in Subjects : r # s => UpToDate(r)'
  BY <1>1, <1>3 DEF NewsInv, UpToDate
<1> QED
  BY <1>1, <1>2, <1>3, <1>4, <1>5, <1>6

LEMMA ApplyNews ==
  ASSUME SyncIInv, NewsInv, SyncAssumption, NEW w \in Runners, Apply(w)
  PROVE  NewsInv'
<1> SUFFICES ASSUME NEW e, NEW s, NEW view, e = runs[w].job, s = events[e].who, view = runs[w].seen
             PROVE  NewsInv'
  OBVIOUS
<1>1. /\ UNCHANGED <<provider, asked, events, hooks>>
      /\ runs[w].at = "apply" /\ e \in Events /\ s \in Subjects /\ hooks[e] # None /\ e \in Happened
      /\ Rest(w) /\ JobEnds(e, "processed") /\ Observed(w)
  BY DEF Apply, SyncIInv, Linked, NewsInv, Delivered
<1>2. \/ (view.kind = "skip" \/ ~IsFresh(s, e)) /\ UNCHANGED <<applied, user, lifecycle>>
      \/ /\ view.kind # "skip" /\ IsFresh(s, e) /\ applied' = [applied EXCEPT ![s] = e]
         /\ IF view.kind = "snapshot" THEN SnapshotApplied(s, view) ELSE TombstoneApplied(s)
  BY DEF Apply
<1>3. view \in Observations
  BY DEF SyncIInv, SyncTypeOK, Run
<1>4. /\ \A v \in Runners : v # w => runs'[v] = runs[v]
      /\ runs'[w].at = "idle"
  BY <1>1, RestEffect DEF SyncIInv
<1>5. \A d \in Events : jobs'[d] = jobs[d] \/ (d = e /\ jobs[d].status = "processing" /\ jobs'[d].status = "processed")
  BY <1>1, EndRow DEF SyncIInv
<1>6. CASE (view.kind = "skip" \/ ~IsFresh(s, e)) /\ UNCHANGED <<applied, user, lifecycle>>
  <2>1. Superseded(e)
    BY <1>1, <1>6, Stale DEF Observed
  <2>2. Delivered'
    <3>1. /\ \A d : Superseded(d)' <=> Superseded(d)
          /\ Happened' = Happened /\ Delivered
      BY <1>1, <1>6, StillSuperseded DEF NewsInv
    <3>2. \A d \in Events : jobs'[d].status # "none" => hooks'[d] # None
      BY <1>1, <1>5, <3>1 DEF Delivered
    <3>3. \A d \in Events : jobs'[d].status = "processed" => Superseded(d)'
      BY <1>5, <2>1, <3>1 DEF Delivered
    <3>4. \A v \in Runners : runs'[v].at # "idle" => runs'[v].job \in Events /\ hooks'[runs'[v].job] # None
      BY <1>1, <1>4, <3>1 DEF Delivered
    <3> QED
      BY <1>1, <1>6, <3>1, <3>2, <3>3, <3>4 DEF Delivered
  <2>3. Observed(w)'
    BY <1>4 DEF Observed
  <2> QED
    BY <1>1, <1>4, <1>6, <2>2, <2>3, QuietNews
<1>7. CASE /\ view.kind # "skip" /\ IsFresh(s, e) /\ applied' = [applied EXCEPT ![s] = e]
           /\ IF view.kind = "snapshot" THEN SnapshotApplied(s, view) ELSE TombstoneApplied(s)
  <2>1. lifecycle[s] # "deleted"
    BY <1>7 DEF IsFresh
  <2>2. \A r \in Subjects : r # s => user'[r] = user[r] /\ lifecycle'[r] = lifecycle[r]
    BY <1>1, <1>3, <1>7, <2>1, SnapshotEffect, TombstoneEffect DEF SyncIInv
  <2>3. /\ \A d \in Happened : Superseded(d) => Superseded(d)'
        /\ Superseded(e)'
        /\ applied'[s] = e
        /\ \A r \in Subjects : r # s => applied'[r] = applied[r] /\ UpToDate(r)'
        /\ \A r, d : After(r, d)' <=> After(r, d)
        /\ Happened' = Happened
    BY <1>1, <1>7, <2>2, TakesEffect
  <2>4. Delivered'
    <3>1. \A d \in Events : jobs'[d].status = "processed" => Superseded(d)'
      BY <1>1, <1>5, <2>3 DEF NewsInv, Delivered
    <3>2. \A d \in Events : jobs'[d].status # "none" => jobs[d].status # "none"
      BY <1>5
    <3>3. \A r \in Subjects : applied'[r] # None =>
            applied'[r] \in Events /\ events[applied'[r]].who = r /\ hooks[applied'[r]] # None
      BY <1>1, <2>3 DEF NewsInv, Delivered
    <3>4. \A d \in Events : hooks'[d] # None => d \in Happened'
      BY <1>1, <2>3 DEF NewsInv, Delivered
    <3>5. \A d \in Events : jobs'[d].status # "none" => hooks'[d] # None
      BY <1>1, <3>2 DEF NewsInv, Delivered
    <3>6. \A v \in Runners : runs'[v].at # "idle" => runs'[v].job \in Events /\ hooks'[runs'[v].job] # None
      BY <1>1, <1>4 DEF NewsInv, Delivered
    <3> QED
      BY <1>1, <3>1, <3>3, <3>4, <3>5, <3>6 DEF Delivered
  <2>5. ASSUME NEW v \in Runners PROVE Observed(v)'
    <3>1. CASE v = w
      BY <1>4, <3>1 DEF Observed
    <3>2. CASE v # w
      <4>1. runs[v].at # "idle" => runs[v].job \in Happened
        BY DEF NewsInv, Delivered
      <4>2. runs'[v] = runs[v] /\ Observed(v)
        BY <1>4, <3>2 DEF NewsInv
      <4>3. Superseded(runs[v].job) /\ runs[v].job \in Happened => Superseded(runs[v].job)'
        BY <2>3, <4>2
      <4>4. After(events[runs[v].job].who, runs[v].job) => After(events[runs[v].job].who, runs[v].job)'
        BY <1>1, <2>3, <4>2
      <4> QED
        BY <1>1, <4>1, <4>2, <4>3, <4>4 DEF Observed
    <3> QED
      BY <3>1, <3>2
  <2>6. UpToDate(s)'
    <3>1. CASE view.kind # "snapshot"
      <4>1. lifecycle'[s] = "deleted"
        BY <1>1, <1>7, <3>1 DEF TombstoneApplied, SyncIInv, SyncTypeOK, AccountsTypeOK
      <4> QED
        BY <4>1, <1>1 DEF UpToDate
    <3>2. CASE view.kind = "snapshot" /\ After(s, e)
      BY <1>1, <2>3, <3>2 DEF UpToDate
    <3>3. CASE view.kind = "snapshot" /\ ~After(s, e)
      <4>1. ~provider[s].gone /\ view.email = provider[s].email /\ view.banned = provider[s].banned
        BY <1>1, <3>3 DEF Observed
      <4>2. /\ lifecycle'[s] = IF view.banned \/ lifecycle[s] = "blocked" THEN "blocked" ELSE "active"
            /\ user'[s] = UserAfter(s, view)
        BY <1>1, <1>7, <3>3 DEF SnapshotApplied, SyncIInv, SyncTypeOK, AccountsTypeOK
      <4>3. view.email \in {None, user'[s].email}
        <5>1. CASE user[s].status = "none" /\ view.email # None
          BY <4>2, <5>1 DEF UserAfter
        <5>2. CASE user[s].status # "none"
          BY <4>2, <5>2 DEF UserAfter
        <5> QED
          BY <5>1, <5>2
      <4>4. user'[s].status = "none" => view.email = None
        <5>1. CASE user[s].status = "none" /\ view.email # None
          BY <4>2, <5>1 DEF UserAfter
        <5>2. CASE user[s].status # "none"
          BY <4>2, <5>2 DEF UserAfter
        <5> QED
          BY <5>1, <5>2
      <4> QED
        BY <1>1, <4>1, <4>2, <4>3, <4>4 DEF UpToDate
    <3> QED
      BY <3>1, <3>2, <3>3
  <2> QED
    BY <2>3, <2>4, <2>5, <2>6 DEF NewsInv
<1> QED
  BY <1>2, <1>6, <1>7

LEMMA AsideNews ==
  ASSUME SyncIInv, NewsInv,
         UNCHANGED <<provider, user, lifecycle, asked, events, applied, hooks, jobs, runs>>
  PROVE  NewsInv'
<1>1. Delivered'
  BY StillSuperseded DEF NewsInv, Delivered
<1> QED
  BY <1>1, QuietNews

LEMMA InitNews == SyncInit => NewsInv
<1> SUFFICES ASSUME SyncInit PROVE NewsInv
  OBVIOUS
<1>1. Delivered /\ \A w \in Runners : Observed(w)
  BY DEF SyncInit, Delivered, Observed
<1>2. ASSUME NEW s \in Subjects PROVE UpToDate(s)
  <2>1. ~provider[s].gone /\ ~provider[s].banned /\ user[s].status = "none"
    BY DEF SyncInit, AccountsInit
  <2>2. \A q \in Callers : asked[q].at \in {"start", "done"}
    <3> SUFFICES ASSUME NEW q \in Callers PROVE asked[q].at \in {"start", "done"}
      OBVIOUS
    <3>1. asked[q] \in NewCalls
      BY DEF SyncInit, AccountsInit
    <3> QED
      BY <3>1 DEF NewCalls
  <2> QED
    BY <2>1, <2>2 DEF UpToDate
<1> QED
  BY <1>1, <1>2 DEF NewsInv

LEMMA NextNews ==
  ASSUME AccountsAssumption, SyncAssumption, SyncIInv, NewsInv, [SyncNext]_syncAll
  PROVE  NewsInv'
<1>1. CASE UNCHANGED syncAll
  BY <1>1, AsideNews DEF syncAll, accountVars, syncVars
<1>2. ASSUME NEW s \in Subjects, ChangeAtProvider(s) \/ DeleteAtProvider(s)
      PROVE  NewsInv'
  <2>1. ASSUME NEW profile, Happens(s, "changed", profile) \/ Happens(s, "deleted", profile) PROVE NewsInv'
    BY <2>1, HappensNews
  <2>2. CASE ChangeAtProvider(s)
    BY <2>1, <2>2 DEF ChangeAtProvider
  <2>3. CASE DeleteAtProvider(s)
    BY <2>1, <2>3 DEF DeleteAtProvider
  <2> QED
    BY <1>2, <2>2, <2>3
<1>3. CASE \E e \in Events : StallJob(e) \/ \E h \in Hashes : Ingest(e, h)
  BY <1>3, StallNews, IngestNews
<1>4. CASE \E w \in Runners : FailRun(w) \/ Classify(w) \/ Fetch(w) \/ Apply(w) \/ \E e \in Events : ClaimJob(w, e)
  BY <1>4, FailNews, ClassifyNews, FetchNews, ApplyNews, ClaimNews
<1>5. ASSUME NEW m \in revocations, RevokeMembership(m) PROVE NewsInv'
  BY <1>5, AsideNews DEF RevokeMembership
<1>6. ASSUME NEW q \in Callers, CallStep(q), UNCHANGED syncVars PROVE NewsInv'
  BY <1>6, CallNews, CommitNews
<1>7. ASSUME NEW i \in Invitations, PassDeadline(i) \/ BeginMailing(i) \/ EndMailing(i), UNCHANGED syncVars
      PROVE  NewsInv'
  BY <1>7, AsideNews DEF PassDeadline, BeginMailing, EndMailing, accountRows, syncVars
<1> QED
  BY <1>1, <1>2, <1>3, <1>4, <1>5, <1>6, <1>7 DEF SyncNext, SyncStep, AccountsNext

LEMMA NewsSettled ==
  ASSUME SyncIInv, NewsInv, SyncAssumption
  PROVE  QuietIdentityIsInSync
<1> SUFFICES ASSUME NEW s \in Subjects, Quiet(s)
             PROVE  /\ provider[s].gone => lifecycle[s] = "deleted"
                    /\ provider[s].banned \/ provider[s].gone => user[s].status # "active"
                    /\ user[s].status = "active" => provider[s].email \in {None, user[s].email}
  BY DEF QuietIdentityIsInSync
<1>1. lifecycle[s] \in {"blocked", "deleted"} => user[s].status # "active"
  BY DEF SyncIInv, TombstonesHold
<1>2. CASE lifecycle[s] = "deleted"
  BY <1>1, <1>2
<1>3. CASE lifecycle[s] # "deleted"
  <2>1. ~After(s, applied[s])
    <3> SUFFICES ASSUME NEW d \in Happened, events[d].who = s,
                        applied[s] = None \/ events[d].time > events[applied[s]].time
                 PROVE  FALSE
      BY DEF After
    <3>1. d \in Events /\ Superseded(d)
      BY DEF Quiet, Happened, NewsInv, Delivered
    <3>2. applied[s] # None /\ applied[s] \in Events /\ (applied[s] = d \/ Before(d, applied[s]))
      BY <1>3, <3>1 DEF Superseded, NewsInv, Delivered
    <3>3. events[d].time \in Nat /\ events[applied[s]].time \in Nat
      BY <3>1, <3>2 DEF SyncIInv, SyncTypeOK
    <3>4. events[d].time <= events[applied[s]].time
      <4>1. CASE applied[s] = d
        BY <3>3, <4>1
      <4>2. CASE Before(d, applied[s])
        BY <3>1, <3>2, <4>2, EventOrder DEF SyncIInv
      <4> QED
        BY <3>2, <4>1, <4>2
    <3> QED
      BY <3>2, <3>3, <3>4
  <2> QED
    BY <1>1, <1>3, <2>1 DEF NewsInv, UpToDate
<1> QED
  BY <1>2, <1>3

\* Once every event of a subject is delivered and its job done, however late,
\* repeated and out of order they came, the local user is what the provider
\* says, but for what a ban or a deletion has made final.
THEOREM QuietInSync == SyncSpec => []QuietIdentityIsInSync
<1>1. SyncInit => SyncIInv /\ NewsInv
  BY Initially, InitNews
<1>2. (SyncIInv /\ NewsInv) /\ [SyncNext]_syncAll => (SyncIInv /\ NewsInv)'
  BY Inductive, NextNews, AccountsAssumption, SyncAssumption
<1>3. SyncIInv /\ NewsInv => QuietIdentityIsInSync
  BY NewsSettled, SyncAssumption
<1> QED
  BY <1>1, <1>2, <1>3, PTL DEF SyncSpec
-----------------------------------------------------------------------------
(* Calls. *)

IsIn(s, shop) == \E m \in members : m.who = s /\ m.shop = shop
Founded(s) == \E m \in members : m.who = s /\ m.via = None

\* What a call wants, and that it writes nothing else.
Purpose(q) ==
  LET c == asked[q] IN
  /\ c.op \in {"accept", "revoke"} => c.inv \in Invitations
  /\ c.op = "onboard" => c.inv = None
  /\ c.at \notin {"commit", "done"} => c.sets = "nothing"
  /\ c.at = "start" => c.drops = {}
  /\ c.drops # {} \/ c.at = "insert" => c.op = "create"
  /\ c.at = "write" => c.op \in {"accept", "revoke"}
  /\ c.sets \in {"accepted", "expired"} => c.op = "accept"
  /\ c.sets = "revoked" => c.op = "revoke"
  /\ c.sets = "workshop" => c.op = "onboard"
  /\ c.sets = "created" => c.op = "create" /\ c.inv \in Invitations
  /\ c.at = "commit" => /\ c.op = "revoke" => c.sets = "revoked"
                        /\ c.sets = "accepted" => c.answer = "accepted"

\* What it has read under its locks still holds.
StillTrue(q) ==
  LET c == asked[q] IN
  /\ c.at = "write" \/ (c.at = "commit" /\ c.sets \in Terminal) => invited[c.inv].status = "pending"
  /\ (c.at = "write" /\ c.op = "accept") \/ (c.at = "commit" /\ c.sets = "accepted") =>
       invited[c.inv].email = c.profile /\ ~IsIn(c.who, Home)
  /\ c.at = "commit" /\ c.sets \in Terminal => c.inv \notin mailing
  /\ c.at \in {"insert", "commit"} => \A i \in c.drops :
       invited[i].status = "pending" /\ invited[i].email = c.email /\ i \notin mailing
  /\ c.at = "commit" /\ c.sets = "created" =>
       /\ invited[c.inv].status = "none"
       /\ \A i \in Invitations : invited[i].status = "pending" /\ invited[i].email = c.email => i \in c.drops
  /\ c.at = "commit" /\ c.sets = "workshop" => ~Founded(c.who)

\* What a caller has been told lasts.
Told(q) ==
  LET c == asked[q] IN c.at = "done" =>
    /\ c.answer = "revoked" /\ c.op = "revoke" => invited[c.inv].status = "revoked"
    /\ c.answer = c.sets /\ c.sets = "accepted" => invited[c.inv].status = "accepted"
    /\ c.answer = "created" /\ c.sets = "workshop" => IsIn(c.who, q)
    /\ c.answer = "created" /\ c.sets = "created" => invited[c.inv].email = c.email

OneWriter ==
  /\ \A i \in Invitations : \A q, r \in Callers : HoldsInvitation(q, i) /\ HoldsInvitation(r, i) => q = r
  /\ \A q, r \in Callers :
       /\ asked[q].sets = "created" /\ asked[r].sets = "created" => (asked[q].inv = asked[r].inv => q = r)
       /\ asked[q].sets = "created" /\ asked[r].sets = "created" /\ asked[q].at = "commit" /\ asked[r].at = "commit" =>
            (asked[q].email = asked[r].email => q = r)

\* Where a membership comes from.
Origin(m) ==
  /\ m.via = None => m.shop # Home /\ m.status = "active"
  /\ m.via # None =>
       /\ m.shop = Home /\ invited[m.via].status = "accepted"
       /\ \E q \in Callers : /\ asked[q].answer = "accepted" /\ asked[q].inv = m.via
                             /\ asked[q].who = m.who /\ asked[q].profile = invited[m.via].email
                             /\ asked[q].at = "done"

Memberful ==
  /\ \A m \in members : Origin(m)
  /\ \A m, n \in members : m.via # None /\ m.via = n.via => m = n
  /\ \A m, n \in members : m.who = n.who /\ (m.shop = n.shop \/ {m.via, n.via} = {None}) => m = n
  /\ \A i \in Invitations : invited[i].status = "accepted" => \E m \in members : m.via = i
  /\ revocations \subseteq members

Offers ==
  /\ \A i \in mailing : invited[i].status = "pending"
  /\ \A i, j \in Invitations : invited[i].status = "pending" /\ invited[j].status = "pending" =>
       (invited[i].email = invited[j].email => i = j)

AccountsInv ==
  /\ \A q \in Callers : Purpose(q) /\ StillTrue(q) /\ Told(q)
  /\ OneWriter /\ Memberful /\ Offers
-----------------------------------------------------------------------------
\* A call moves by itself, into what it has checked and locked.
LEMMA TurnKeeps ==
  ASSUME SyncIInv, AccountsInv, NEW q \in Callers, Asked(q), asked[q].at # "done",
         UNCHANGED <<members, invited, mailing, revocations>>,
         Purpose(q)', StillTrue(q)', Told(q)',
         \A i \in Invitations : HoldsInvitation(q, i)' => HoldsInvitation(q, i) \/ InvitationFree(i),
         asked'[q].sets = "created" => \A r \in Callers \ {q} : asked[r].sets = "created" =>
            /\ asked[r].inv # asked'[q].inv
            /\ asked'[q].at = "commit" /\ asked[r].at = "commit" => asked[r].email # asked'[q].email
  PROVE  AccountsInv'
<1>1. \A r \in Callers : r # q => asked'[r] = asked[r]
  BY DEF Asked, Others
<1>2. ASSUME NEW r \in Callers PROVE Purpose(r)' /\ StillTrue(r)' /\ Told(r)'
  <2>1. CASE r = q
    BY <2>1
  <2>2. CASE r # q
    <3>1. Purpose(r) /\ StillTrue(r) /\ Told(r) /\ asked'[r] = asked[r]
      BY <1>1, <2>2 DEF AccountsInv
    <3> QED
      BY <3>1 DEF Purpose, StillTrue, Told, IsIn, Founded
  <2> QED
    BY <2>1, <2>2
<1>3. OneWriter'
  <2>1. \A r \in Callers : r # q => \A i \in Invitations : HoldsInvitation(r, i)' <=> HoldsInvitation(r, i)
    BY <1>1 DEF HoldsInvitation
  <2>2. \A i \in Invitations : \A r, s \in Callers : HoldsInvitation(r, i)' /\ HoldsInvitation(s, i)' => r = s
    BY <2>1 DEF AccountsInv, OneWriter, InvitationFree
  <2>3. \A r, s \in Callers : r # s =>
       /\ asked'[r].sets = "created" /\ asked'[s].sets = "created" => asked'[r].inv # asked'[s].inv
       /\ asked'[r].sets = "created" /\ asked'[s].sets = "created" /\ asked'[r].at = "commit" /\ asked'[s].at = "commit" =>
            asked'[r].email # asked'[s].email
    BY <1>1 DEF AccountsInv, OneWriter
  <2> QED
    BY <2>2, <2>3 DEF OneWriter
<1>4. Memberful'
  <2>1. \A m \in members : Origin(m) => Origin(m)'
    BY <1>1 DEF Origin
  <2> QED
    BY <2>1 DEF AccountsInv, Memberful
<1>5. Offers'
  BY DEF AccountsInv, Offers
<1> QED
  BY <1>2, <1>3, <1>4, <1>5 DEF AccountsInv

LEMMA RefuseKeeps ==
  ASSUME SyncIInv, AccountsInv, NEW q \in Callers, NEW answer, Refuse(q, answer), asked[q].at # "done",
         UNCHANGED <<members, invited, mailing, revocations>>,
         \/ answer \notin {"revoked", "accepted", "created"}
         \/ /\ asked[q].at # "commit" /\ answer # "created"
            /\ answer = "revoked" /\ asked[q].op = "revoke" => invited[asked[q].inv].status = "revoked"
  PROVE  AccountsInv'
<1>1. /\ Asked(q) /\ asked'[q].inv = asked[q].inv /\ asked'[q].profile = asked[q].profile
      /\ asked'[q].sets = asked[q].sets /\ asked'[q].drops = asked[q].drops
      /\ asked'[q].at = "done" /\ asked'[q].answer = answer
  BY RefuseRow DEF SyncIInv, SyncTypeOK
<1>2. Purpose(q) /\ asked'[q].op = asked[q].op /\ asked'[q].who = asked[q].who
  BY <1>1 DEF AccountsInv, Asked
<1>3. Purpose(q)' /\ StillTrue(q)' /\ Told(q)'
  <2>1. Purpose(q)'
    BY <1>1, <1>2 DEF Purpose
  <2>2. StillTrue(q)'
    BY <1>1 DEF StillTrue
  <2>3. Told(q)'
    BY <1>1, <1>2 DEF Told, Purpose
  <2> QED
    BY <2>1, <2>2, <2>3
<1>4. \A i \in Invitations : ~HoldsInvitation(q, i)'
  BY <1>1 DEF HoldsInvitation
<1>5. \A r \in Callers \ {q} : asked'[q].sets = "created" /\ asked[r].sets = "created" => asked[r].inv # asked'[q].inv
  BY <1>1 DEF AccountsInv, OneWriter
<1> QED
  BY <1>1, <1>3, <1>4, <1>5, TurnKeeps

\* Towards the locks and the checks.
LEMMA EnterKeeps ==
  ASSUME SyncIInv, AccountsInv, NEW q \in Callers, Asked(q),
         asked'[q].inv = asked[q].inv, asked'[q].sets = asked[q].sets, asked'[q].drops = asked[q].drops,
         asked[q].at \notin {"commit", "done"}, asked'[q].at \in {"provision", "find", "check"},
         UNCHANGED <<members, invited, mailing, revocations>>
  PROVE  AccountsInv'
<1>1. Purpose(q) /\ asked'[q].op = asked[q].op /\ asked[q].sets = "nothing"
  BY DEF AccountsInv, Asked, Purpose
<1>2. Purpose(q)' /\ StillTrue(q)' /\ Told(q)'
  BY <1>1 DEF Purpose, StillTrue, Told
<1>3. \A i \in Invitations : ~HoldsInvitation(q, i)'
  BY DEF HoldsInvitation
<1> QED
  BY <1>1, <1>2, <1>3, TurnKeeps

LEMMA ReadProfileKeeps ==
  ASSUME SyncIInv, AccountsInv, NEW q \in Callers, ReadProfile(q), UNCHANGED revocations
  PROVE  AccountsInv'
<1>1. asked[q].at = "start" /\ UNCHANGED <<members, invited, mailing>>
  BY DEF ReadProfile, accountRows
<1>2. CASE Refuse(q, "IDENTITY_PROFILE_INVALID")
  BY <1>1, <1>2, RefuseKeeps
<1>3. ASSUME NEW profile, asked' = [asked EXCEPT ![q] = [@ EXCEPT !.at = "provision", !.profile = profile]]
      PROVE  AccountsInv'
  BY <1>1, <1>3, ProfileRow, EnterKeeps DEF SyncIInv, SyncTypeOK
<1> QED
  BY <1>2, <1>3 DEF ReadProfile

LEMMA ProvisionKeeps ==
  ASSUME SyncIInv, AccountsInv, NEW q \in Callers, Provision(q), UNCHANGED revocations
  PROVE  AccountsInv'
<1>1. asked[q].at = "provision" /\ UNCHANGED <<members, invited, mailing>>
  BY DEF Provision, accountRows
<1>2. CASE Refuse(q, "USER_DISABLED")
  BY <1>1, <1>2, RefuseKeeps
<1>3. ASSUME NEW at \in {"find", "check"}, Goes(q, at) PROVE AccountsInv'
  BY <1>1, <1>3, GoesRow, EnterKeeps DEF SyncIInv, SyncTypeOK
<1> QED
  BY <1>2, <1>3 DEF Provision

LEMMA FoundWorkshopKeeps ==
  ASSUME SyncIInv, AccountsInv, NEW q \in Callers, FoundWorkshop(q), UNCHANGED revocations
  PROVE  AccountsInv'
<1>1. asked[q].at = "check" /\ asked[q].op = "onboard" /\ UNCHANGED <<members, invited, mailing>>
  BY DEF FoundWorkshop, accountRows
<1>2. CASE Refuse(q, "ONBOARDING_ALREADY_COMPLETED") \/ Refuse(q, "error")
  BY <1>1, <1>2, RefuseKeeps
<1>3. CASE asked' = [asked EXCEPT ![q] = [@ EXCEPT !.at = "provision", !.attempt = asked[q].attempt + 1]]
  BY <1>1, <1>3, AttemptRow, EnterKeeps DEF SyncIInv, SyncTypeOK
<1>4. CASE Writes(q, "workshop", "created") /\ ~\E m \in MembersOf(asked[q].who) : m.status = "active"
  <2>1. /\ Asked(q) /\ asked'[q].inv = asked[q].inv /\ asked'[q].profile = asked[q].profile
        /\ asked'[q].sets = "workshop" /\ asked'[q].drops = asked[q].drops
        /\ asked'[q].at = "commit" /\ asked'[q].answer = "created"
    BY <1>4, WritesRow DEF SyncIInv, SyncTypeOK
  <2>2. Purpose(q) /\ asked'[q].op = "onboard" /\ asked'[q].who = asked[q].who /\ asked[q].drops = {}
    BY <1>1, <2>1 DEF AccountsInv, Asked, Purpose
  <2>3. ~Founded(asked[q].who)
    BY <1>4 DEF Founded, MembersOf, AccountsInv, Memberful, Origin
  <2>4. Purpose(q)' /\ Told(q)'
    BY <1>1, <2>1, <2>2 DEF Purpose, Told
  <2>5. StillTrue(q)'
    BY <1>1, <2>1, <2>2, <2>3 DEF StillTrue, Terminal, Founded
  <2>6. \A i \in Invitations : ~HoldsInvitation(q, i)'
    BY <2>1, <2>2 DEF HoldsInvitation
  <2> QED
    BY <1>1, <2>1, <2>4, <2>5, <2>6, TurnKeeps
<1> QED
  BY <1>2, <1>3, <1>4 DEF FoundWorkshop

LEMMA FindInvitationKeeps ==
  ASSUME SyncIInv, AccountsInv, NEW q \in Callers, FindInvitation(q), UNCHANGED revocations
  PROVE  AccountsInv'
<1> DEFINE i == asked[q].inv
           wrong == Objection(q, i)
<1>1. /\ asked[q].at = "find" /\ asked[q].op = "accept" /\ UNCHANGED <<members, invited, mailing>>
      /\ InvitationFree(i) /\ i \in Invitations /\ Purpose(q) /\ asked[q].drops = {}
  BY DEF FindInvitation, accountRows, AccountsInv, Purpose
<1>2. \/ wrong = "nothing" /\ Goes(q, "write")
      \/ Refuse(q, "IN_PROGRESS")
      \/ wrong = "late" /\ i \notin mailing /\ Writes(q, "expired", "expired")
      \/ Writes(q, "nothing", "INVITATION_EMAIL_MISMATCH")
      \/ Refuse(q, wrong) /\ wrong \notin {"created"}
  <2>1. wrong # "created"
    BY DEF Objection, Terminal
  <2> HIDE DEF wrong
  <2>2. CASE wrong \notin {"nothing", "late", "INVITATION_EMAIL_MISMATCH"}
    BY <2>1, <2>2 DEF FindInvitation, wrong
  <2>3. CASE wrong \in {"nothing", "late", "INVITATION_EMAIL_MISMATCH"}
    BY <2>3 DEF FindInvitation, wrong
  <2> QED
    BY <2>2, <2>3
<1>3. CASE Refuse(q, "IN_PROGRESS") \/ (Refuse(q, wrong) /\ wrong \notin {"created"})
  <2> HIDE DEF wrong
  <2> QED
    BY <1>1, <1>3, RefuseKeeps
<1>4. wrong \in {"nothing", "late"} =>
        /\ invited[i].status # "none" /\ invited[i].status \notin Terminal /\ invited[i].email = asked[q].profile
        /\ wrong = "nothing" => ~IsIn(asked[q].who, Home)
  BY DEF Objection, Terminal, IsIn, MembersOf
<1>5. invited[i].status \in Terminal \cup {"none", "pending"}
  BY <1>1 DEF SyncIInv, SyncTypeOK, AccountsTypeOK
<1> HIDE DEF wrong
<1>6. CASE wrong = "nothing" /\ Goes(q, "write")
  <2>1. /\ Asked(q) /\ asked'[q].inv = asked[q].inv /\ asked'[q].profile = asked[q].profile
        /\ asked'[q].sets = asked[q].sets /\ asked'[q].drops = asked[q].drops
        /\ asked'[q].at = "write" /\ asked'[q].answer = asked[q].answer
        /\ asked'[q].op = asked[q].op /\ asked'[q].who = asked[q].who
    BY <1>6, GoesRow DEF SyncIInv, SyncTypeOK, Asked
  <2>2. Purpose(q)' /\ Told(q)' /\ asked'[q].sets = "nothing"
    BY <1>1, <2>1 DEF Purpose, Told
  <2>3. StillTrue(q)'
    BY <1>1, <1>4, <1>5, <1>6, <2>1 DEF StillTrue, IsIn
  <2>4. \A j \in Invitations : HoldsInvitation(q, j)' => InvitationFree(j)
    BY <1>1, <2>1 DEF HoldsInvitation
  <2> QED
    BY <1>1, <2>1, <2>2, <2>3, <2>4, TurnKeeps
<1>7. ASSUME NEW sets \in {"expired", "nothing"}, NEW answer \in {"expired", "INVITATION_EMAIL_MISMATCH"},
             Writes(q, sets, answer), sets = "expired" => wrong = "late" /\ i \notin mailing
      PROVE  AccountsInv'
  <2>1. /\ Asked(q) /\ asked'[q].inv = asked[q].inv /\ asked'[q].profile = asked[q].profile
        /\ asked'[q].sets = sets /\ asked'[q].drops = asked[q].drops
        /\ asked'[q].at = "commit" /\ asked'[q].answer = answer
        /\ asked'[q].op = asked[q].op /\ asked'[q].who = asked[q].who
    BY <1>7, WritesRow DEF SyncIInv, SyncTypeOK, Asked
  <2>2. Purpose(q)' /\ Told(q)'
    BY <1>1, <2>1 DEF Purpose, Told
  <2>3. StillTrue(q)'
    BY <1>1, <1>4, <1>5, <1>7, <2>1 DEF StillTrue, Terminal
  <2>4. \A j \in Invitations : HoldsInvitation(q, j)' => InvitationFree(j)
    BY <1>1, <2>1 DEF HoldsInvitation
  <2> QED
    BY <1>1, <2>1, <2>2, <2>3, <2>4, TurnKeeps
<1> QED
  BY <1>2, <1>3, <1>6, <1>7

LEMMA AcceptKeeps ==
  ASSUME SyncIInv, AccountsInv, NEW q \in Callers, AcceptInvitation(q), UNCHANGED revocations
  PROVE  AccountsInv'
<1>1. /\ asked[q].at = "write" /\ asked[q].op = "accept" /\ UNCHANGED <<members, invited, mailing>>
      /\ asked[q].inv \in Invitations /\ Purpose(q) /\ StillTrue(q) /\ asked[q].drops = {}
  BY DEF AcceptInvitation, accountRows, AccountsInv, Purpose
<1>2. CASE Refuse(q, "IN_PROGRESS") \/ Refuse(q, "expired")
  BY <1>1, <1>2, RefuseKeeps
<1>3. CASE Writes(q, "accepted", "accepted") /\ asked[q].inv \notin mailing
  <2>1. /\ Asked(q) /\ asked'[q].inv = asked[q].inv /\ asked'[q].profile = asked[q].profile
        /\ asked'[q].sets = "accepted" /\ asked'[q].drops = asked[q].drops
        /\ asked'[q].at = "commit" /\ asked'[q].answer = "accepted"
        /\ asked'[q].op = asked[q].op /\ asked'[q].who = asked[q].who
    BY <1>3, WritesRow DEF SyncIInv, SyncTypeOK, Asked
  <2>2. Purpose(q)' /\ Told(q)'
    BY <1>1, <2>1 DEF Purpose, Told
  <2>3. StillTrue(q)'
    BY <1>1, <1>3, <2>1 DEF StillTrue, Terminal, IsIn
  <2>4. \A j \in Invitations : HoldsInvitation(q, j)' => HoldsInvitation(q, j)
    BY <1>1, <2>1 DEF HoldsInvitation
  <2> QED
    BY <1>1, <2>1, <2>2, <2>3, <2>4, TurnKeeps
<1> QED
  BY <1>2, <1>3 DEF AcceptInvitation

LEMMA BeginRevokeKeeps ==
  ASSUME SyncIInv, AccountsInv, NEW q \in Callers, BeginRevoke(q), UNCHANGED revocations
  PROVE  AccountsInv'
<1> DEFINE row == invited[asked[q].inv]
<1>1. /\ asked[q].at = "start" /\ asked[q].op = "revoke" /\ UNCHANGED <<members, invited, mailing>>
      /\ asked[q].inv \in Invitations /\ Purpose(q) /\ asked[q].drops = {} /\ InvitationFree(asked[q].inv)
  BY DEF BeginRevoke, accountRows, AccountsInv, Purpose
<1>2. \/ Refuse(q, "INVITATION_NOT_FOUND") \/ Refuse(q, "INVITATION_ROLE_NOT_ALLOWED") \/ Refuse(q, "expired")
      \/ row.status \in Terminal /\ Refuse(q, row.status)
      \/ row.status = "pending" /\ Goes(q, "write")
  BY DEF BeginRevoke
<1> HIDE DEF row
<1>3. CASE Refuse(q, "INVITATION_NOT_FOUND") \/ Refuse(q, "INVITATION_ROLE_NOT_ALLOWED") \/ Refuse(q, "expired")
  BY <1>1, <1>3, RefuseKeeps
<1>4. CASE row.status \in Terminal /\ Refuse(q, row.status)
  <2>1. row.status # "created" /\ (row.status = "revoked" => invited[asked[q].inv].status = "revoked")
    BY <1>4 DEF row, Terminal
  <2> QED
    BY <1>1, <1>4, <2>1, RefuseKeeps
<1>5. CASE row.status = "pending" /\ Goes(q, "write")
  <2>1. /\ Asked(q) /\ asked'[q].inv = asked[q].inv /\ asked'[q].profile = asked[q].profile
        /\ asked'[q].sets = asked[q].sets /\ asked'[q].drops = asked[q].drops
        /\ asked'[q].at = "write" /\ asked'[q].answer = asked[q].answer
        /\ asked'[q].op = asked[q].op /\ asked'[q].who = asked[q].who
    BY <1>5, GoesRow DEF SyncIInv, SyncTypeOK, Asked
  <2>2. Purpose(q)' /\ Told(q)' /\ asked'[q].sets = "nothing"
    BY <1>1, <2>1 DEF Purpose, Told
  <2>3. StillTrue(q)'
    BY <1>1, <1>5, <2>1, <2>2 DEF StillTrue, Terminal, row
  <2>4. \A j \in Invitations : HoldsInvitation(q, j)' => InvitationFree(j)
    BY <1>1, <2>1 DEF HoldsInvitation
  <2> QED
    BY <1>1, <2>1, <2>2, <2>3, <2>4, TurnKeeps
<1> QED
  BY <1>2, <1>3, <1>4, <1>5

LEMMA RevokeInvitationKeeps ==
  ASSUME SyncIInv, AccountsInv, NEW q \in Callers, RevokeInvitation(q), UNCHANGED revocations
  PROVE  AccountsInv'
<1>1. /\ asked[q].at = "write" /\ asked[q].op = "revoke" /\ UNCHANGED <<members, invited, mailing>>
      /\ asked[q].inv \in Invitations /\ Purpose(q) /\ StillTrue(q) /\ asked[q].drops = {}
  BY DEF RevokeInvitation, accountRows, AccountsInv, Purpose
<1>2. CASE Refuse(q, "IN_PROGRESS")
  BY <1>1, <1>2, RefuseKeeps
<1>3. CASE Writes(q, "revoked", "revoked") /\ asked[q].inv \notin mailing
  <2>1. /\ Asked(q) /\ asked'[q].inv = asked[q].inv /\ asked'[q].profile = asked[q].profile
        /\ asked'[q].sets = "revoked" /\ asked'[q].drops = asked[q].drops
        /\ asked'[q].at = "commit" /\ asked'[q].answer = "revoked"
        /\ asked'[q].op = asked[q].op /\ asked'[q].who = asked[q].who
    BY <1>3, WritesRow DEF SyncIInv, SyncTypeOK, Asked
  <2>2. Purpose(q)' /\ Told(q)'
    BY <1>1, <2>1 DEF Purpose, Told
  <2>3. StillTrue(q)'
    BY <1>1, <1>3, <2>1 DEF StillTrue, Terminal
  <2>4. \A j \in Invitations : HoldsInvitation(q, j)' => HoldsInvitation(q, j)
    BY <1>1, <2>1 DEF HoldsInvitation
  <2> QED
    BY <1>1, <2>1, <2>2, <2>3, <2>4, TurnKeeps
<1> QED
  BY <1>2, <1>3 DEF RevokeInvitation

LEMMA ExpireOverdueKeeps ==
  ASSUME SyncIInv, AccountsInv, NEW q \in Callers, ExpireOverdue(q), UNCHANGED revocations
  PROVE  AccountsInv'
<1> DEFINE overdue == {i \in Invitations : /\ invited[i].email = asked[q].email
                                           /\ invited[i].status = "pending"
                                           /\ invited[i].due}
<1>1. /\ asked[q].at = "start" /\ asked[q].op = "create" /\ UNCHANGED <<members, invited, mailing>>
      /\ Purpose(q) /\ asked[q].sets = "nothing"
  BY DEF ExpireOverdue, accountRows, AccountsInv, Purpose
<1>2. \/ Refuse(q, "INVITATION_ROLE_NOT_ALLOWED") \/ Refuse(q, "error")
      \/ /\ \A i \in overdue : InvitationFree(i)
         /\ overdue \cap mailing = {}
         /\ asked' = [asked EXCEPT ![q] = [@ EXCEPT !.at = "insert", !.drops = overdue]]
  BY DEF ExpireOverdue
<1>3. CASE Refuse(q, "INVITATION_ROLE_NOT_ALLOWED") \/ Refuse(q, "error")
  BY <1>1, <1>3, RefuseKeeps
<1>4. \A i \in overdue : invited[i].status = "pending" /\ invited[i].email = asked[q].email
  OBVIOUS
<1> HIDE DEF overdue
<1>5. ASSUME \A i \in overdue : InvitationFree(i), overdue \cap mailing = {},
             asked' = [asked EXCEPT ![q] = [@ EXCEPT !.at = "insert", !.drops = overdue]]
      PROVE  AccountsInv'
  <2>1. /\ Asked(q) /\ asked'[q].inv = asked[q].inv /\ asked'[q].profile = asked[q].profile
        /\ asked'[q].sets = asked[q].sets /\ asked'[q].drops = overdue
        /\ asked'[q].at = "insert" /\ asked'[q].answer = asked[q].answer
        /\ asked'[q].op = asked[q].op /\ asked'[q].who = asked[q].who /\ asked'[q].email = asked[q].email
    BY <1>5, DropsRow DEF SyncIInv, SyncTypeOK, Asked
  <2>2. Purpose(q)' /\ Told(q)'
    BY <1>1, <2>1 DEF Purpose, Told
  <2>3. StillTrue(q)'
    BY <1>1, <1>4, <1>5, <2>1 DEF StillTrue
  <2>4. \A j \in Invitations : HoldsInvitation(q, j)' => InvitationFree(j)
    BY <1>1, <1>5, <2>1 DEF HoldsInvitation
  <2> QED
    BY <1>1, <2>1, <2>2, <2>3, <2>4, TurnKeeps
<1> QED
  BY <1>2, <1>3, <1>5

LEMMA CreateInvitationKeeps ==
  ASSUME SyncIInv, AccountsInv, NEW q \in Callers, CreateInvitation(q), UNCHANGED revocations
  PROVE  AccountsInv'
<1>1. /\ asked[q].at = "insert" /\ asked[q].op = "create" /\ UNCHANGED <<members, invited, mailing>>
      /\ Purpose(q) /\ StillTrue(q) /\ asked[q].sets = "nothing" /\ ~Undecided(q)
  BY DEF CreateInvitation, accountRows, AccountsInv, Purpose
<1>2. CASE Refuse(q, "INVITATION_ALREADY_PENDING")
  BY <1>1, <1>2, RefuseKeeps
<1>3. ASSUME NEW i \in Invitations, invited[i].status = "none", ~StillPending(q),
             \A r \in Callers : asked[r].sets = "created" => asked[r].inv # i,
             asked' = [asked EXCEPT ![q] = [@ EXCEPT !.at = "commit", !.inv = i, !.sets = "created",
                                                     !.answer = "created"]]
      PROVE  AccountsInv'
  <2>1. /\ Asked(q) /\ asked'[q].inv = i /\ asked'[q].profile = asked[q].profile
        /\ asked'[q].sets = "created" /\ asked'[q].drops = asked[q].drops
        /\ asked'[q].at = "commit" /\ asked'[q].answer = "created"
        /\ asked'[q].op = asked[q].op /\ asked'[q].who = asked[q].who /\ asked'[q].email = asked[q].email
    <3>1. AccountsTypeOK
      BY DEF SyncIInv, SyncTypeOK
    <3>2. /\ Asked(q) /\ asked'[q].inv = i /\ asked'[q].profile = asked[q].profile
          /\ asked'[q].sets = "created" /\ asked'[q].drops = asked[q].drops
          /\ asked'[q].at = "commit" /\ asked'[q].answer = "created"
      BY <1>3, <3>1, InsertRow
    <3> QED
      BY <3>2 DEF Asked
  <2>2. Purpose(q)' /\ Told(q)'
    BY <1>1, <2>1 DEF Purpose, Told
  <2>3. StillTrue(q)'
    BY <1>1, <1>3, <2>1 DEF StillTrue, StillPending, Terminal
  <2>4. \A j \in Invitations : HoldsInvitation(q, j)' => HoldsInvitation(q, j)
    BY <1>1, <2>1 DEF HoldsInvitation
  <2>5. \A r \in Callers \ {q} : asked[r].sets = "created" =>
            /\ asked[r].inv # asked'[q].inv
            /\ asked'[q].at = "commit" /\ asked[r].at = "commit" => asked[r].email # asked'[q].email
    BY <1>1, <1>3, <2>1 DEF Undecided
  <2> QED
    BY <1>1, <2>1, <2>2, <2>3, <2>4, <2>5, TurnKeeps
<1> QED
  BY <1>1, <1>2, <1>3 DEF CreateInvitation, InsertInvitation

LEMMA AbortKeeps ==
  ASSUME SyncIInv, AccountsInv, NEW q \in Callers, AbortCall(q) \/ GiveUp(q), UNCHANGED revocations
  PROVE  AccountsInv'
<1>1. asked[q].at # "done" /\ UNCHANGED <<members, invited, mailing>>
  BY DEF AbortCall, GiveUp, accountRows
<1>2. Refuse(q, "error") \/ Refuse(q, "IN_PROGRESS")
  BY DEF AbortCall, GiveUp
<1> QED
  BY <1>1, <1>2, RefuseKeeps

\* What a COMMIT makes of the invitations: those the call held and locked, and the one it creates.
Touches(q, i) == i \in asked[q].drops \/ (asked[q].inv = i /\ asked[q].sets \in Terminal \cup {"created"})

LEMMA CommitRows ==
  ASSUME SyncIInv, AccountsInv, NEW q \in Callers, CommitCall(q), NEW i \in Invitations
  PROVE  /\ Touches(q, i) => \/ /\ invited[i].status = "pending" /\ HoldsInvitation(q, i) /\ i \notin mailing
                                /\ invited'[i].status \in Terminal /\ invited'[i].email = invited[i].email
                             \/ /\ asked[q].sets = "created" /\ asked[q].inv = i /\ invited[i].status = "none"
                                /\ invited'[i].status = "pending" /\ invited'[i].email = asked[q].email
         /\ ~Touches(q, i) => invited'[i] = invited[i]
         /\ i = asked[q].inv /\ asked[q].sets \in Terminal => invited'[i].status = asked[q].sets
<1>1. /\ invited[i] \in [status : Terminal \cup {"none", "pending"}, email : Emails \cup {None}, due : BOOLEAN]
      /\ Purpose(q) /\ StillTrue(q) /\ asked[q].at = "commit"
  BY DEF SyncIInv, SyncTypeOK, AccountsTypeOK, AccountsInv, CommitCall
<1>2. /\ i \in asked[q].drops => invited'[i].status = "expired" /\ invited'[i].email = invited[i].email
      /\ i \notin asked[q].drops /\ asked[q].inv = i /\ asked[q].sets \in Terminal =>
           invited'[i].status = asked[q].sets /\ invited'[i].email = invited[i].email
      /\ i \notin asked[q].drops /\ asked[q].inv = i /\ asked[q].sets = "created" =>
           invited'[i].status = "pending" /\ invited'[i].email = asked[q].email
      /\ ~Touches(q, i) => invited'[i] = invited[i]
  BY <1>1 DEF CommitCall, Touches, Terminal
<1>3. i \in asked[q].drops => invited[i].status = "pending" /\ HoldsInvitation(q, i) /\ i \notin mailing
  BY <1>1 DEF StillTrue, HoldsInvitation
<1>4. asked[q].sets \in Terminal => asked[q].drops = {} /\ asked[q].op \in {"accept", "revoke"}
  BY <1>1 DEF Purpose, Terminal
<1>5. asked[q].inv = i /\ asked[q].sets \in Terminal => invited[i].status = "pending" /\ HoldsInvitation(q, i) /\ i \notin mailing
  BY <1>1, <1>4 DEF StillTrue, HoldsInvitation
<1>6. asked[q].inv = i /\ asked[q].sets = "created" => invited[i].status = "none"
  BY <1>1 DEF StillTrue
<1>7. CASE i \in asked[q].drops
  BY <1>2, <1>3, <1>4, <1>7 DEF Terminal, Touches
<1>8. CASE i \notin asked[q].drops
  BY <1>2, <1>4, <1>5, <1>6, <1>8 DEF Touches
<1> QED
  BY <1>7, <1>8

\* And of the memberships.
LEMMA CommitJoins ==
  ASSUME SyncIInv, AccountsInv, AccountsAssumption, NEW q \in Callers, CommitCall(q)
  PROVE  /\ members \subseteq members'
         /\ \A m \in members' \ members :
              /\ m = NewMember(q) /\ asked[q].sets \in {"workshop", "accepted"}
              /\ m.who = asked[q].who /\ m.status = "active" /\ HoldsIdentity(q, m.who)
              /\ asked[q].sets = "workshop" => m.via = None /\ m.shop = q
              /\ asked[q].sets = "accepted" => m.via = asked[q].inv /\ m.shop = Home /\ m.via \in Invitations /\ m.via # None
         /\ asked[q].sets \in {"workshop", "accepted"} => NewMember(q) \in members'
<1>1. Purpose(q) /\ asked[q].at = "commit"
  BY DEF AccountsInv, CommitCall
<1>2. asked[q].sets \in {"workshop", "accepted"} => HoldsIdentity(q, asked[q].who)
  BY <1>1 DEF Purpose, HoldsIdentity
<1>3. asked[q].sets = "accepted" => asked[q].inv \in Invitations /\ asked[q].inv # None
  BY <1>1 DEF Purpose, AccountsAssumption
<1>4. members \subseteq members'
  BY DEF CommitCall
<1>5. /\ NewMember(q).who = asked[q].who /\ NewMember(q).status = "active"
      /\ asked[q].sets = "workshop" => NewMember(q).via = None /\ NewMember(q).shop = q
      /\ asked[q].sets = "accepted" => NewMember(q).via = asked[q].inv /\ NewMember(q).shop = Home
  BY DEF NewMember
<1>6. \A m \in members' \ members : m = NewMember(q) /\ asked[q].sets \in {"workshop", "accepted"}
  BY DEF CommitCall
<1>7. asked[q].sets \in {"workshop", "accepted"} => NewMember(q) \in members'
  BY DEF CommitCall
<1> QED
  BY <1>2, <1>3, <1>4, <1>5, <1>6, <1>7

LEMMA CommitKeeps ==
  ASSUME SyncIInv, AccountsInv, AccountsAssumption, NEW q \in Callers, CommitCall(q), UNCHANGED revocations
  PROVE  AccountsInv'
<1>1. /\ Asked(q) /\ asked'[q].inv = asked[q].inv /\ asked'[q].profile = asked[q].profile
      /\ asked'[q].sets = asked[q].sets /\ asked'[q].drops = asked[q].drops
      /\ asked'[q].at = "done" /\ asked'[q].answer = asked[q].answer
      /\ asked'[q].op = asked[q].op /\ asked'[q].who = asked[q].who /\ asked'[q].email = asked[q].email
  <2>1. AccountsTypeOK /\ Goes(q, "done")
    BY DEF SyncIInv, SyncTypeOK, CommitCall
  <2> QED
    BY <2>1, GoesRow DEF Asked
<1>2. /\ asked[q].at = "commit" /\ UNCHANGED mailing /\ Purpose(q) /\ StillTrue(q)
      /\ \A r \in Callers : r # q => asked'[r] = asked[r]
  BY <1>1 DEF CommitCall, AccountsInv, Asked, Others
<1>3. \A i \in Invitations :
        /\ Touches(q, i) => \/ /\ invited[i].status = "pending" /\ HoldsInvitation(q, i) /\ i \notin mailing
                               /\ invited'[i].status \in Terminal /\ invited'[i].email = invited[i].email
                            \/ /\ asked[q].sets = "created" /\ asked[q].inv = i /\ invited[i].status = "none"
                               /\ invited'[i].status = "pending" /\ invited'[i].email = asked[q].email
        /\ ~Touches(q, i) => invited'[i] = invited[i]
        /\ i = asked[q].inv /\ asked[q].sets \in Terminal => invited'[i].status = asked[q].sets
  BY CommitRows
<1>4. \A i \in Invitations : invited[i].status \in Terminal => invited'[i] = invited[i]
  BY <1>3 DEF Terminal
<1>5. \A i \in Invitations : invited[i].status = "pending" /\ ~HoldsInvitation(q, i) => invited'[i] = invited[i]
  BY <1>3
<1>6. /\ members \subseteq members'
      /\ \A m \in members' \ members :
           /\ asked[q].sets \in {"workshop", "accepted"}
           /\ m.who = asked[q].who /\ m.status = "active" /\ HoldsIdentity(q, m.who)
           /\ asked[q].sets = "workshop" => m.via = None /\ m.shop = q
           /\ asked[q].sets = "accepted" => m.via = asked[q].inv /\ m.shop = Home /\ m.via \in Invitations /\ m.via # None
      /\ asked[q].sets \in {"workshop", "accepted"} => NewMember(q) \in members'
  BY CommitJoins
<1>7. \A s : IsIn(s, Home) => IsIn(s, Home)'
  BY <1>6 DEF IsIn
<1>8. \A r \in Callers \ {q} : Purpose(r) /\ StillTrue(r) /\ Told(r) /\ asked'[r] = asked[r]
  BY <1>2 DEF AccountsInv
<1>9. ASSUME NEW r \in Callers \ {q} PROVE StillTrue(r)'
  <2>1. Purpose(r) /\ StillTrue(r) /\ asked'[r] = asked[r]
    BY <1>8
  <2>2. \A i \in Invitations : HoldsInvitation(r, i) => ~HoldsInvitation(q, i)
    BY DEF AccountsInv, OneWriter
  <2>3. asked[r].at = "write" \/ (asked[r].at = "commit" /\ asked[r].sets \in Terminal) =>
          /\ asked[r].inv \in Invitations /\ HoldsInvitation(r, asked[r].inv)
          /\ invited[asked[r].inv].status = "pending"
    BY <2>1 DEF Purpose, StillTrue, HoldsInvitation, Terminal
  <2>4. asked[r].at = "write" \/ (asked[r].at = "commit" /\ asked[r].sets \in Terminal) =>
          invited'[asked[r].inv] = invited[asked[r].inv]
    BY <1>5, <2>2, <2>3
  <2>5. HoldsIdentity(r, asked[r].who) =>
          \A m \in members' : m.who = asked[r].who => m \in members
    BY <1>6 DEF SyncIInv, SyncTypeOK, AccountsTypeOK, Call, Alone
  <2>6. ASSUME (asked[r].at = "write" /\ asked[r].op = "accept") \/ (asked[r].at = "commit" /\ asked[r].sets = "accepted")
        PROVE  invited'[asked[r].inv].email = asked[r].profile /\ ~IsIn(asked[r].who, Home)'
    <3>1. HoldsIdentity(r, asked[r].who)
      BY <2>1, <2>6 DEF HoldsIdentity, Purpose
    <3>2. invited[asked[r].inv].email = asked[r].profile /\ ~IsIn(asked[r].who, Home)
      BY <2>1, <2>6 DEF StillTrue
    <3>3. ~\E m \in members' : m.who = asked[r].who /\ m.shop = Home
      BY <3>1, <3>2, <2>5 DEF IsIn
    <3> QED
      BY <2>1, <2>4, <2>6, <3>2, <3>3 DEF IsIn, Terminal
  <2>7. asked[r].at \in {"insert", "commit"} => \A i \in asked[r].drops :
          invited'[i].status = "pending" /\ invited'[i].email = asked[r].email /\ i \notin mailing
    <3>1. asked[r].drops \subseteq Invitations
      BY DEF SyncIInv, SyncTypeOK, AccountsTypeOK, Call
    <3>2. SUFFICES ASSUME asked[r].at \in {"insert", "commit"}, NEW i \in asked[r].drops
                   PROVE  invited'[i].status = "pending" /\ invited'[i].email = asked[r].email /\ i \notin mailing
      OBVIOUS
    <3>3. invited[i].status = "pending" /\ invited[i].email = asked[r].email /\ i \notin mailing
      BY <2>1, <3>2 DEF StillTrue
    <3>4. HoldsInvitation(r, i)
      BY <3>2 DEF HoldsInvitation
    <3> QED
      BY <1>5, <2>2, <3>1, <3>3, <3>4
  <2>8. ASSUME asked[r].at = "commit", asked[r].sets = "created"
        PROVE  /\ invited'[asked[r].inv].status = "none"
               /\ \A i \in Invitations : invited'[i].status = "pending" /\ invited'[i].email = asked[r].email => i \in asked[r].drops
    <3>1. /\ invited[asked[r].inv].status = "none" /\ asked[r].inv \in Invitations
          /\ \A i \in Invitations : invited[i].status = "pending" /\ invited[i].email = asked[r].email => i \in asked[r].drops
      BY <2>1, <2>8 DEF StillTrue, Purpose
    <3>2. asked[q].sets = "created" => asked[q].inv # asked[r].inv /\ asked[q].email # asked[r].email
      BY <1>2, <2>8 DEF AccountsInv, OneWriter
    <3>3. invited'[asked[r].inv] = invited[asked[r].inv]
      BY <1>3, <3>1, <3>2
    <3>4. ASSUME NEW i \in Invitations, invited'[i].status = "pending", invited'[i].email = asked[r].email
          PROVE  i \in asked[r].drops
      BY <1>3, <3>1, <3>2, <3>4 DEF Terminal
    <3> QED
      BY <3>1, <3>3, <3>4
  <2>9. ASSUME asked[r].at = "commit", asked[r].sets = "workshop" PROVE ~Founded(asked[r].who)'
    <3>1. HoldsIdentity(r, asked[r].who) /\ ~Founded(asked[r].who)
      BY <2>1, <2>9 DEF HoldsIdentity, Purpose, StillTrue
    <3>2. ~\E m \in members' : m.who = asked[r].who /\ m.via = None
      BY <2>5, <3>1 DEF Founded
    <3> QED
      BY <2>1, <3>2 DEF Founded
  <2>10. /\ (asked[r].at = "write" \/ (asked[r].at = "commit" /\ asked[r].sets \in Terminal)) => invited'[asked[r].inv].status = "pending"
         /\ asked[r].at = "commit" /\ asked[r].sets \in Terminal => asked[r].inv \notin mailing
    BY <2>1, <2>3, <2>4 DEF StillTrue
  <2> QED
    BY <1>2, <2>1, <2>6, <2>7, <2>8, <2>9, <2>10 DEF StillTrue, IsIn, Founded
<1>10. ASSUME NEW r \in Callers \ {q} PROVE Told(r)'
  <2>1. Purpose(r) /\ Told(r) /\ asked'[r] = asked[r]
    BY <1>8
  <2>2. SUFFICES ASSUME asked[r].at = "done" PROVE Told(r)'
    BY <2>1 DEF Told
  <2>3. asked[r].answer = "revoked" /\ asked[r].op = "revoke" => invited'[asked[r].inv].status = "revoked"
    BY <1>4, <2>1, <2>2 DEF Told, Purpose, Terminal
  <2>4. asked[r].answer = asked[r].sets /\ asked[r].sets = "accepted" => invited'[asked[r].inv].status = "accepted"
    BY <1>4, <2>1, <2>2 DEF Told, Purpose, Terminal
  <2>5. asked[r].answer = "created" /\ asked[r].sets = "workshop" => \E m \in members' : m.who = asked[r].who /\ m.shop = r
    BY <1>6, <2>1, <2>2 DEF Told, IsIn
  <2>6. ASSUME asked[r].answer = "created", asked[r].sets = "created" PROVE invited'[asked[r].inv].email = asked[r].email
    <3>1. asked[r].inv \in Invitations /\ invited[asked[r].inv].email = asked[r].email
      BY <2>1, <2>2, <2>6 DEF Told, Purpose
    <3>2. asked[q].sets = "created" => asked[q].inv # asked[r].inv
      BY <2>6 DEF AccountsInv, OneWriter
    <3> QED
      BY <1>3, <3>1, <3>2
  <2> QED
    BY <2>1, <2>3, <2>4, <2>5, <2>6 DEF Told, IsIn
<1>11. Purpose(q)' /\ StillTrue(q)'
  BY <1>1, <1>2 DEF Purpose, StillTrue
<1>12. Told(q)'
  <2>1. asked[q].answer = "revoked" /\ asked[q].op = "revoke" => invited'[asked[q].inv].status = "revoked"
    BY <1>2, <1>3 DEF Purpose, Terminal
  <2>2. asked[q].answer = asked[q].sets /\ asked[q].sets = "accepted" => invited'[asked[q].inv].status = "accepted"
    BY <1>2, <1>3 DEF Purpose, Terminal
  <2>3. asked[q].sets = "workshop" => \E m \in members' : m.who = asked[q].who /\ m.shop = q
    BY <1>6 DEF NewMember
  <2>4. asked[q].sets = "created" => invited'[asked[q].inv].email = asked[q].email
    <3>1. SUFFICES ASSUME asked[q].sets = "created" PROVE invited'[asked[q].inv].email = asked[q].email
      OBVIOUS
    <3>2. asked[q].inv \in Invitations /\ invited[asked[q].inv].status = "none" /\ Touches(q, asked[q].inv)
      BY <1>2, <3>1 DEF Purpose, StillTrue, Touches
    <3> QED
      BY <1>3, <3>2
  <2> QED
    BY <1>1, <2>1, <2>2, <2>3, <2>4 DEF Told, IsIn
<1>13. OneWriter'
  <2>1. \A i \in Invitations : ~HoldsInvitation(q, i)'
    BY <1>1 DEF HoldsInvitation
  <2>2. \A r \in Callers : r # q => \A i \in Invitations : HoldsInvitation(r, i)' <=> HoldsInvitation(r, i)
    BY <1>2 DEF HoldsInvitation
  <2>3. \A i \in Invitations : \A r, s \in Callers : HoldsInvitation(r, i)' /\ HoldsInvitation(s, i)' => r = s
    BY <2>1, <2>2 DEF AccountsInv, OneWriter
  <2>4. \A r, s \in Callers : r # s =>
       /\ asked'[r].sets = "created" /\ asked'[s].sets = "created" => asked'[r].inv # asked'[s].inv
       /\ asked'[r].sets = "created" /\ asked'[s].sets = "created" /\ asked'[r].at = "commit" /\ asked'[s].at = "commit" =>
            asked'[r].email # asked'[s].email
    BY <1>1, <1>2 DEF AccountsInv, OneWriter
  <2> QED
    BY <2>3, <2>4 DEF OneWriter
<1>14. Memberful'
  <2>1. /\ \A m \in members : Origin(m)
        /\ \A m, n \in members : m.via # None /\ m.via = n.via => m = n
        /\ \A m, n \in members : m.who = n.who /\ (m.shop = n.shop \/ {m.via, n.via} = {None}) => m = n
        /\ \A i \in Invitations : invited[i].status = "accepted" => \E m \in members : m.via = i
        /\ revocations \subseteq members
    BY DEF AccountsInv, Memberful
  <2>2. ASSUME NEW m \in members PROVE Origin(m)'
    <3>1. m.via \in Invitations \cup {None}
      BY DEF SyncIInv, SyncTypeOK, AccountsTypeOK, Memberships
    <3>2. m.via = None => m.shop # Home /\ m.status = "active"
      BY <2>1 DEF Origin
    <3>3. m.via # None => m.shop = Home /\ invited'[m.via].status = "accepted" /\ invited'[m.via] = invited[m.via]
      BY <1>4, <2>1, <3>1 DEF Origin, Terminal
    <3>4. m.via # None => \E r \in Callers : /\ asked'[r].answer = "accepted" /\ asked'[r].inv = m.via
                                             /\ asked'[r].who = m.who /\ asked'[r].profile = invited'[m.via].email
                                             /\ asked'[r].at = "done"
      BY <1>1, <1>2, <2>1, <3>3 DEF Origin
    <3> QED
      BY <3>2, <3>3, <3>4 DEF Origin
  <2>3. ASSUME NEW n \in members' \ members, asked[q].sets = "accepted"
        PROVE  /\ n.via # None /\ n.shop = Home /\ n.who = asked[q].who /\ n.via = asked[q].inv /\ n.via \in Invitations
               /\ invited[n.via].status = "pending" /\ invited'[n.via].status = "accepted" /\ Origin(n)'
    <3>1. n.via # None /\ n.shop = Home /\ n.who = asked[q].who /\ n.via = asked[q].inv /\ n.via \in Invitations
      BY <1>6, <2>3
    <3>2. /\ invited[n.via].status = "pending" /\ invited[n.via].email = asked[q].profile
          /\ asked[q].answer = "accepted" /\ Touches(q, n.via)
      BY <1>2, <2>3, <3>1 DEF StillTrue, Purpose, Touches, Terminal
    <3>3. invited'[n.via].status = "accepted" /\ invited'[n.via].email = invited[n.via].email
      BY <1>3, <2>3, <3>1, <3>2 DEF Terminal
    <3>4. Origin(n)'
      BY <1>1, <3>1, <3>2, <3>3 DEF Origin
    <3> QED
      BY <3>1, <3>2, <3>3, <3>4
  <2>4. ASSUME NEW n \in members' \ members, asked[q].sets = "workshop"
        PROVE  n.via = None /\ n.shop = q /\ n.who = asked[q].who /\ q # Home /\ Origin(n)' /\ ~Founded(n.who)
    <3>1. n.via = None /\ n.shop = q /\ n.who = asked[q].who /\ n.status = "active"
      BY <1>6, <2>4
    <3>2. q # Home /\ ~Founded(n.who)
      BY <1>2, <2>4, <3>1 DEF AccountsAssumption, StillTrue
    <3> QED
      BY <3>1, <3>2 DEF Origin
  <2>5. \A n \in members' \ members : asked[q].sets \in {"accepted", "workshop"} /\ Origin(n)'
    BY <1>6, <2>3, <2>4
  <2>6. \A m, n \in members' \ members : m = n
    BY CommitJoins
  <2>7. ASSUME NEW m \in members, NEW n \in members' \ members
        PROVE  /\ ~(m.via # None /\ m.via = n.via)
               /\ ~(m.who = n.who /\ (m.shop = n.shop \/ {m.via, n.via} = {None}))
    <3>1. m.via # None => m.shop = Home /\ invited[m.via].status = "accepted"
      BY <2>1 DEF Origin
    <3>2. CASE asked[q].sets = "accepted"
      <4>1. n.via # None /\ n.shop = Home /\ n.who = asked[q].who /\ invited[n.via].status = "pending"
        BY <2>3, <3>2
      <4>2. ~IsIn(asked[q].who, Home)
        BY <1>2, <3>2 DEF StillTrue
      <4> QED
        BY <3>1, <4>1, <4>2 DEF IsIn
    <3>3. CASE asked[q].sets = "workshop"
      <4>1. n.via = None /\ n.shop = q /\ n.who = asked[q].who /\ q # Home /\ ~Founded(n.who)
        BY <2>4, <3>3
      <4> QED
        BY <3>1, <4>1 DEF Founded
    <3> QED
      BY <2>5, <3>2, <3>3
  <2>8. \A i \in Invitations : invited'[i].status = "accepted" => \E m \in members' : m.via = i
    <3>1. SUFFICES ASSUME NEW i \in Invitations, invited'[i].status = "accepted" PROVE \E m \in members' : m.via = i
      OBVIOUS
    <3>2. CASE invited'[i] = invited[i]
      BY <1>6, <2>1, <3>1, <3>2
    <3>3. CASE Touches(q, i)
      <4>1. i \notin asked[q].drops
        BY <3>1 DEF CommitCall, SyncIInv, SyncTypeOK, AccountsTypeOK
      <4>2. asked[q].inv = i /\ asked[q].sets \in Terminal
        BY <1>2, <1>3, <3>1, <3>3, <4>1 DEF Touches, StillTrue
      <4>3. asked[q].sets = "accepted"
        BY <1>3, <3>1, <4>2
      <4>4. NewMember(q) \in members' /\ NewMember(q).via = i
        BY <1>6, <4>2, <4>3 DEF NewMember
      <4> QED
        BY <4>4
    <3> QED
      BY <1>3, <3>2, <3>3
  <2>9. \A m \in members' : Origin(m)'
    BY <2>2, <2>5
  <2>10. \A m, n \in members' : (m.via # None /\ m.via = n.via) => m = n
    BY <2>1, <2>6, <2>7
  <2>11. \A m, n \in members' : m.who = n.who /\ (m.shop = n.shop \/ {m.via, n.via} = {None}) => m = n
    <3>1. SUFFICES ASSUME NEW m \in members', NEW n \in members', m.who = n.who, m.shop = n.shop \/ {m.via, n.via} = {None}
                   PROVE  m = n
      OBVIOUS
    <3>2. {m.via, n.via} = {n.via, m.via}
      OBVIOUS
    <3> QED
      BY <2>1, <2>6, <2>7, <3>1, <3>2
  <2>12. revocations \subseteq members'
    BY <1>6, <2>1
  <2> QED
    BY <2>8, <2>9, <2>10, <2>11, <2>12 DEF Memberful
<1>15. Offers'
  <2>1. \A i \in Invitations : invited'[i].status = "pending" =>
          \/ invited[i].status = "pending" /\ invited'[i] = invited[i] /\ i \notin asked[q].drops
          \/ asked[q].sets = "created" /\ asked[q].inv = i /\ invited'[i].email = asked[q].email
    BY <1>3 DEF Touches, Terminal
  <2>2. mailing \subseteq Invitations
    BY DEF SyncIInv, SyncTypeOK, AccountsTypeOK
  <2>3. \A i \in mailing : invited'[i].status = "pending"
    BY <1>3, <2>2 DEF AccountsInv, Offers
  <2>4. asked[q].sets = "created" =>
          \A i \in Invitations : invited[i].status = "pending" /\ invited[i].email = asked[q].email => i \in asked[q].drops
    BY <1>2 DEF StillTrue
  <2>5. \A i, j \in Invitations : invited'[i].status = "pending" /\ invited'[j].status = "pending" =>
          (invited'[i].email = invited'[j].email => i = j)
    BY <2>1, <2>4 DEF AccountsInv, Offers
  <2> QED
    BY <1>2, <2>3, <2>5 DEF Offers
<1>16. \A r \in Callers : Purpose(r)' /\ StillTrue(r)' /\ Told(r)'
  <2>1. \A r \in Callers \ {q} : Purpose(r)'
    BY <1>8 DEF Purpose
  <2> QED
    BY <1>9, <1>10, <1>11, <1>12, <2>1
<1> QED
  BY <1>13, <1>14, <1>15, <1>16 DEF AccountsInv

-----------------------------------------------------------------------------
(* The world around the calls. *)

\* Only the memberships change, or only the mailing: what each needs.
LEMMA AroundKeeps ==
  ASSUME SyncIInv, AccountsInv, UNCHANGED <<members, asked, revocations>>,
         \A i \in Invitations : invited'[i].status = invited[i].status /\ invited'[i].email = invited[i].email,
         \A i \in mailing' : invited[i].status = "pending" /\ i \in Invitations /\ (i \in mailing \/ \A q \in Callers : ~Ending(q, i))
  PROVE  AccountsInv'
<1>1. /\ \A q \in Callers : asked[q] \in Call
      /\ \A m \in members : m.via \in Invitations \cup {None}
      /\ mailing \subseteq Invitations
  BY DEF SyncIInv, SyncTypeOK, AccountsTypeOK, Memberships
<1>2. ASSUME NEW q \in Callers PROVE Purpose(q)' /\ StillTrue(q)' /\ Told(q)'
  <2>1. Purpose(q) /\ StillTrue(q) /\ Told(q)
    BY DEF AccountsInv
  <2>2. Purpose(q)'
    BY <2>1 DEF Purpose
  <2>3. asked[q].at = "write" \/ (asked[q].at = "commit" /\ asked[q].sets \in Terminal \cup {"created"}) =>
          /\ asked[q].inv \in Invitations
          /\ invited'[asked[q].inv].status = invited[asked[q].inv].status
          /\ invited'[asked[q].inv].email = invited[asked[q].inv].email
    BY <2>1 DEF Purpose, Terminal
  <2>4. asked[q].drops \subseteq Invitations
    BY <1>1 DEF Call
  <2>5. asked[q].at \in {"insert", "commit"} => \A i \in asked[q].drops :
          invited'[i].status = "pending" /\ invited'[i].email = asked[q].email /\ i \notin mailing'
    BY <2>1, <2>4 DEF StillTrue, Ending
  <2>6. asked[q].at = "commit" /\ asked[q].sets \in Terminal => asked[q].inv \notin mailing'
    BY <2>1 DEF StillTrue, Ending
  <2>7. StillTrue(q)'
    BY <2>1, <2>3, <2>5, <2>6 DEF StillTrue, IsIn, Founded, Terminal
  <2>8. asked[q].at = "done" => (asked[q].answer = "revoked" /\ asked[q].op = "revoke" => invited'[asked[q].inv].status = "revoked")
    BY <2>1 DEF Told, Purpose
  <2>9. asked[q].at = "done" => (asked[q].answer = asked[q].sets /\ asked[q].sets = "accepted" => invited'[asked[q].inv].status = "accepted")
    BY <2>1 DEF Told, Purpose
  <2>10. asked[q].at = "done" => (asked[q].answer = "created" /\ asked[q].sets = "created" => invited'[asked[q].inv].email = asked[q].email)
    BY <2>1 DEF Told, Purpose
  <2>11. asked[q].at = "done" => (asked[q].answer = "created" /\ asked[q].sets = "workshop" => IsIn(asked[q].who, q))
    BY <2>1 DEF Told
  <2>12. Told(q)'
    BY <2>8, <2>9, <2>10, <2>11 DEF Told, IsIn
  <2> QED
    BY <2>2, <2>7, <2>12
<1>3. OneWriter'
  BY DEF AccountsInv, OneWriter, HoldsInvitation
<1>4. Memberful'
  BY <1>1 DEF AccountsInv, Memberful, Origin
<1>5. Offers'
  BY DEF AccountsInv, Offers
<1> QED
  BY <1>2, <1>3, <1>4, <1>5 DEF AccountsInv

LEMMA MailKeeps ==
  ASSUME SyncIInv, AccountsInv, NEW i \in Invitations, PassDeadline(i) \/ BeginMailing(i) \/ EndMailing(i),
         UNCHANGED revocations
  PROVE  AccountsInv'
<1>1. \A j \in mailing : j \in Invitations /\ invited[j].status = "pending"
  BY DEF SyncIInv, SyncTypeOK, AccountsTypeOK, AccountsInv, Offers
<1>2. invited \in [Invitations -> [status : Terminal \cup {"none", "pending"}, email : Emails \cup {None}, due : BOOLEAN]]
  BY DEF SyncIInv, SyncTypeOK, AccountsTypeOK
<1>3. UNCHANGED <<members, asked>>
  BY DEF PassDeadline, BeginMailing, EndMailing, accountRows
<1>4. \A j \in Invitations : invited'[j].status = invited[j].status /\ invited'[j].email = invited[j].email
  <2>1. CASE UNCHANGED invited
    BY <2>1
  <2>2. CASE invited' = [invited EXCEPT ![i].due = TRUE]
    BY <1>2, <2>2
  <2> QED
    BY <2>1, <2>2 DEF PassDeadline, BeginMailing, EndMailing, accountRows
<1>5. \A j \in mailing' : invited[j].status = "pending" /\ j \in Invitations /\ (j \in mailing \/ \A q \in Callers : ~Ending(q, j))
  BY <1>1 DEF PassDeadline, BeginMailing, EndMailing
<1> QED
  BY <1>3, <1>4, <1>5, AroundKeeps

\* The revocation job turns a membership, which stays one.
LEMMA RevokeKeeps ==
  ASSUME SyncIInv, AccountsInv, NEW m \in revocations, RevokeMembership(m)
  PROVE  AccountsInv'
<1>1. UNCHANGED <<asked, invited, mailing>> /\ revocations' \subseteq revocations \ {m}
  BY DEF RevokeMembership
<1>2. /\ \A x \in members : x \in Memberships
      /\ m \in members
  BY DEF SyncIInv, SyncTypeOK, AccountsTypeOK, AccountsInv, Memberful
<1>3. CASE UNCHANGED members
  <2>1. \A q \in Callers : Purpose(q)' /\ StillTrue(q)' /\ Told(q)'
    BY <1>1, <1>3 DEF AccountsInv, Purpose, StillTrue, Told, IsIn, Founded
  <2>2. OneWriter' /\ Offers'
    BY <1>1 DEF AccountsInv, OneWriter, HoldsInvitation, Offers
  <2>3. Memberful'
    BY <1>1, <1>3 DEF AccountsInv, Memberful, Origin
  <2> QED
    BY <2>1, <2>2, <2>3 DEF AccountsInv
<1>4. ASSUME NEW n, n = [m EXCEPT !.status = "revoked"], members' = (members \ {m}) \cup {n}, m.via # None
      PROVE  AccountsInv'
  <2>1. n.who = m.who /\ n.shop = m.shop /\ n.via = m.via
    BY <1>2, <1>4 DEF Memberships
  <2>2. \A s, shop : IsIn(s, shop)' <=> IsIn(s, shop)
    BY <1>2, <1>4, <2>1, ZenonT(40) DEF IsIn
  <2>3. \A s : Founded(s)' <=> Founded(s)
    BY <1>2, <1>4, <2>1 DEF Founded
  <2>4. ASSUME NEW q \in Callers PROVE Purpose(q)' /\ StillTrue(q)' /\ Told(q)'
    <3>1. Purpose(q) /\ StillTrue(q) /\ Told(q)
      BY DEF AccountsInv
    <3>2. Purpose(q)'
      BY <1>1, <3>1 DEF Purpose
    <3>3. StillTrue(q)'
      BY <1>1, <2>2, <2>3, <3>1 DEF StillTrue
    <3>4. Told(q)'
      BY <1>1, <2>2, <3>1 DEF Told
    <3> QED
      BY <3>2, <3>3, <3>4
  <2>5. OneWriter' /\ Offers'
    BY <1>1 DEF AccountsInv, OneWriter, HoldsInvitation, Offers
  <2>6. /\ \A x \in members : Origin(x)
        /\ \A x, y \in members : x.via # None /\ x.via = y.via => x = y
        /\ \A x, y \in members : x.who = y.who /\ (x.shop = y.shop \/ {x.via, y.via} = {None}) => x = y
        /\ \A i \in Invitations : invited[i].status = "accepted" => \E x \in members : x.via = i
        /\ revocations \subseteq members
    BY DEF AccountsInv, Memberful
  <2>7. \A x \in members : Origin(x)'
    BY <1>1, <2>6 DEF Origin
  <2>8. Origin(n)'
    BY <1>2, <1>4, <2>1, <2>7 DEF Origin
  <2>9. \A x \in members' : Origin(x)'
    BY <1>4, <2>7, <2>8
  <2>9a. \A x \in members : x.via = m.via => x = m
    BY <1>2, <1>4, <2>6
  <2>10. \A x, y \in members' : x.via # None /\ x.via = y.via => x = y
    <3>1. SUFFICES ASSUME NEW x \in members', NEW y \in members', x.via # None, x.via = y.via PROVE x = y
      OBVIOUS
    <3>2. CASE x \in members /\ y \in members
      BY <2>6, <3>1, <3>2
    <3>3. CASE x = n \/ y = n
      BY <1>4, <2>1, <2>9a, <3>1, <3>3
    <3> QED
      BY <1>4, <3>1, <3>2, <3>3
  <2>11. \A x \in members : x.who = m.who /\ x.shop = m.shop => x = m
    BY <1>2, <2>6
  <2>12. \A x, y \in members' : x.who = y.who /\ (x.shop = y.shop \/ {x.via, y.via} = {None}) => x = y
    <3>1. SUFFICES ASSUME NEW x \in members', NEW y \in members', x.who = y.who, x.shop = y.shop \/ {x.via, y.via} = {None}
                   PROVE  x = y
      OBVIOUS
    <3>2. CASE x \in members /\ y \in members
      BY <2>6, <3>1, <3>2
    <3>3. CASE x = n /\ y = n
      BY <3>3
    <3>4. CASE x = n /\ y \in members
      BY <1>2, <1>4, <2>1, <2>11, <3>1, <3>4
    <3>5. CASE x \in members /\ y = n
      BY <1>2, <1>4, <2>1, <2>11, <3>1, <3>5
    <3> QED
      BY <1>4, <3>1, <3>2, <3>3, <3>4, <3>5
  <2>13. \A i \in Invitations : invited'[i].status = "accepted" => \E x \in members' : x.via = i
    BY <1>1, <1>4, <2>1, <2>6, ZenonT(40)
  <2>14. Memberful'
    BY <1>1, <1>4, <2>6, <2>9, <2>10, <2>12, <2>13 DEF Memberful
  <2> QED
    BY <2>4, <2>5, <2>14 DEF AccountsInv
<1> QED
  BY <1>3, <1>4 DEF RevokeMembership

\* Everything else only adds revocations of memberships there are.
LEMMA ElseKeeps ==
  ASSUME AccountsInv, UNCHANGED <<members, invited, mailing, asked>>, revocations' \subseteq revocations \cup members
  PROVE  AccountsInv'
<1>1. \A q \in Callers : Purpose(q)' /\ StillTrue(q)' /\ Told(q)'
  BY DEF AccountsInv, Purpose, StillTrue, Told, IsIn, Founded
<1>2. OneWriter' /\ Offers'
  BY DEF AccountsInv, OneWriter, HoldsInvitation, Offers
<1>3. Memberful'
  BY DEF AccountsInv, Memberful, Origin
<1> QED
  BY <1>1, <1>2, <1>3 DEF AccountsInv

LEMMA NextKeeps ==
  ASSUME SyncIInv, AccountsInv, AccountsAssumption, [SyncNext]_syncAll
  PROVE  AccountsInv'
<1>1. CASE UNCHANGED syncAll
  BY <1>1, ElseKeeps DEF syncAll, accountVars, syncVars
<1>2. ASSUME NEW q \in Callers, CallStep(q), UNCHANGED revocations PROVE AccountsInv'
  BY <1>2, ReadProfileKeeps, ProvisionKeeps, FoundWorkshopKeeps, FindInvitationKeeps, AcceptKeeps, BeginRevokeKeeps,
     RevokeInvitationKeeps, ExpireOverdueKeeps, CreateInvitationKeeps, CommitKeeps, AbortKeeps DEF CallStep
<1>3. CASE AccountsNext /\ UNCHANGED syncVars
  BY <1>2, <1>3, MailKeeps DEF AccountsNext, syncVars
<1>4. CASE SyncStep
  <2>1. ASSUME NEW w \in Runners, Apply(w) PROVE AccountsInv'
    <3>1. revocations' \subseteq revocations \cup members
      BY <2>1 DEF Apply, SnapshotApplied, TombstoneApplied, MembersOf
    <3> QED
      BY <2>1, <3>1, ElseKeeps DEF Apply
  <2>2. ASSUME NEW s \in Subjects, ChangeAtProvider(s) \/ DeleteAtProvider(s) PROVE AccountsInv'
    BY <2>2, ElseKeeps DEF ChangeAtProvider, DeleteAtProvider, Happens, accountRows
  <2>3. ASSUME NEW e \in Events, StallJob(e) \/ (\E h \in Hashes : Ingest(e, h)) PROVE AccountsInv'
    BY <2>3, ElseKeeps DEF StallJob, Ingest, accountVars
  <2>4. ASSUME NEW w \in Runners, FailRun(w) \/ Classify(w) \/ Fetch(w) \/ (\E e \in Events : ClaimJob(w, e)) PROVE AccountsInv'
    BY <2>4, ElseKeeps DEF FailRun, Classify, Fetch, ClaimJob, accountVars
  <2> QED
    BY <1>4, <2>1, <2>2, <2>3, <2>4, RevokeKeeps DEF SyncStep
<1> QED
  BY <1>1, <1>3, <1>4 DEF SyncNext

LEMMA InitKeeps == ASSUME AccountsAssumption, SyncInit PROVE AccountsInv
<1>1. /\ members = {} /\ mailing = {} /\ revocations = {} /\ asked \in [Callers -> NewCalls]
      /\ invited \in [Invitations -> [status : {"none", "pending"}, email : Emails \cup {None}, due : {FALSE}]]
      /\ \A i, j \in Invitations : invited[i].status = "pending" /\ invited[i] = invited[j] => i = j
  BY DEF SyncInit, AccountsInit
<1>2. ASSUME NEW q \in Callers
      PROVE  /\ asked[q] \in Call /\ asked[q].at \in {"start", "done"} /\ asked[q].answer = ""
             /\ asked[q].sets = "nothing" /\ asked[q].drops = {}
             /\ asked[q].op \in {"accept", "revoke"} <=> asked[q].inv # None
  <2>1. asked[q] \in NewCalls
    BY <1>1
  <2> QED
    BY <2>1 DEF NewCalls
<1>3. \A q \in Callers : Purpose(q) /\ StillTrue(q) /\ Told(q)
  <2>1. SUFFICES ASSUME NEW q \in Callers PROVE Purpose(q) /\ StillTrue(q) /\ Told(q)
    OBVIOUS
  <2>2. asked[q].inv \in Invitations \cup {None}
    BY <1>2 DEF Call
  <2>3. Purpose(q)
    BY <1>2, <2>2 DEF Purpose, Terminal
  <2> QED
    BY <1>2, <2>3 DEF StillTrue, Told, Terminal
<1>4. OneWriter
  BY <1>2 DEF OneWriter, HoldsInvitation
<1>5. Memberful
  BY <1>1 DEF Memberful
<1>6. Offers
  <2>1. ASSUME NEW i \in Invitations, NEW j \in Invitations, invited[i].status = "pending",
               invited[j].status = "pending", invited[i].email = invited[j].email
        PROVE  i = j
    <3>1. /\ invited[i] \in [status : {"none", "pending"}, email : Emails \cup {None}, due : {FALSE}]
          /\ invited[j] \in [status : {"none", "pending"}, email : Emails \cup {None}, due : {FALSE}]
      BY <1>1
    <3>2. invited[i] = [status |-> "pending", email |-> invited[i].email, due |-> FALSE]
      BY <2>1, <3>1
    <3>3. invited[j] = [status |-> "pending", email |-> invited[i].email, due |-> FALSE]
      BY <2>1, <3>1
    <3> QED
      BY <1>1, <2>1, <3>2, <3>3
  <2> QED
    BY <1>1, <2>1 DEF Offers
<1> QED
  BY <1>3, <1>4, <1>5, <1>6 DEF AccountsInv

LEMMA SoundThen ==
  ASSUME SyncIInv, AccountsInv, AccountsAssumption
  PROVE  AccountsAreSound
<1>1. ASSUME NEW i \in Invitations
      PROVE  /\ Cardinality({m \in members : m.via = i}) = IF invited[i].status = "accepted" THEN 1 ELSE 0
             /\ \A m \in {m \in members : m.via = i} : \E q \in Callers :
                  /\ asked[q].answer = "accepted" /\ asked[q].inv = i
                  /\ asked[q].who = m.who /\ asked[q].profile = invited[i].email
  <2> DEFINE joined == {m \in members : m.via = i}
  <2>1. i # None
    BY DEF AccountsAssumption
  <2>2. \A m \in joined : m \in members /\ m.via = i
    OBVIOUS
  <2>3. \A m \in joined : invited[i].status = "accepted" /\ \E q \in Callers :
                  /\ asked[q].answer = "accepted" /\ asked[q].inv = i
                  /\ asked[q].who = m.who /\ asked[q].profile = invited[i].email
    BY <2>1, <2>2 DEF AccountsInv, Memberful, Origin
  <2>4. CASE invited[i].status = "accepted"
    <3>1. PICK m \in members : m.via = i
      BY <2>4 DEF AccountsInv, Memberful
    <3>2. \A n \in members : n.via = i => n = m
      BY <2>1, <3>1 DEF AccountsInv, Memberful
    <3>3. joined = {m}
      BY <3>1, <3>2
    <3>4. Cardinality(joined) = 1
      BY <3>3, FS_Singleton
    <3> QED
      BY <2>3, <2>4, <3>4
  <2>5. CASE invited[i].status # "accepted"
    <3>1. joined = {}
      BY <2>3, <2>5
    <3> QED
      BY <2>5, <3>1, FS_EmptySet
  <2> QED
    BY <2>4, <2>5
<1>2. \A i \in mailing : invited[i].status = "pending"
  BY DEF AccountsInv, Offers
<1>3. \A i, j \in Invitations :
       invited[i].email = invited[j].email /\ {invited[i].status, invited[j].status} = {"pending"} => i = j
  <2>1. \A a, b : {a, b} = {"pending"} => a = "pending" /\ b = "pending"
    OBVIOUS
  <2> QED
    BY <2>1 DEF AccountsInv, Offers
<1>4. \A m, n \in members : m.who = n.who /\ (m.shop = n.shop \/ {m.via, n.via} = {None}) => m = n
  BY DEF AccountsInv, Memberful
<1>5. \A q \in Callers : LET c == asked[q] IN c.at = "done" =>
       /\ c.answer = "revoked" /\ c.op = "revoke" => invited[c.inv].status = "revoked"
       /\ c.answer = c.sets /\ c.sets = "accepted" => invited[c.inv].status = "accepted"
       /\ c.answer = "created" /\ c.sets = "workshop" => \E m \in MembersOf(c.who) : m.shop = q
       /\ c.answer = "created" /\ c.sets = "created" => invited[c.inv].email = c.email
  BY DEF AccountsInv, Told, IsIn, MembersOf
<1> QED
  BY <1>1, <1>2, <1>3, <1>4, <1>5, ZenonT(40) DEF AccountsAreSound

\* Invitations and workshops, for any number of calls, of invitations and of
\* subjects: an accepted invitation has exactly one membership, of a caller with
\* the invited address; nobody joins or founds twice; one invitation per address
\* is pending; no invitation ends while its email is in delivery; and what a
\* caller was told of lasts (acceptInvitation, revokeInvitation,
\* createInvitation, createWorkshopForIdentity).
THEOREM AccountsSound == SyncSpec => []AccountsAreSound
<1> USE AccountsAssumption
<1>1. SyncInit => AccountsInv
  BY InitKeeps
<1>2. SyncIInv /\ AccountsInv /\ [SyncNext]_syncAll => AccountsInv'
  BY NextKeeps
<1>3. SyncIInv /\ AccountsInv => AccountsAreSound
  BY SoundThen
<1> QED
  BY <1>1, <1>2, <1>3, Invariance, PTL DEF SyncSpec
-----------------------------------------------------------------------------
(* Calls that wait for each other. *)

\* The calls that are in their transaction, and the lock each may wait for: that
\* of the identity, the row of the invitation, the entry of its address in the
\* index of pending invitations.
Under == {q \in Callers : asked[q].at \notin {"start", "done"}}

Awaits(q) ==
  \/ asked[q].at = "provision" /\ ~IdentityFree(asked[q].who)
  \/ asked[q].op = "accept" /\ asked[q].at = "find" /\ ~InvitationFree(asked[q].inv)
  \/ asked[q].at = "insert" /\ Undecided(q)

SomeCallGoesOn == Under # {} => \E q \in Under : ~Awaits(q)

LEMMA NoCallsInACircle ==
  ASSUME AccountsInv PROVE SomeCallGoesOn
<1> SUFFICES ASSUME NEW c \in Under, \A q \in Under : Awaits(q) PROVE FALSE
  BY DEF SomeCallGoesOn
<1>1. \A q \in Under : asked[q].at \in {"provision", "find", "insert"}
  BY DEF Awaits
<1>2. \A q \in Callers : /\ asked[q].at \notin {"check", "write", "commit"}
                         /\ asked[q].at = "insert" => q \in Under /\ Undecided(q)
  BY <1>1 DEF Under, Awaits
(* Each of the calls of an address in the index has expired an invitation of it, *)
(* and there is only one to expire.                                              *)
<1>3. ASSUME NEW q \in Callers, asked[q].at = "insert" PROVE FALSE
  <2>1. ASSUME NEW r \in Callers, asked[r].at = "insert"
        PROVE  \E p \in Callers \ {r}, i \in Invitations :
                 /\ asked[p].at = "insert" /\ i \in asked[p].drops
                 /\ invited[i].status = "pending" /\ invited[i].email = asked[p].email
                 /\ asked[p].email = asked[r].email
    <3>1. PICK p \in Callers \ {r}, i \in Invitations : Ending(p, i) /\ invited[i].email = asked[r].email
      BY <1>2, <2>1 DEF Undecided
    <3>2. asked[p].at = "insert" /\ i \in asked[p].drops
      BY <1>2, <3>1 DEF Ending
    <3> QED
      BY <3>1, <3>2 DEF AccountsInv, StillTrue
  <2>2. PICK p \in Callers \ {q}, i \in Invitations :
               /\ asked[p].at = "insert" /\ i \in asked[p].drops
               /\ invited[i].status = "pending" /\ invited[i].email = asked[p].email
    BY <1>3, <2>1
  <2>3. PICK s \in Callers \ {p}, j \in Invitations :
               /\ asked[s].at = "insert" /\ j \in asked[s].drops
               /\ invited[j].status = "pending" /\ invited[j].email = asked[p].email
    BY <2>1, <2>2
  <2>4. i = j
    BY <2>2, <2>3 DEF AccountsInv, Offers
  <2>5. HoldsInvitation(p, i) /\ HoldsInvitation(s, i)
    BY <2>2, <2>3, <2>4 DEF HoldsInvitation
  <2> QED
    BY <2>5, <2>3 DEF AccountsInv, OneWriter
<1>4. \A i \in Invitations : InvitationFree(i)
  BY <1>2, <1>3 DEF InvitationFree, HoldsInvitation
<1>5. ASSUME NEW q \in Under, asked[q].at = "find" PROVE FALSE
  <2>1. asked[q].op = "accept" /\ ~InvitationFree(asked[q].inv)
    BY <1>5 DEF Awaits
  <2> QED
    BY <1>4, <2>1 DEF AccountsInv, Purpose, Under
<1>6. \A s : IdentityFree(s)
  BY <1>2, <1>5 DEF IdentityFree, HoldsIdentity, Under
<1> QED
  BY <1>1, <1>3, <1>5, <1>6 DEF Awaits, Under

\* Accepting, revoking, creating and founding, however many calls of one address
\* or one identity meet: those in a transaction never wait for each other in a
\* circle.  The identity comes before the invitation (0009, service.ts), and of
\* those that wait for an address in the index of pending ones at most one has
\* expired an invitation of it.  So lock_timeout is only ever for a slow holder.
THEOREM CallsNeverDeadlock == SyncSpec => []SomeCallGoesOn
<1> USE AccountsAssumption
<1>1. SyncInit => AccountsInv
  BY InitKeeps
<1>2. SyncIInv /\ AccountsInv /\ [SyncNext]_syncAll => AccountsInv'
  BY NextKeeps
<1>3. AccountsInv => SomeCallGoesOn
  BY NoCallsInACircle
<1> QED
  BY <1>1, <1>2, <1>3, Invariance, PTL DEF SyncSpec
=============================================================================
