---------------------------- MODULE Receptions ----------------------------
(* Intake of a workshop: customers, vehicles and their owners, consents,      *)
(* receptions and the service orders their closing opens.  Every request of   *)
(* the API is one transaction; it takes row locks in steps, so two requests   *)
(* interleave wherever one waits for the other:                               *)
(*   src/src/receptions, src/src/privacy, src/src/vehicles, src/src/customers *)
(*   and the triggers of drizzle/0019, 0020 and 0024.                         *)
(* One workshop: rows of another one are invisible (TenantSchema).  A row is  *)
(* named after the request that inserts it; a plate is a vehicle.  Failures   *)
(* that depend on the request alone (its shape, a reference nobody has) leave *)
(* no trace and are left out.                                                 *)
EXTENDS Integers, FiniteSets, Sequences

CONSTANTS Requests, Vehicles, Customers, MaxMileage, None

ASSUME MileageAssumption == MaxMileage \in Nat

VARIABLES clock,      \* the next instant the database clock shows
          op,         \* what each request asks for
          pc,         \* where its handler stands
          started,    \* now() of its transaction
          seen,       \* the version token its client read beforehand
          drawn,      \* the order number or the instant it has drawn
          holds,      \* the row locks of its transaction
          outcome,    \* its answer
          customers, owners, mileage, consents, receptions, orders

work == <<pc, started, seen, drawn, holds, outcome>>
tables == <<customers, owners, mileage, consents, receptions, orders>>
vars == <<clock, op, work, tables>>
-----------------------------------------------------------------------------
Mileages == 0 .. MaxMileage
Purposes == {"service_provision", "marketing"}

\* What a patch does to one of the two document columns of a customer.
Edits == {"keep", "set", "clear"}

\* What the routes accept of a body: the rest of it is no part of the model.
VehicleInputs == [op : {"newVehicle", "transfer"}, vehicle : Vehicles, customer : Customers]
CreateInputs == [op : {"create"}, vehicle : Vehicles, customer : Customers,
                 consent : Requests, mileage : Mileages]
PatchInputs == [op : {"patch"}, reception : Requests, mileage : Mileages]
InspectionInputs == [op : {"inspect"}, reception : Requests, missing : BOOLEAN]
ConsentInputs == [op : {"capture"}, customer : Customers, purpose : Purposes]
CustomerInputs == [op : {"edit"}, customer : Customers, docType : Edits, docNumber : Edits]

Operations ==
  VehicleInputs \cup CreateInputs \cup PatchInputs \cup InspectionInputs
  \cup ConsentInputs \cup CustomerInputs
  \cup [op : {"close", "read"}, reception : Requests] \cup [op : {"revoke"}, consent : Requests]

CustomerRow == [docType : BOOLEAN, docNumber : BOOLEAN, version : Nat]
OwnerRow == [customer : Customers, from : Nat, to : Nat]
ConsentRow == [customer : Customers, purpose : Purposes,
               status : {"granted", "revoked"}, created : Nat]
ReceptionRow == [vehicle : Vehicles, customer : Customers, consent : Requests,
                 mileage : Mileages, status : {"open", "closed"},
                 version : Nat, created : Nat, items : Nat]

ASSUME NoneAssumption == None \notin Nat /\ None \notin ConsentRow /\ None \notin ReceptionRow

TypeOK ==
  /\ clock \in Nat
  /\ op \in [Requests -> Operations]
  /\ pc \in [Requests -> {"new", "open", "consent", "insert", "write",
                          "vehicle", "number", "order", "commit", "done"}]
  /\ started \in [Requests -> Nat] /\ seen \in [Requests -> Nat]
  /\ drawn \in [Requests -> Nat]
  /\ holds \in [Requests -> SUBSET ({"vehicle", "reception", "consent", "number"}
                                    \X (Vehicles \cup Requests \cup {None}))]
  /\ outcome \in [Requests -> {"none", "ok", "unchanged", "replayed", "refused",
                               "version_conflict", "number_taken", "integrity"}]
  /\ customers \in [Customers -> CustomerRow]
  /\ owners \in [Vehicles -> Seq(OwnerRow)]
  /\ mileage \in [Vehicles -> Mileages \cup {None}]
  /\ consents \in [Requests -> ConsentRow \cup {None}]
  /\ receptions \in [Requests -> ReceptionRow \cup {None}]
  /\ orders \subseteq [reception : Requests, number : Nat]
-----------------------------------------------------------------------------
(* Locks and the end of a transaction.                                       *)

Free(row, q) == \A p \in Requests \ {q} : row \notin holds[p]

Take(q, row, next) == /\ holds' = [holds EXCEPT ![q] = @ \cup {row}]
                      /\ pc' = [pc EXCEPT ![q] = next]

\* A bug: the error path answers without a ROLLBACK.
FinishKeepingLocks(q, result) ==
  /\ pc' = [pc EXCEPT ![q] = "done"]
  /\ outcome' = [outcome EXCEPT ![q] = result]
  /\ holds' = IF result = "refused" THEN holds ELSE [holds EXCEPT ![q] = {}]

\* COMMIT or ROLLBACK: the answer is known and the locks are gone.
Finish(q, result) ==
  /\ pc' = [pc EXCEPT ![q] = "done"]
  /\ outcome' = [outcome EXCEPT ![q] = result]
  /\ holds' = [holds EXCEPT ![q] = {}]

Answer(q, result) == /\ Finish(q, result)
                     /\ UNCHANGED <<clock, op, started, seen, drawn, tables>>

Doing(q, name, step) == pc[q] = step /\ op[q].op = name

\* A client names only what it has seen.
TargetExists(o) ==
  /\ o.op \in {"create", "transfer"} => owners[o.vehicle] # <<>>
  /\ o.op \in {"create", "revoke"} => consents[o.consent] # None
  /\ o.op \in {"patch", "inspect", "close", "read"} => receptions[o.reception] # None

\* expectedUpdatedAt or expectedCurrentOwnershipId, as a GET just showed it.
TokenRead(o) ==
  CASE o.op \in {"patch", "inspect"} -> receptions[o.reception].version
    [] o.op = "transfer" -> Len(owners[o.vehicle])
    [] o.op = "edit" -> customers[o.customer].version
    [] OTHER -> 0

Begin(q) ==
  /\ pc[q] = "new" /\ TargetExists(op[q])
  /\ pc' = [pc EXCEPT ![q] = "open"]
  /\ started' = [started EXCEPT ![q] = clock] /\ clock' = clock + 1
  /\ seen' = [seen EXCEPT ![q] = TokenRead(op[q])]
  /\ UNCHANGED <<op, drawn, holds, outcome, tables>>
-----------------------------------------------------------------------------
(* Customers, vehicles and their owners.                                     *)

Edited(old, edit) == IF edit = "keep" THEN old ELSE edit = "set"

\* A bug: the patch is validated on its own, not on the row it leads to.
PairOfThePatch(o, row) == (o.docType = "set") = (o.docNumber = "set")

\* documentPairIsValid on the merged row: both columns or neither.
PairIsValid(o, row) == Edited(row.docType, o.docType) = Edited(row.docNumber, o.docNumber)

EditCustomer(q) ==
  LET o == op[q]  row == customers[o.customer]
      new == [docType |-> Edited(row.docType, o.docType),
              docNumber |-> Edited(row.docNumber, o.docNumber), version |-> row.version + 1]
  IN /\ Doing(q, "edit", "open")
     /\ \/ row.version # seen[q] /\ Answer(q, "version_conflict")
        \/ row.version = seen[q] /\ ~PairIsValid(o, row) /\ Answer(q, "refused")
        \/ /\ row.version = seen[q] /\ PairIsValid(o, row)
           /\ new.docType = row.docType /\ new.docNumber = row.docNumber
           /\ Answer(q, "unchanged")
        \/ /\ row.version = seen[q] /\ PairIsValid(o, row)
           /\ ~(new.docType = row.docType /\ new.docNumber = row.docNumber)
           /\ customers' = [customers EXCEPT ![o.customer] = new]
           /\ Finish(q, "ok")
           /\ UNCHANGED <<clock, op, started, seen, drawn, owners, mileage,
                          consents, receptions, orders>>

\* The plate is unique; the vehicle and its first ownership are one transaction.
CreateVehicle(q) ==
  LET o == op[q]
  IN /\ Doing(q, "newVehicle", "open")
     /\ \/ owners[o.vehicle] # <<>> /\ Answer(q, "refused")
        \/ /\ owners[o.vehicle] = <<>>
           /\ owners' = [owners EXCEPT ![o.vehicle] =
                           <<[customer |-> o.customer, from |-> clock, to |-> 0]>>]
           /\ clock' = clock + 1 /\ Finish(q, "ok")
           /\ UNCHANGED <<op, started, seen, drawn, customers, mileage, consents,
                          receptions, orders>>

CurrentOwner(v) == owners[v][Len(owners[v])].customer

\* A bug: the transfer reads the vehicle without locking it.
TransferLockless(q) ==
  LET o == op[q]
  IN /\ Doing(q, "transfer", "open") /\ CurrentOwner(o.vehicle) # o.customer
     /\ Len(owners[o.vehicle]) = seen[q]
     /\ pc' = [pc EXCEPT ![q] = "commit"]
     /\ drawn' = [drawn EXCEPT ![q] = clock] /\ clock' = clock + 1
     /\ UNCHANGED <<op, started, seen, holds, outcome, tables>>

TransferLock(q) ==
  LET o == op[q]
  IN /\ Doing(q, "transfer", "open") /\ Free(<<"vehicle", o.vehicle>>, q)
     /\ \/ CurrentOwner(o.vehicle) = o.customer /\ Answer(q, "unchanged")
        \/ /\ CurrentOwner(o.vehicle) # o.customer /\ Len(owners[o.vehicle]) # seen[q]
           /\ Answer(q, "version_conflict")
        \/ /\ CurrentOwner(o.vehicle) # o.customer /\ Len(owners[o.vehicle]) = seen[q]
           /\ Take(q, <<"vehicle", o.vehicle>>, "commit")
           /\ drawn' = [drawn EXCEPT ![q] = clock] /\ clock' = clock + 1
           /\ UNCHANGED <<op, started, seen, outcome, tables>>

\* A bug: the old ownership ends and the new one begins at two readings of the clock.
OwnedNext(o, at) ==
  Append([owners[o.vehicle] EXCEPT ![Len(owners[o.vehicle])].to = at],
         [customer |-> o.customer, from |-> at + 1, to |-> 0])

\* The open ownership ends where the new one begins.
Owned(o, at) ==
  Append([owners[o.vehicle] EXCEPT ![Len(owners[o.vehicle])].to = at],
         [customer |-> o.customer, from |-> at, to |-> 0])

\* vehicle_owners_validity_check: an ownership lasts.
TransferCommit(q) ==
  LET o == op[q]
      valid == drawn[q] > owners[o.vehicle][Len(owners[o.vehicle])].from
  IN /\ Doing(q, "transfer", "commit")
     /\ owners' = IF valid THEN [owners EXCEPT ![o.vehicle] = Owned(o, drawn[q])] ELSE owners
     /\ Finish(q, IF valid THEN "ok" ELSE "integrity")
     /\ UNCHANGED <<clock, op, started, seen, drawn, customers, mileage, consents,
                    receptions, orders>>
-----------------------------------------------------------------------------
(* Consents: captured by the API; revoked by an operator, for whom there is   *)
(* no route, only the transition the trigger allows.                         *)

GrantedFor(c, customer, purpose) ==
  /\ consents[c] # None
  /\ consents[c].customer = customer /\ consents[c].purpose = purpose
  /\ consents[c].status = "granted"

CaptureConsent(q) ==
  LET o == op[q]
      taken == \E c \in Requests : GrantedFor(c, o.customer, o.purpose)
  IN /\ Doing(q, "capture", "open")
     /\ \/ taken /\ Answer(q, "refused")
        \/ /\ ~taken
           /\ consents' = [consents EXCEPT ![q] =
                [customer |-> o.customer, purpose |-> o.purpose,
                 status |-> "granted", created |-> started[q]]]
           /\ Finish(q, "ok")
           /\ UNCHANGED <<clock, op, started, seen, drawn, customers, owners,
                          mileage, receptions, orders>>

\* A bug: only a key lock protects the consent a reception is being created on.
RevokeAtOnce(q) ==
  /\ Doing(q, "revoke", "open") /\ consents[op[q].consent].status = "granted"
  /\ consents' = [consents EXCEPT ![op[q].consent].status = "revoked"]
  /\ Finish(q, "ok")
  /\ UNCHANGED <<clock, op, started, seen, drawn, customers, owners, mileage,
                 receptions, orders>>

RevokeConsent(q) ==
  LET c == op[q].consent
  IN /\ Doing(q, "revoke", "open") /\ Free(<<"consent", c>>, q)
     /\ \/ consents[c].status = "revoked" /\ Answer(q, "refused")
        \/ /\ consents[c].status = "granted"
           /\ consents' = [consents EXCEPT ![c].status = "revoked"]
           /\ Finish(q, "ok")
           /\ UNCHANGED <<clock, op, started, seen, drawn, customers, owners,
                          mileage, receptions, orders>>
-----------------------------------------------------------------------------
(* Receptions: creation.  Lock order: vehicle, then the consent, shared.     *)

Eligible(c, customer, q) == /\ GrantedFor(c, customer, "service_provision")
                            /\ consents[c].created <= started[q]

OpenOn(v) == {r \in Requests : /\ receptions[r] # None
                               /\ receptions[r].status = "open"
                               /\ receptions[r].vehicle = v}

Below(m, v) == mileage[v] # None /\ m < mileage[v]

CreateLock(q) ==
  LET o == op[q]
  IN /\ Doing(q, "create", "open") /\ Free(<<"vehicle", o.vehicle>>, q)
     /\ \/ CurrentOwner(o.vehicle) # o.customer /\ Answer(q, "refused")
        \/ /\ CurrentOwner(o.vehicle) = o.customer
           /\ Take(q, <<"vehicle", o.vehicle>>, "consent")
           /\ UNCHANGED <<clock, op, started, seen, drawn, outcome, tables>>

\* FOR SHARE: creators share it, a revocation waits for them.
CreateConsent(q) ==
  LET o == op[q]
  IN /\ Doing(q, "create", "consent")
     /\ \/ ~Eligible(o.consent, o.customer, q) /\ Answer(q, "refused")
        \/ /\ Eligible(o.consent, o.customer, q)
           /\ Take(q, <<"consent", o.consent>>, "insert")
           /\ UNCHANGED <<clock, op, started, seen, drawn, outcome, tables>>

\* A bug: the unique index of the open receptions is missing.
AcceptedAgain(q) ==
  LET o == op[q]
  IN /\ CurrentOwner(o.vehicle) = o.customer
     /\ Eligible(o.consent, o.customer, q) /\ ~Below(o.mileage, o.vehicle)

\* The triggers of the INSERT, which repeat the checks, and its unique index.
Accepted(q) ==
  LET o == op[q]
  IN /\ CurrentOwner(o.vehicle) = o.customer
     /\ Eligible(o.consent, o.customer, q) /\ ~Below(o.mileage, o.vehicle)
     /\ OpenOn(o.vehicle) = {}

CreateInsert(q) ==
  /\ Doing(q, "create", "insert")
  /\ \/ ~Accepted(q) /\ Answer(q, "refused")
     \/ /\ Accepted(q)
        /\ pc' = [pc EXCEPT ![q] = "commit"]
        /\ UNCHANGED <<clock, op, started, seen, drawn, holds, outcome, tables>>

\* A bug: the column of the consent is left empty.
CreateCommitUncovered(q) ==
  LET o == op[q]
  IN /\ Doing(q, "create", "commit")
     /\ receptions' = [receptions EXCEPT ![q] =
          [vehicle |-> o.vehicle, customer |-> o.customer, consent |-> None,
           mileage |-> o.mileage, status |-> "open", version |-> started[q],
           created |-> started[q], items |-> 0]]
     /\ Finish(q, "ok")
     /\ UNCHANGED <<clock, op, started, seen, drawn, customers, owners, mileage,
                    consents, orders>>

CreateCommit(q) ==
  LET o == op[q]
  IN /\ Doing(q, "create", "commit")
     /\ receptions' = [receptions EXCEPT ![q] =
          [vehicle |-> o.vehicle, customer |-> o.customer, consent |-> o.consent,
           mileage |-> o.mileage, status |-> "open", version |-> started[q],
           created |-> started[q], items |-> 0]]
     /\ Finish(q, "ok")
     /\ UNCHANGED <<clock, op, started, seen, drawn, customers, owners, mileage,
                    consents, orders>>
-----------------------------------------------------------------------------
(* Receptions: edits.  Lock order: reception, then its vehicle.              *)

Later(now, version) == IF now > version THEN now ELSE version + 1

\* A bug: an edit does not ask whether the reception is still open.
EditableClosed(q, row) == row.version = seen[q]

\* A bug: an edit does not compare the version its client has seen.
EditableUnseen(q, row) == row.status = "open"

Editable(q, row) == row.status = "open" /\ row.version = seen[q]

\* updateReception and lockOpenReception.  The mileage stands for the columns
\* a patch may change: changed or not, the trigger compares it again.
EditLock(q) ==
  LET o == op[q]  row == receptions[o.reception]
      unchanged == o.op = "patch" /\ o.mileage = row.mileage
  IN /\ pc[q] = "open" /\ o.op \in {"patch", "inspect"}
     /\ Free(<<"reception", o.reception>>, q)
     /\ \/ /\ ~Editable(q, row)
           /\ Answer(q, IF row.status # "open" THEN "refused" ELSE "version_conflict")
        \/ Editable(q, row) /\ unchanged /\ Answer(q, "unchanged")
        \/ /\ Editable(q, row) /\ ~unchanged
           /\ Take(q, <<"reception", o.reception>>, "write")
           /\ UNCHANGED <<clock, op, started, seen, drawn, outcome, tables>>

Written(q, row) ==
  LET o == op[q]
  IN [row EXCEPT !.version = Later(started[q], @),
                 !.mileage = IF o.op = "patch" THEN o.mileage ELSE @,
                 !.items = IF o.op = "inspect" THEN @ + 1 ELSE @]

\* A bug: the trigger compares the mileage only when a reception is inserted.
EditRefusedUnlessLower(q, row) == op[q].op = "inspect" /\ op[q].missing

\* A damage nobody has (missing) fails after others were written, and the
\* trigger of the UPDATE compares the mileages: all of it is rolled back.
EditRefused(q, row) == \/ op[q].op = "inspect" /\ op[q].missing
                       \/ Below(Written(q, row).mileage, row.vehicle)

\* The UPDATE, whose trigger locks the vehicle, repeats the guards of the lock.
EditWrite(q) ==
  LET r == op[q].reception  row == receptions[r]
  IN /\ pc[q] = "write" /\ Free(<<"vehicle", row.vehicle>>, q)
     /\ \/ EditRefused(q, row) /\ Answer(q, "refused")
        \/ /\ ~EditRefused(q, row)
           /\ receptions' = IF Editable(q, row)
                              THEN [receptions EXCEPT ![r] = Written(q, row)]
                              ELSE receptions
           /\ Finish(q, IF Editable(q, row) THEN "ok" ELSE "integrity")
           /\ UNCHANGED <<clock, op, started, seen, drawn, customers, owners, mileage,
                          consents, orders>>
-----------------------------------------------------------------------------
(* Receptions: closing.  Lock order: reception, vehicle, order number.       *)

OrderOf(r) == {x \in orders : x.reception = r}

\* A bug: a retry is not recognised and closes the reception again.
CloseLockAgain(q) ==
  LET r == op[q].reception
  IN /\ Doing(q, "close", "open") /\ Free(<<"reception", r>>, q)
     /\ Take(q, <<"reception", r>>, "vehicle")
     /\ UNCHANGED <<clock, op, started, seen, drawn, outcome, tables>>

\* A retry answers with the order of the first call and changes nothing.
CloseLock(q) ==
  LET r == op[q].reception
  IN /\ Doing(q, "close", "open") /\ Free(<<"reception", r>>, q)
     /\ \/ /\ receptions[r].status = "closed"
           /\ Answer(q, IF OrderOf(r) = {} THEN "integrity" ELSE "replayed")
        \/ /\ receptions[r].status = "open"
           /\ Take(q, <<"reception", r>>, "vehicle")
           /\ UNCHANGED <<clock, op, started, seen, drawn, outcome, tables>>

CloseVehicle(q) ==
  LET row == receptions[op[q].reception]
  IN /\ Doing(q, "close", "vehicle") /\ Free(<<"vehicle", row.vehicle>>, q)
     /\ \/ Below(row.mileage, row.vehicle) /\ Answer(q, "refused")
        \/ /\ ~Below(row.mileage, row.vehicle)
           /\ Take(q, <<"vehicle", row.vehicle>>, "number")
           /\ UNCHANGED <<clock, op, started, seen, drawn, outcome, tables>>

\* A bug: the number is drawn without the advisory lock of the workshop.
CloseNumberUnlocked(q) ==
  /\ Doing(q, "close", "number")
  /\ pc' = [pc EXCEPT ![q] = "order"]
  /\ UNCHANGED <<clock, op, started, seen, drawn, holds, outcome, tables>>

CloseNumber(q) ==
  /\ Doing(q, "close", "number") /\ Free(<<"number", None>>, q)
  /\ Take(q, <<"number", None>>, "order")
  /\ UNCHANGED <<clock, op, started, seen, drawn, outcome, tables>>

Numbers == {x.number : x \in orders}
NextNumber == 1 + CHOOSE n \in Numbers \cup {0} : \A m \in Numbers : m <= n

\* A bug: the reception is closed by a transaction of its own.
CloseOrderEarly(q) ==
  /\ Doing(q, "close", "order")
  /\ drawn' = [drawn EXCEPT ![q] = NextNumber]
  /\ receptions' = [receptions EXCEPT ![op[q].reception].status = "closed"]
  /\ pc' = [pc EXCEPT ![q] = "commit"]
  /\ UNCHANGED <<clock, op, started, seen, holds, outcome, customers, owners,
                 mileage, consents, orders>>

\* INSERT ... SELECT MAX + 1 over the committed orders.
CloseOrder(q) ==
  /\ Doing(q, "close", "order")
  /\ drawn' = [drawn EXCEPT ![q] = NextNumber]
  /\ pc' = [pc EXCEPT ![q] = "commit"]
  /\ UNCHANGED <<clock, op, started, seen, holds, outcome, tables>>

\* A bug: the mileage of the reception does not reach its vehicle.
CloseCommitForgetful(q) ==
  LET r == op[q].reception  row == receptions[r]
  IN /\ Doing(q, "close", "commit")
     /\ receptions' = [receptions EXCEPT ![r].status = "closed",
                                         ![r].version = Later(started[q], @)]
     /\ orders' = orders \cup {[reception |-> r, number |-> drawn[q]]}
     /\ Finish(q, "ok")
     /\ UNCHANGED <<clock, op, started, seen, drawn, customers, owners, mileage, consents>>

\* Vehicle, reception, order and history become visible at once, or, when a
\* unique index refuses the order, none of them does.
CloseCommit(q) ==
  LET r == op[q].reception  row == receptions[r]
      unique == OrderOf(r) = {} /\ drawn[q] \notin Numbers
      closed == [row EXCEPT !.status = "closed", !.version = Later(started[q], @)]
  IN /\ Doing(q, "close", "commit")
     /\ mileage' = IF unique THEN [mileage EXCEPT ![row.vehicle] = row.mileage] ELSE mileage
     /\ receptions' = IF unique THEN [receptions EXCEPT ![r] = closed] ELSE receptions
     /\ orders' = IF unique THEN orders \cup {[reception |-> r, number |-> drawn[q]]}
                  ELSE orders
     /\ Finish(q, IF unique THEN "ok" ELSE "number_taken")
     /\ UNCHANGED <<clock, op, started, seen, drawn, customers, owners, consents>>

\* getReception: one statement reads the reception with its orders.
ReadReception(q) ==
  LET r == op[q].reception
      expected == IF receptions[r].status = "closed" THEN 1 ELSE 0
  IN /\ Doing(q, "read", "open")
     /\ Answer(q, IF Cardinality(OrderOf(r)) = expected THEN "ok" ELSE "integrity")
-----------------------------------------------------------------------------
Init ==
  /\ clock = 1 /\ op \in [Requests -> Operations]
  /\ pc = [q \in Requests |-> "new"]
  /\ started = [q \in Requests |-> 0] /\ seen = [q \in Requests |-> 0]
  /\ drawn = [q \in Requests |-> 0] /\ holds = [q \in Requests |-> {}]
  /\ outcome = [q \in Requests |-> "none"]
  /\ customers = [c \in Customers |-> [docType |-> FALSE, docNumber |-> FALSE, version |-> 1]]
  /\ owners = [v \in Vehicles |-> <<>>] /\ mileage = [v \in Vehicles |-> None]
  /\ consents = [q \in Requests |-> None] /\ receptions = [q \in Requests |-> None]
  /\ orders = {}

Step(q) ==
  \/ EditCustomer(q) \/ CreateVehicle(q) \/ TransferLock(q) \/ TransferCommit(q)
  \/ CaptureConsent(q) \/ RevokeConsent(q)
  \/ CreateLock(q) \/ CreateConsent(q) \/ CreateInsert(q) \/ CreateCommit(q)
  \/ EditLock(q) \/ EditWrite(q)
  \/ CloseLock(q) \/ CloseVehicle(q) \/ CloseNumber(q) \/ CloseOrder(q) \/ CloseCommit(q)
  \/ ReadReception(q)

Next == \E q \in Requests : Begin(q) \/ Step(q)

\* PostgreSQL serves a waiting transaction once the lock is free.
Fairness == \A q \in Requests : WF_vars(Step(q))

Spec == Init /\ [][Next]_vars

FairSpec == Spec /\ Fairness
-----------------------------------------------------------------------------
(* What the intake promises.                                                 *)

\* A vehicle is in the workshop once: it never has two open receptions
\* (service.ts createReception; receptions_one_open_vehicle_uq).
OneOpenReception == \A v \in Vehicles : Cardinality(OpenOn(v)) <= 1

\* Closing and opening the order are one fact: a closed reception has one order,
\* an open one none, and the orders are numbered 1, 2, 3... without a gap
\* (close.ts closeReception; the deferred guards of drizzle/0019).
OrderPerClosure ==
  /\ \A r \in Requests : receptions[r] # None =>
       Cardinality(OrderOf(r)) = IF receptions[r].status = "closed" THEN 1 ELSE 0
  /\ Numbers = 1 .. Cardinality(orders)

\* The mileage of an open reception never falls behind that of its vehicle, so
\* that it can always be closed (drizzle/0019, both mileage triggers).
OpenMileageCovers == \A v \in Vehicles : \A r \in OpenOn(v) : ~Below(receptions[r].mileage, v)

\* A vehicle's mileage is the highest its closed receptions recorded, and none is
\* known before the first closing (close.ts, the UPDATE of vehicles).
VehicleMileageIsHighest ==
  \A v \in Vehicles :
    LET closed == {r \in Requests : /\ receptions[r] # None
                                    /\ receptions[r].status = "closed"
                                    /\ receptions[r].vehicle = v}
    IN /\ mileage[v] = None <=> closed = {}
       /\ \A r \in closed : receptions[r].mileage <= mileage[v]
       /\ closed # {} => \E r \in closed : receptions[r].mileage = mileage[v]

\* When a reception becomes visible its customer still owns the vehicle and the
\* consent it names is still granted, for this customer and purpose, and older
\* (service.ts createReception; drizzle/0020).
NewReceptionsAreCovered ==
  [][\A r \in Requests :
       (receptions[r] = None /\ receptions'[r] # None) =>
         LET row == receptions'[r]
         IN /\ CurrentOwner(row.vehicle) = row.customer
            /\ GrantedFor(row.consent, row.customer, "service_provision")
            /\ consents[row.consent].created < row.created]_vars

\* A closed reception is history: no later request changes it or its order
\* (service.ts updateReception, inspection.ts lockOpenReception, close.ts).
ClosedIsFinal ==
  [][\A r \in Requests :
       (receptions[r] # None /\ receptions[r].status = "closed") =>
         receptions'[r] = receptions[r] /\ OrderOf(r) \subseteq orders']_vars

\* Of two edits whose clients had seen the same version, one succeeds at most
\* (service.ts updateReception, inspection.ts finish: updated_at as the token).
NoLostUpdate ==
  \A p, q \in Requests :
    (/\ p # q /\ {op[p].op, op[q].op} \subseteq {"patch", "inspect"}
     /\ outcome[p] = "ok" /\ outcome[q] = "ok"
     /\ op[p].reception = op[q].reception) => seen[p] # seen[q]

\* The ownerships of a vehicle follow one another: each lasts, each begins when
\* the one before ends, and the last is open (vehicles/service.ts transferOwner).
OwnersInSequence ==
  \A v \in Vehicles : \A i \in DOMAIN owners[v] :
    IF i = Len(owners[v]) THEN owners[v][i].to = 0
    ELSE /\ owners[v][i].from < owners[v][i].to
         /\ owners[v][i].to = owners[v][i + 1].from

\* A customer has a document type and number, or neither, whatever patches
\* of one or the other have succeeded (customers/service.ts updateCustomer).
DocumentPairs == \A c \in Customers : customers[c].docType = customers[c].docNumber

\* The workshop's records have their types and fit together: receptions with orders, with the
\* mileage of their vehicles, with owners one after the other.
RecordsConsistent ==
  /\ TypeOK
  /\ OneOpenReception /\ OrderPerClosure
  /\ OpenMileageCovers /\ VehicleMileageIsHighest
  /\ OwnersInSequence /\ DocumentPairs

\* What a reception was created on and what was closed stays true.
ReceptionHistory == NewReceptionsAreCovered /\ ClosedIsFinal

\* What a request answers and writes if nothing else happens from its first
\* check to its COMMIT: all of it follows from the tables of one moment.
CreatedAtOnce(q, answer) ==
  LET o == op[q]
      new == [vehicle |-> o.vehicle, customer |-> o.customer, consent |-> o.consent,
              mileage |-> o.mileage, status |-> "open", version |-> started[q],
              created |-> started[q], items |-> 0]
  IN /\ o.op = "create"
     /\ answer = IF Accepted(q) THEN "ok" ELSE "refused"
     /\ receptions' = IF Accepted(q) THEN [receptions EXCEPT ![q] = new] ELSE receptions
     /\ UNCHANGED <<customers, owners, mileage, consents, orders>>

TransferredAtOnce(q, answer) ==
  LET o == op[q]
  IN /\ o.op = "transfer"
     /\ answer = IF CurrentOwner(o.vehicle) = o.customer THEN "unchanged"
                 ELSE IF Len(owners[o.vehicle]) # seen[q] THEN "version_conflict" ELSE "ok"
     /\ IF answer = "ok"
          THEN \E at \in 1 .. clock - 1 :
                 /\ at > owners[o.vehicle][Len(owners[o.vehicle])].from
                 /\ owners' = [owners EXCEPT ![o.vehicle] = Owned(o, at)]
          ELSE owners' = owners
     /\ UNCHANGED <<customers, mileage, consents, receptions, orders>>

EditedAtOnce(q, answer) ==
  LET o == op[q]  row == receptions[o.reception]
  IN /\ o.op \in {"patch", "inspect"}
     /\ answer = IF row.status = "closed" THEN "refused"
                 ELSE IF row.version # seen[q] THEN "version_conflict"
                 ELSE IF o.op = "patch" /\ o.mileage = row.mileage THEN "unchanged"
                 ELSE IF EditRefused(q, row) THEN "refused" ELSE "ok"
     /\ receptions' = IF answer = "ok" THEN [receptions EXCEPT ![o.reception] = Written(q, row)]
                      ELSE receptions
     /\ UNCHANGED <<customers, owners, mileage, consents, orders>>

ClosedAtOnce(q, answer) ==
  LET r == op[q].reception  row == receptions[r]
      closed == [row EXCEPT !.status = "closed", !.version = Later(started[q], @)]
  IN /\ op[q].op = "close"
     /\ answer = IF row.status = "closed" THEN "replayed"
                 ELSE IF Below(row.mileage, row.vehicle) THEN "refused" ELSE "ok"
     /\ IF answer = "ok"
          THEN /\ mileage' = [mileage EXCEPT ![row.vehicle] = row.mileage]
               /\ receptions' = [receptions EXCEPT ![r] = closed]
               /\ orders' = orders \cup {[reception |-> r, number |-> Cardinality(orders) + 1]}
          ELSE UNCHANGED <<mileage, receptions, orders>>
     /\ UNCHANGED <<customers, owners, consents>>

AtOnce(q, answer) ==
  \/ CreatedAtOnce(q, answer) \/ TransferredAtOnce(q, answer)
  \/ EditedAtOnce(q, answer) \/ ClosedAtOnce(q, answer)
  \/ EditCustomer(q) \/ CreateVehicle(q) \/ CaptureConsent(q) \/ RevokeConsent(q)
  \/ op[q].op = "read" /\ answer = "ok" /\ UNCHANGED tables

\* Requests are serializable: whatever others do between the steps of a request,
\* it answers and writes as if all of it had happened when it was answered, and
\* nothing it writes shows before.  So no interleaving reaches the errors the
\* code calls integrity errors: an order number taken, a locked row that changed,
\* a reception without its order (close.ts internalIntegrityError, service.ts
\* RECEPTION_LOCKED_UPDATE_FAILED, queries.ts RECEPTION_READ_STATE_INCONSISTENT).
Serializable ==
  [][\/ UNCHANGED <<outcome, tables>>
     \/ \E q \in Requests :
          /\ outcome[q] = "none" /\ outcome' = [outcome EXCEPT ![q] = outcome'[q]]
          /\ AtOnce(q, outcome'[q])]_vars

\* Every request that begins is answered: no two wait for each other, because
\* all take receptions before vehicles before the order number, and vehicles
\* before consents (close.ts:69, service.ts:76).
EveryRequestEnds == \A q \in Requests : pc[q] # "new" ~> pc[q] = "done"
=============================================================================
