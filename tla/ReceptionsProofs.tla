-------------------------- MODULE ReceptionsProofs --------------------------
(* Theorems about Receptions, for any requests, vehicles, customers and       *)
(* mileages.                                                                  *)
(*                                                                            *)
(* The argument: what a request has checked under its locks (Ready) stays as  *)
(* it was until its COMMIT, because whoever would change it needs a lock that *)
(* the request holds (Locked, Exclusive).                                     *)
EXTENDS Receptions, FiniteSetTheorems, TLAPS

\* Which operation a step belongs to; and what it is about exists.
Fits(o, step) ==
  /\ step \in {"consent", "insert"} => o.op = "create"
  /\ step = "write" => o.op \in {"patch", "inspect"}
  /\ step \in {"vehicle", "number", "order"} => o.op = "close"
  /\ step = "commit" => o.op \in {"create", "transfer", "close"}

Shape == \A q \in Requests : Fits(op[q], pc[q]) /\ (pc[q] # "new" => TargetExists(op[q]))

\* The locks a request has at a step.
Closing(q) == op[q].op = "close" /\ pc[q] \in {"vehicle", "number", "order", "commit"}

LockedBy(q) ==
  LET o == op[q] IN
  /\ o.op \in {"create", "transfer"} /\ pc[q] \in {"consent", "insert", "commit"}
       => <<"vehicle", o.vehicle>> \in holds[q]
  /\ o.op = "create" /\ pc[q] \in {"insert", "commit"} => <<"consent", o.consent>> \in holds[q]
  /\ pc[q] = "write" \/ Closing(q) => <<"reception", o.reception>> \in holds[q]
  /\ Closing(q) /\ pc[q] # "vehicle" => <<"vehicle", receptions[o.reception].vehicle>> \in holds[q]
  /\ Closing(q) /\ pc[q] \in {"order", "commit"} => <<"number", None>> \in holds[q]

Locked == \A q \in Requests : LockedBy(q)

\* Only a consent is locked by several.
Exclusive ==
  \A p, q \in Requests : p # q => \A row \in holds[p] \cap holds[q] : row[1] = "consent"

\* A row is the work of the finished request it is named after.
Born ==
  \A q \in Requests :
    /\ receptions[q] # None => pc[q] = "done" /\ op[q].op = "create"
    /\ consents[q] # None => /\ pc[q] = "done" /\ op[q].op = "capture"
                             /\ consents[q].created = started[q]

\* Every transaction has an instant of its own, and nothing is of the future.
Clocked ==
  /\ \A q \in Requests : pc[q] # "new" =>
       /\ started[q] < clock
       /\ \A p \in Requests : p # q /\ pc[p] # "new" => started[p] # started[q]
  /\ \A v \in Vehicles : \A i \in DOMAIN owners[v] : owners[v][i].from < clock

\* What a request has found stays so until it is done.
ReadyFor(q) ==
  LET o == op[q]  row == receptions[o.reception] IN
  /\ o.op = "create" /\ pc[q] \in {"consent", "insert", "commit"} =>
       CurrentOwner(o.vehicle) = o.customer
  /\ o.op = "create" /\ pc[q] \in {"insert", "commit"} => Eligible(o.consent, o.customer, q)
  /\ o.op = "create" /\ pc[q] = "commit" =>
       ~Below(o.mileage, o.vehicle) /\ OpenOn(o.vehicle) = {}
  /\ o.op = "transfer" /\ pc[q] = "commit" =>
       /\ drawn[q] < clock /\ drawn[q] > owners[o.vehicle][Len(owners[o.vehicle])].from
       /\ CurrentOwner(o.vehicle) # o.customer /\ Len(owners[o.vehicle]) = seen[q]
  /\ pc[q] = "write" => Editable(q, row) /\ (o.op = "patch" => o.mileage # row.mileage)
  /\ Closing(q) => row.status = "open"
  /\ Closing(q) /\ pc[q] # "vehicle" => ~Below(row.mileage, row.vehicle)
  /\ Closing(q) /\ pc[q] = "commit" => drawn[q] = Cardinality(orders) + 1

Ready == \A q \in Requests : ReadyFor(q)

\* A vehicle's open receptions are one, and an order is of a closed reception.
IsOpen(r) == receptions[r] # None /\ receptions[r].status = "open"
IsClosed(r) == receptions[r] # None /\ receptions[r].status = "closed"

OnlyOpen ==
  \A r, s \in Requests :
    IsOpen(r) /\ IsOpen(s) /\ receptions[r].vehicle = receptions[s].vehicle => r = s

OrdersMatch ==
  /\ IsFiniteSet(orders)
  /\ \A x \in orders : IsClosed(x.reception)
  /\ \A r \in Requests : IsClosed(r) => \E x \in orders : x.reception = r
  /\ \A x, y \in orders : x.reception = y.reception => x = y
  /\ Numbers = 1 .. Cardinality(orders)

\* An edit that succeeded has left a later version than its client had seen.
EditsShow ==
  \A q \in Requests :
    /\ outcome[q] # "none" => pc[q] = "done"
    /\ outcome[q] = "ok" /\ op[q].op \in {"patch", "inspect"} =>
         /\ receptions[op[q].reception] # None
         /\ seen[q] < receptions[op[q].reception].version

\* The mileages, row by row.
Mileage ==
  /\ \A r \in Requests : IsOpen(r) => ~Below(receptions[r].mileage, receptions[r].vehicle)
  /\ \A r \in Requests : IsClosed(r) => /\ mileage[receptions[r].vehicle] # None
                                        /\ receptions[r].mileage <= mileage[receptions[r].vehicle]
  /\ \A v \in Vehicles : mileage[v] # None =>
       \E r \in Requests : /\ IsClosed(r) /\ receptions[r].vehicle = v
                           /\ receptions[r].mileage = mileage[v]

\* No interleaving reaches the errors the code calls integrity errors.
NoInternalError == \A q \in Requests : outcome[q] \notin {"integrity", "number_taken"}

\* What the tables say, and what the requests do.
Records == OnlyOpen /\ OrdersMatch /\ Mileage /\ OwnersInSequence /\ DocumentPairs

Answers == Born /\ Clocked /\ EditsShow /\ NoInternalError /\ NoLostUpdate

IInv == TypeOK /\ Shape /\ Locked /\ Exclusive /\ Ready /\ Records /\ Answers
-----------------------------------------------------------------------------
(* Types, and which operation stands at which step. *)

\* What the routes accept has the fields its operation reads.
LEMMA OperationFields ==
  ASSUME NEW o \in Operations
  PROVE  /\ o.op \in {"newVehicle", "transfer", "create"} =>
              o.vehicle \in Vehicles /\ o.customer \in Customers
         /\ o.op = "create" => o.consent \in Requests /\ o.mileage \in Mileages
         /\ o.op \in {"patch", "inspect", "close", "read"} => o.reception \in Requests
         /\ o.op = "patch" => o.mileage \in Mileages
         /\ o.op = "inspect" => o.missing \in BOOLEAN
         /\ o.op = "capture" => o.customer \in Customers /\ o.purpose \in Purposes
         /\ o.op = "edit" => o.customer \in Customers /\ o.docType \in Edits /\ o.docNumber \in Edits
         /\ o.op = "revoke" => o.consent \in Requests
         /\ o.op \in {"newVehicle", "transfer", "create", "patch", "inspect", "close", "read",
                      "capture", "edit", "revoke"}
BY DEF Operations, VehicleInputs, CreateInputs, PatchInputs, InspectionInputs, ConsentInputs,
       CustomerInputs

\* The columns of the rows.
LEMMA RowFields ==
  /\ \A r \in ReceptionRow :
       /\ r.vehicle \in Vehicles /\ r.customer \in Customers /\ r.consent \in Requests
       /\ r.mileage \in Mileages /\ r.status \in {"open", "closed"}
       /\ r.version \in Nat /\ r.created \in Nat /\ r.items \in Nat
  /\ \A c \in ConsentRow : /\ c.customer \in Customers /\ c.purpose \in Purposes
                           /\ c.status \in {"granted", "revoked"} /\ c.created \in Nat
  /\ \A x \in OwnerRow : x.customer \in Customers /\ x.from \in Nat /\ x.to \in Nat
  /\ \A x \in CustomerRow : /\ x.docType \in BOOLEAN /\ x.docNumber \in BOOLEAN
                            /\ x.version \in Nat
BY DEF ReceptionRow, ConsentRow, OwnerRow, CustomerRow

\* What every request that has begun is about exists, and has its type.
LEMMA Targets ==
  ASSUME TypeOK, Shape, NEW q \in Requests, pc[q] # "new"
  PROVE  /\ op[q] \in Operations
         /\ op[q].op \in {"create", "transfer"} =>
              owners[op[q].vehicle] \in Seq(OwnerRow) /\ owners[op[q].vehicle] # <<>>
         /\ op[q].op \in {"create", "revoke"} => consents[op[q].consent] \in ConsentRow
         /\ op[q].op \in {"patch", "inspect", "close", "read"} =>
              receptions[op[q].reception] \in ReceptionRow
<1>1. op[q] \in Operations /\ TargetExists(op[q])
  BY DEF TypeOK, Shape
<1> QED
  BY <1>1, OperationFields DEF TypeOK, TargetExists

LEMMA InitTypes == Init => TypeOK /\ Shape
<1> SUFFICES ASSUME Init PROVE TypeOK /\ Shape
  OBVIOUS
<1>1. customers \in [Customers -> CustomerRow]
  BY DEF Init, CustomerRow
<1>2. holds \in [Requests -> SUBSET ({"vehicle", "reception", "consent", "number"}
                                    \X (Vehicles \cup Requests \cup {None}))]
  BY DEF Init
<1>3. owners \in [Vehicles -> Seq(OwnerRow)]
  BY DEF Init
<1>4. TypeOK
  BY <1>1, <1>2, <1>3 DEF Init, TypeOK
<1> QED
  BY <1>4 DEF Init, Shape, Fits

\* Nothing disappears.
Grown == /\ \A v \in Vehicles : owners[v] # <<>> => owners'[v] # <<>>
         /\ \A r \in Requests : consents[r] # None => consents'[r] # None
         /\ \A r \in Requests : receptions[r] # None => receptions'[r] # None

LEMMA ShapeKept ==
  ASSUME TypeOK, Shape, NEW q \in Requests, NEW next,
         op' = op, pc' = [pc EXCEPT ![q] = next], Grown,
         pc[q] # "new" \/ TargetExists(op[q]), Fits(op[q], next)
  PROVE  Shape'
<1> SUFFICES ASSUME NEW p \in Requests
             PROVE  (Fits(op[p], pc[p]) /\ (pc[p] # "new" => TargetExists(op[p])))'
  BY DEF Shape
<1>1. Fits(op[p], pc[p])'
  BY DEF TypeOK, Shape, Fits
<1>2. pc'[p] # "new" => TargetExists(op[p])
  BY DEF TypeOK, Shape
<1>3. op[p] \in Operations
  BY DEF TypeOK
<1>4. TargetExists(op[p]) => TargetExists(op[p])'
  BY <1>3, OperationFields DEF Grown, TargetExists
<1> QED
  BY <1>1, <1>2, <1>4

\* The end of a transaction.
LEMMA FinishTypes ==
  ASSUME TypeOK, NEW q \in Requests,
         NEW result \in {"ok", "unchanged", "replayed", "refused", "version_conflict",
                         "number_taken", "integrity"}, Finish(q, result)
  PROVE  /\ pc' \in [Requests -> {"new", "open", "consent", "insert", "write",
                                  "vehicle", "number", "order", "commit", "done"}]
         /\ holds' \in [Requests -> SUBSET ({"vehicle", "reception", "consent", "number"}
                                            \X (Vehicles \cup Requests \cup {None}))]
         /\ outcome' \in [Requests -> {"none", "ok", "unchanged", "replayed", "refused",
                                       "version_conflict", "number_taken", "integrity"}]
BY DEF TypeOK, Finish

LEMMA TakeTypes ==
  ASSUME TypeOK, NEW q \in Requests,
         NEW row \in {"vehicle", "reception", "consent", "number"}
                     \X (Vehicles \cup Requests \cup {None}),
         NEW next \in {"consent", "insert", "write", "vehicle", "number", "order", "commit"},
         Take(q, row, next)
  PROVE  /\ pc' \in [Requests -> {"new", "open", "consent", "insert", "write",
                                  "vehicle", "number", "order", "commit", "done"}]
         /\ holds' \in [Requests -> SUBSET ({"vehicle", "reception", "consent", "number"}
                                            \X (Vehicles \cup Requests \cup {None}))]
BY DEF TypeOK, Take

LEMMA AnswerTypes ==
  ASSUME TypeOK, Shape, NEW q \in Requests, pc[q] # "new",
         NEW result \in {"ok", "unchanged", "replayed", "refused", "version_conflict",
                         "number_taken", "integrity"}, Answer(q, result)
  PROVE  TypeOK' /\ Shape'
<1>1. TypeOK'
  BY FinishTypes DEF Answer, TypeOK, tables
<1>2. Shape'
  BY ShapeKept DEF Answer, Finish, Grown, Fits, tables
<1> QED
  BY <1>1, <1>2

\* A step that takes a lock and changes nothing else.
LEMMA LockTypes ==
  ASSUME TypeOK, Shape, NEW q \in Requests, pc[q] # "new",
         NEW row \in {"vehicle", "reception", "consent", "number"}
                     \X (Vehicles \cup Requests \cup {None}),
         NEW next \in {"consent", "insert", "write", "vehicle", "number", "order"},
         Take(q, row, next), Fits(op[q], next),
         UNCHANGED <<clock, op, started, seen, drawn, outcome, tables>>
  PROVE  TypeOK' /\ Shape'
<1>0. next \in {"consent", "insert", "write", "vehicle", "number", "order", "commit"}
  OBVIOUS
<1>1. TypeOK'
  <2>1. /\ pc' \in [Requests -> {"new", "open", "consent", "insert", "write",
                                 "vehicle", "number", "order", "commit", "done"}]
        /\ holds' \in [Requests -> SUBSET ({"vehicle", "reception", "consent", "number"}
                                           \X (Vehicles \cup Requests \cup {None}))]
    BY <1>0, TakeTypes
  <2>2. /\ op' = op /\ clock' = clock /\ started' = started /\ seen' = seen /\ drawn' = drawn
        /\ outcome' = outcome /\ customers' = customers /\ owners' = owners
        /\ mileage' = mileage /\ consents' = consents /\ receptions' = receptions
        /\ orders' = orders
    BY DEF tables
  <2> QED
    BY <2>1, <2>2 DEF TypeOK
<1>2. Shape'
  BY ShapeKept DEF Take, Grown, tables
<1> QED
  BY <1>1, <1>2

\* A step that changes the tables and ends the transaction.
LEMMA WriteTypes ==
  ASSUME TypeOK, Shape, NEW q \in Requests, pc[q] # "new",
         NEW result \in {"ok", "unchanged", "replayed", "refused", "version_conflict",
                         "number_taken", "integrity"}, Finish(q, result),
         UNCHANGED <<op, started, seen, drawn>>, clock' \in Nat, Grown,
         customers' \in [Customers -> CustomerRow],
         owners' \in [Vehicles -> Seq(OwnerRow)],
         mileage' \in [Vehicles -> Mileages \cup {None}],
         consents' \in [Requests -> ConsentRow \cup {None}],
         receptions' \in [Requests -> ReceptionRow \cup {None}],
         orders' \subseteq [reception : Requests, number : Nat]
  PROVE  TypeOK' /\ Shape'
<1>1. TypeOK'
  BY FinishTypes DEF TypeOK
<1>2. Shape'
  BY ShapeKept DEF Finish, Fits
<1> QED
  BY <1>1, <1>2

\* The row a request of this kind locks.
LEMMA LockNames ==
  ASSUME NEW kind \in {"vehicle", "reception", "consent", "number"},
         NEW name \in Vehicles \cup Requests \cup {None}
  PROVE  <<kind, name>> \in {"vehicle", "reception", "consent", "number"}
                            \X (Vehicles \cup Requests \cup {None})
OBVIOUS

\* No step spoils a type, or reaches a step its operation has not.
LEMMA BeginTypes ==
  ASSUME TypeOK, Shape, NEW q \in Requests, Begin(q)
  PROVE  TypeOK' /\ Shape'
<1>1. TokenRead(op[q]) \in Nat
  <2>1. op[q] \in Operations /\ TargetExists(op[q])
    BY DEF TypeOK, Begin
  <2>2. CASE op[q].op \in {"patch", "inspect"}
    BY <2>1, <2>2, OperationFields, RowFields DEF TypeOK, TokenRead, TargetExists
  <2>3. CASE op[q].op = "transfer"
    BY <2>1, <2>3, OperationFields DEF TypeOK, TokenRead
  <2>4. CASE op[q].op = "edit"
    BY <2>1, <2>4, OperationFields, RowFields DEF TypeOK, TokenRead
  <2> QED
    BY <2>1, <2>2, <2>3, <2>4, OperationFields DEF TokenRead
<1>2. TypeOK'
  BY <1>1 DEF TypeOK, Begin, tables
<1>3. Shape'
  BY ShapeKept DEF Begin, Fits, Grown, tables
<1> QED
  BY <1>2, <1>3

LEMMA EditCustomerTypes ==
  ASSUME TypeOK, Shape, NEW q \in Requests, EditCustomer(q)
  PROVE  TypeOK' /\ Shape'
<1> DEFINE o == op[q]
           row == customers[o.customer]
           new == [docType |-> Edited(row.docType, o.docType),
                   docNumber |-> Edited(row.docNumber, o.docNumber), version |-> row.version + 1]
<1>1. pc[q] # "new" /\ o \in Operations /\ o.op = "edit"
  BY DEF EditCustomer, Doing, TypeOK
<1>2. o.customer \in Customers /\ row \in CustomerRow
  BY <1>1, OperationFields DEF TypeOK
<1>3. new \in CustomerRow
  <2>1. Edited(row.docType, o.docType) \in BOOLEAN /\ Edited(row.docNumber, o.docNumber) \in BOOLEAN
    BY <1>2, RowFields, Zenon DEF Edited
  <2>2. row.version + 1 \in Nat
    BY <1>2, RowFields
  <2> QED
    BY <2>1, <2>2 DEF CustomerRow
<1>4. CASE \E result \in {"unchanged", "refused", "version_conflict"} : Answer(q, result)
  BY <1>1, <1>4, AnswerTypes
<1>5. CASE /\ customers' = [customers EXCEPT ![o.customer] = new] /\ Finish(q, "ok")
           /\ UNCHANGED <<clock, op, started, seen, drawn, owners, mileage,
                          consents, receptions, orders>>
  <2> HIDE DEF new
  <2>1. customers' \in [Customers -> CustomerRow]
    BY <1>2, <1>3, <1>5 DEF TypeOK
  <2>2. Grown
    BY <1>5 DEF Grown
  <2> QED
    BY <1>1, <1>5, <2>1, <2>2, WriteTypes DEF TypeOK
<1> QED
  BY <1>4, <1>5 DEF EditCustomer

LEMMA CreateVehicleTypes ==
  ASSUME TypeOK, Shape, NEW q \in Requests, CreateVehicle(q)
  PROVE  TypeOK' /\ Shape'
<1> DEFINE o == op[q]
           first == [customer |-> o.customer, from |-> clock, to |-> 0]
<1>1. pc[q] # "new" /\ o \in Operations /\ o.op = "newVehicle"
  BY DEF CreateVehicle, Doing, TypeOK
<1>2. o.customer \in Customers /\ o.vehicle \in Vehicles
  BY <1>1, OperationFields
<1>3. <<first>> \in Seq(OwnerRow)
  BY <1>2 DEF OwnerRow, TypeOK
<1>4. CASE Answer(q, "refused")
  BY <1>1, <1>4, AnswerTypes
<1>5. CASE /\ owners' = [owners EXCEPT ![o.vehicle] = <<first>>]
           /\ clock' = clock + 1 /\ Finish(q, "ok")
           /\ UNCHANGED <<op, started, seen, drawn, customers, mileage, consents,
                          receptions, orders>>
  <2>1. owners' \in [Vehicles -> Seq(OwnerRow)] /\ clock' \in Nat
    BY <1>2, <1>3, <1>5 DEF TypeOK
  <2>2. Grown
    BY <1>5 DEF Grown, TypeOK
  <2> QED
    BY <1>1, <1>5, <2>1, <2>2, WriteTypes DEF TypeOK
<1> QED
  BY <1>4, <1>5 DEF CreateVehicle

LEMMA TransferLockTypes ==
  ASSUME TypeOK, Shape, NEW q \in Requests, TransferLock(q)
  PROVE  TypeOK' /\ Shape'
<1> DEFINE o == op[q]
<1>1. pc[q] # "new" /\ o \in Operations /\ o.op = "transfer"
  BY DEF TransferLock, Doing, TypeOK
<1>2. o.vehicle \in Vehicles
  BY <1>1, OperationFields
<1>4. CASE \E result \in {"unchanged", "version_conflict"} : Answer(q, result)
  BY <1>1, <1>4, AnswerTypes
<1>5. CASE /\ Take(q, <<"vehicle", o.vehicle>>, "commit")
           /\ drawn' = [drawn EXCEPT ![q] = clock] /\ clock' = clock + 1
           /\ UNCHANGED <<op, started, seen, outcome, tables>>
  <2>1. /\ pc' \in [Requests -> {"new", "open", "consent", "insert", "write",
                                  "vehicle", "number", "order", "commit", "done"}]
        /\ holds' \in [Requests -> SUBSET ({"vehicle", "reception", "consent", "number"}
                                            \X (Vehicles \cup Requests \cup {None}))]
    BY <1>2, <1>5, TakeTypes, LockNames
  <2>2. /\ op' = op /\ started' = started /\ seen' = seen /\ outcome' = outcome
        /\ customers' = customers /\ owners' = owners /\ mileage' = mileage
        /\ consents' = consents /\ receptions' = receptions /\ orders' = orders
    BY <1>5 DEF tables
  <2>3. drawn' \in [Requests -> Nat] /\ clock' \in Nat
    BY <1>5 DEF TypeOK
  <2>4. TypeOK'
    BY <2>1, <2>2, <2>3 DEF TypeOK
  <2>5. Shape'
    BY <1>1, <1>5, ShapeKept DEF Take, Grown, Fits, tables
  <2> QED
    BY <2>4, <2>5
<1> QED
  BY <1>4, <1>5 DEF TransferLock

\* A vehicle's owners, seen as a sequence with a last.
LEMMA OwnedSequence ==
  ASSUME TypeOK, NEW o \in Operations, o.op = "transfer", owners[o.vehicle] # <<>>, NEW at \in Nat
  PROVE  /\ Len(owners[o.vehicle]) \in Nat \ {0}
         /\ Owned(o, at) \in Seq(OwnerRow) /\ Owned(o, at) # <<>>
         /\ Len(Owned(o, at)) = Len(owners[o.vehicle]) + 1
         /\ Owned(o, at)[Len(owners[o.vehicle]) + 1]
              = [customer |-> o.customer, from |-> at, to |-> 0]
         /\ Owned(o, at)[Len(owners[o.vehicle])]
              = [owners[o.vehicle][Len(owners[o.vehicle])] EXCEPT !.to = at]
         /\ \A i \in 1 .. Len(owners[o.vehicle]) - 1 : Owned(o, at)[i] = owners[o.vehicle][i]
<1> DEFINE s == owners[o.vehicle]
           ended == [s[Len(s)] EXCEPT !.to = at]
           begun == [customer |-> o.customer, from |-> at, to |-> 0]
           t == [s EXCEPT ![Len(s)] = ended]
<1>1. o.vehicle \in Vehicles /\ o.customer \in Customers
  BY OperationFields
<1>2. s \in Seq(OwnerRow) /\ Len(s) \in Nat \ {0}
  BY <1>1 DEF TypeOK
<1>3. ended \in OwnerRow /\ begun \in OwnerRow
  <2>1. s[Len(s)] \in OwnerRow
    BY <1>2
  <2> QED
    BY <1>1, <2>1 DEF OwnerRow
<1> HIDE DEF ended, begun
<1>4. /\ t \in Seq(OwnerRow) /\ Len(t) = Len(s) /\ t[Len(s)] = ended
      /\ \A i \in 1 .. Len(s) - 1 : t[i] = s[i]
  <2> HIDE DEF s
  <2> QED
    BY <1>2, <1>3
<1>5. Owned(o, at) = Append(t, begun)
  BY DEF Owned, ended, begun
<1> HIDE DEF t
<1>6. /\ Append(t, begun) \in Seq(OwnerRow) /\ Append(t, begun) # <<>>
      /\ Len(Append(t, begun)) = Len(s) + 1
      /\ Append(t, begun)[Len(s) + 1] = begun
      /\ Append(t, begun)[Len(s)] = ended
      /\ \A i \in 1 .. Len(s) - 1 : Append(t, begun)[i] = s[i]
  <2> HIDE DEF s
  <2> QED
    BY <1>2, <1>3, <1>4
<1> QED
  BY <1>2, <1>5, <1>6 DEF ended, begun

LEMMA TransferCommitTypes ==
  ASSUME TypeOK, Shape, NEW q \in Requests, TransferCommit(q)
  PROVE  TypeOK' /\ Shape'
<1> DEFINE o == op[q]
<1>1. pc[q] # "new" /\ o \in Operations /\ o.op = "transfer"
  BY DEF TransferCommit, Doing, TypeOK
<1>2. o.vehicle \in Vehicles /\ owners[o.vehicle] # <<>> /\ drawn[q] \in Nat
  BY <1>1, OperationFields, Targets DEF TypeOK
<1>3. Owned(o, drawn[q]) \in Seq(OwnerRow) /\ Owned(o, drawn[q]) # <<>>
  BY <1>1, <1>2, OwnedSequence
<1>4. owners' = owners \/ owners' = [owners EXCEPT ![o.vehicle] = Owned(o, drawn[q])]
  BY DEF TransferCommit
<1>5. owners' \in [Vehicles -> Seq(OwnerRow)]
  BY <1>2, <1>3, <1>4 DEF TypeOK
<1>6. Grown
  BY <1>2, <1>3, <1>4 DEF Grown, TransferCommit, TypeOK
<1>7. \E result \in {"ok", "integrity"} : Finish(q, result)
  BY DEF TransferCommit
<1> QED
  BY <1>1, <1>5, <1>6, <1>7, WriteTypes DEF TransferCommit, TypeOK

LEMMA CaptureConsentTypes ==
  ASSUME TypeOK, Shape, NEW q \in Requests, CaptureConsent(q)
  PROVE  TypeOK' /\ Shape'
<1> DEFINE o == op[q]
           new == [customer |-> o.customer, purpose |-> o.purpose,
                   status |-> "granted", created |-> started[q]]
<1>1. pc[q] # "new" /\ o \in Operations /\ o.op = "capture"
  BY DEF CaptureConsent, Doing, TypeOK
<1>2. new \in ConsentRow
  BY <1>1, OperationFields DEF ConsentRow, TypeOK
<1>3. CASE Answer(q, "refused")
  BY <1>1, <1>3, AnswerTypes
<1>4. CASE /\ consents' = [consents EXCEPT ![q] = new] /\ Finish(q, "ok")
           /\ UNCHANGED <<clock, op, started, seen, drawn, customers, owners,
                          mileage, receptions, orders>>
  <2> HIDE DEF new
  <2>1. consents' \in [Requests -> ConsentRow \cup {None}]
    BY <1>2, <1>4 DEF TypeOK
  <2>2. Grown
    BY <1>2, <1>4, NoneAssumption DEF Grown, TypeOK
  <2> QED
    BY <1>1, <1>4, <2>1, <2>2, WriteTypes DEF TypeOK
<1> QED
  BY <1>3, <1>4 DEF CaptureConsent

LEMMA RevokeConsentTypes ==
  ASSUME TypeOK, Shape, NEW q \in Requests, RevokeConsent(q)
  PROVE  TypeOK' /\ Shape'
<1> DEFINE c == op[q].consent
           new == [consents[c] EXCEPT !.status = "revoked"]
<1>1. pc[q] # "new" /\ op[q] \in Operations /\ op[q].op = "revoke"
  BY DEF RevokeConsent, Doing, TypeOK
<1>2. c \in Requests /\ consents[c] \in ConsentRow
  BY <1>1, OperationFields, Targets
<1>3. new \in ConsentRow
  BY <1>2 DEF ConsentRow
<1>4. CASE Answer(q, "refused")
  BY <1>1, <1>4, AnswerTypes
<1>5. CASE /\ consents' = [consents EXCEPT ![c] = new] /\ Finish(q, "ok")
           /\ UNCHANGED <<clock, op, started, seen, drawn, customers, owners,
                          mileage, receptions, orders>>
  <2> HIDE DEF new
  <2>1. consents' \in [Requests -> ConsentRow \cup {None}]
    BY <1>2, <1>3, <1>5 DEF TypeOK
  <2>2. Grown
    BY <1>2, <1>3, <1>5, NoneAssumption DEF Grown, TypeOK
  <2> QED
    BY <1>1, <1>5, <2>1, <2>2, WriteTypes DEF TypeOK
<1> QED
  BY <1>4, <1>5 DEF RevokeConsent

LEMMA CreateStepTypes ==
  ASSUME TypeOK, Shape, NEW q \in Requests,
         CreateLock(q) \/ CreateConsent(q) \/ CreateInsert(q)
  PROVE  TypeOK' /\ Shape'
<1>1. pc[q] # "new" /\ op[q] \in Operations /\ op[q].op = "create"
  BY DEF CreateLock, CreateConsent, CreateInsert, Doing, TypeOK
<1>2. op[q].vehicle \in Vehicles /\ op[q].consent \in Requests
  BY <1>1, OperationFields
<1>3. CASE Answer(q, "refused")
  BY <1>1, <1>3, AnswerTypes
<1>4. CASE /\ \/ Take(q, <<"vehicle", op[q].vehicle>>, "consent")
              \/ Take(q, <<"consent", op[q].consent>>, "insert")
           /\ UNCHANGED <<clock, op, started, seen, drawn, outcome, tables>>
  <2>1. /\ <<"vehicle", op[q].vehicle>> \in {"vehicle", "reception", "consent", "number"}
                                            \X (Vehicles \cup Requests \cup {None})
        /\ <<"consent", op[q].consent>> \in {"vehicle", "reception", "consent", "number"}
                                            \X (Vehicles \cup Requests \cup {None})
        /\ Fits(op[q], "consent") /\ Fits(op[q], "insert")
    BY <1>1, <1>2, LockNames DEF Fits
  <2> QED
    BY <1>1, <1>4, <2>1, LockTypes
<1>5. CASE /\ pc' = [pc EXCEPT ![q] = "commit"]
           /\ UNCHANGED <<clock, op, started, seen, drawn, holds, outcome, tables>>
  <2>1. TypeOK'
    BY <1>5 DEF TypeOK, tables
  <2>2. Shape'
    BY <1>1, <1>5, ShapeKept DEF Grown, Fits, tables
  <2> QED
    BY <2>1, <2>2
<1> QED
  BY <1>3, <1>4, <1>5 DEF CreateLock, CreateConsent, CreateInsert

LEMMA CreateCommitTypes ==
  ASSUME TypeOK, Shape, NEW q \in Requests, CreateCommit(q)
  PROVE  TypeOK' /\ Shape'
<1> DEFINE o == op[q]
           new == [vehicle |-> o.vehicle, customer |-> o.customer, consent |-> o.consent,
                   mileage |-> o.mileage, status |-> "open", version |-> started[q],
                   created |-> started[q], items |-> 0]
<1>1. pc[q] # "new" /\ o \in Operations /\ o.op = "create"
  BY DEF CreateCommit, Doing, TypeOK
<1>2. new \in ReceptionRow
  BY <1>1, OperationFields DEF ReceptionRow, TypeOK
<1>3. receptions' = [receptions EXCEPT ![q] = new]
  BY DEF CreateCommit
<1> HIDE DEF new
<1>4. receptions' \in [Requests -> ReceptionRow \cup {None}]
  BY <1>2, <1>3 DEF TypeOK
<1>5. Grown
  BY <1>2, <1>3, NoneAssumption DEF Grown, TypeOK, CreateCommit
<1> QED
  BY <1>1, <1>4, <1>5, WriteTypes DEF CreateCommit, TypeOK

LEMMA EditLockTypes ==
  ASSUME TypeOK, Shape, NEW q \in Requests, EditLock(q)
  PROVE  TypeOK' /\ Shape'
<1>1. pc[q] # "new" /\ op[q] \in Operations /\ op[q].op \in {"patch", "inspect"}
  BY DEF EditLock, TypeOK
<1>2. CASE \E result \in {"refused", "unchanged", "version_conflict"} : Answer(q, result)
  BY <1>1, <1>2, AnswerTypes
<1>3. CASE /\ Take(q, <<"reception", op[q].reception>>, "write")
           /\ UNCHANGED <<clock, op, started, seen, drawn, outcome, tables>>
  <2>1. <<"reception", op[q].reception>> \in {"vehicle", "reception", "consent", "number"}
                                             \X (Vehicles \cup Requests \cup {None})
    BY <1>1, OperationFields, LockNames
  <2> QED
    BY <1>1, <1>3, <2>1, LockTypes DEF Fits
<1> QED
  BY <1>2, <1>3 DEF EditLock

\* The row an edit leaves.
LEMMA WrittenRow ==
  ASSUME TypeOK, Shape, NEW q \in Requests, pc[q] # "new", op[q].op \in {"patch", "inspect"}
  PROVE  LET row == receptions[op[q].reception] IN
         /\ op[q].reception \in Requests /\ row \in ReceptionRow
         /\ Written(q, row) \in ReceptionRow
         /\ Written(q, row).status = row.status /\ Written(q, row).vehicle = row.vehicle
         /\ Written(q, row).version > row.version
<1> DEFINE o == op[q]
           row == receptions[o.reception]
<1>1. o \in Operations /\ o.reception \in Requests /\ row \in ReceptionRow
  BY OperationFields, Targets
<1>2. started[q] \in Nat /\ row.version \in Nat /\ row.items \in Nat /\ row.mileage \in Mileages
  BY <1>1, RowFields DEF TypeOK
<1>3. Later(started[q], row.version) \in Nat /\ Later(started[q], row.version) > row.version
  BY <1>2 DEF Later
<1>4. (IF o.op = "patch" THEN o.mileage ELSE row.mileage) \in Mileages
  BY <1>1, <1>2, OperationFields
<1>5. (IF o.op = "inspect" THEN row.items + 1 ELSE row.items) \in Nat
  BY <1>2
<1>6. Written(q, row) = [row EXCEPT !.version = Later(started[q], row.version),
                                    !.mileage = IF o.op = "patch" THEN o.mileage ELSE row.mileage,
                                    !.items = IF o.op = "inspect" THEN row.items + 1 ELSE row.items]
  BY <1>1 DEF Written, ReceptionRow
<1> QED
  BY <1>1, <1>3, <1>4, <1>5, <1>6 DEF ReceptionRow

LEMMA EditWriteTypes ==
  ASSUME TypeOK, Shape, NEW q \in Requests, EditWrite(q)
  PROVE  TypeOK' /\ Shape'
<1> DEFINE r == op[q].reception
           row == receptions[r]
<1>1. pc[q] # "new" /\ op[q].op \in {"patch", "inspect"}
  BY DEF EditWrite, Shape, Fits
<1>2. r \in Requests /\ row \in ReceptionRow /\ Written(q, row) \in ReceptionRow
  BY <1>1, WrittenRow
<1>3. CASE Answer(q, "refused")
  BY <1>1, <1>3, AnswerTypes
<1>4. CASE /\ receptions' = IF Editable(q, row)
                              THEN [receptions EXCEPT ![r] = Written(q, row)]
                              ELSE receptions
           /\ Finish(q, IF Editable(q, row) THEN "ok" ELSE "integrity")
           /\ UNCHANGED <<clock, op, started, seen, drawn, customers, owners, mileage,
                          consents, orders>>
  <2>1. receptions' \in [Requests -> ReceptionRow \cup {None}]
    BY <1>2, <1>4 DEF TypeOK
  <2>2. Grown
    BY <1>2, <1>4, NoneAssumption DEF Grown, TypeOK
  <2>3. \E result \in {"ok", "integrity"} : Finish(q, result)
    BY <1>4
  <2> QED
    BY <1>1, <1>4, <2>1, <2>2, <2>3, WriteTypes DEF TypeOK
<1> QED
  BY <1>3, <1>4 DEF EditWrite

LEMMA CloseStepTypes ==
  ASSUME TypeOK, Shape, NEW q \in Requests,
         CloseLock(q) \/ CloseVehicle(q) \/ CloseNumber(q)
  PROVE  TypeOK' /\ Shape'
<1> DEFINE r == op[q].reception
           v == receptions[r].vehicle
<1>1. pc[q] # "new" /\ op[q] \in Operations /\ op[q].op = "close"
  BY DEF CloseLock, CloseVehicle, CloseNumber, Doing, TypeOK
<1>2. r \in Requests /\ v \in Vehicles
  BY <1>1, OperationFields, Targets, RowFields
<1>3. CASE \E result \in {"refused", "integrity", "replayed"} : Answer(q, result)
  BY <1>1, <1>3, AnswerTypes
<1>4. CASE /\ \/ Take(q, <<"reception", r>>, "vehicle")
              \/ Take(q, <<"vehicle", v>>, "number")
              \/ Take(q, <<"number", None>>, "order")
           /\ UNCHANGED <<clock, op, started, seen, drawn, outcome, tables>>
  <2>1. \A row \in {<<"reception", r>>, <<"vehicle", v>>, <<"number", None>>} :
          row \in {"vehicle", "reception", "consent", "number"} \X (Vehicles \cup Requests \cup {None})
    BY <1>2
  <2> QED
    BY <1>1, <1>4, <2>1, LockTypes DEF Fits
<1> QED
  BY <1>3, <1>4 DEF CloseLock, CloseVehicle, CloseNumber

\* The order numbers are numbers, and finitely many have a largest one.
Numbered == IsFiniteSet(orders) /\ Numbers = 1 .. Cardinality(orders)

LEMMA NextIsNumber ==
  ASSUME Numbered
  PROVE  /\ Cardinality(orders) \in Nat
         /\ NextNumber = Cardinality(orders) + 1
<1> DEFINE k == Cardinality(orders)
           m == CHOOSE n \in Numbers \cup {0} : \A i \in Numbers : i <= n
<1>1. k \in Nat
  BY FS_CardinalityType DEF Numbered
<1>2. Numbers = 1 .. k
  BY DEF Numbered
<1> HIDE DEF k
<1>3. k \in Numbers \cup {0} /\ \A i \in Numbers : i <= k
  BY <1>1, <1>2
<1>4. m \in Numbers \cup {0} /\ \A i \in Numbers : i <= m
  BY <1>3
<1>5. m = k
  <2> HIDE DEF m
  <2> QED
    BY <1>1, <1>2, <1>3, <1>4
<1>6. NextNumber = 1 + m
  BY Zenon DEF NextNumber
<1> HIDE DEF m
<1>7. NextNumber = k + 1
  BY <1>1, <1>5, <1>6
<1> QED
  BY <1>1, <1>7 DEF k

LEMMA CloseOrderTypes ==
  ASSUME TypeOK, Shape, Numbered, NEW q \in Requests, CloseOrder(q)
  PROVE  TypeOK' /\ Shape'
<1>1. pc[q] # "new" /\ op[q].op = "close" /\ NextNumber \in Nat
  BY NextIsNumber DEF CloseOrder, Doing
<1>2. TypeOK'
  BY <1>1 DEF CloseOrder, TypeOK, tables
<1>3. Shape'
  BY <1>1, ShapeKept DEF CloseOrder, Grown, Fits, tables
<1> QED
  BY <1>2, <1>3

\* The row a closing leaves.
LEMMA ClosedRow ==
  ASSUME NEW row \in ReceptionRow, NEW now \in Nat
  PROVE  LET closed == [row EXCEPT !.status = "closed", !.version = Later(now, @)]
         IN  /\ closed \in ReceptionRow /\ closed.status = "closed"
             /\ closed.vehicle = row.vehicle /\ closed.mileage = row.mileage
             /\ closed.version > row.version
<1>1. Later(now, row.version) \in Nat /\ Later(now, row.version) > row.version
  BY RowFields DEF Later
<1> QED
  BY <1>1 DEF ReceptionRow

LEMMA CloseCommitTypes ==
  ASSUME TypeOK, Shape, NEW q \in Requests, CloseCommit(q)
  PROVE  TypeOK' /\ Shape'
<1> DEFINE r == op[q].reception
           row == receptions[r]
           unique == OrderOf(r) = {} /\ drawn[q] \notin Numbers
           closed == [row EXCEPT !.status = "closed", !.version = Later(started[q], @)]
<1>1. pc[q] # "new" /\ op[q] \in Operations /\ op[q].op = "close"
  BY DEF CloseCommit, Doing, TypeOK
<1>2. r \in Requests /\ row \in ReceptionRow /\ row.vehicle \in Vehicles /\ row.mileage \in Mileages
  BY <1>1, OperationFields, Targets, RowFields
<1>3. closed \in ReceptionRow
  BY <1>2, ClosedRow DEF TypeOK
<1>4. /\ mileage' = IF unique THEN [mileage EXCEPT ![row.vehicle] = row.mileage] ELSE mileage
      /\ receptions' = IF unique THEN [receptions EXCEPT ![r] = closed] ELSE receptions
      /\ orders' = IF unique THEN orders \cup {[reception |-> r, number |-> drawn[q]]}
                   ELSE orders
      /\ Finish(q, IF unique THEN "ok" ELSE "number_taken")
  BY DEF CloseCommit
<1> HIDE DEF unique, closed
<1>5. mileage' \in [Vehicles -> Mileages \cup {None}]
  BY <1>2, <1>4 DEF TypeOK
<1>6. receptions' \in [Requests -> ReceptionRow \cup {None}]
  BY <1>3, <1>4 DEF TypeOK
<1>7. orders' \subseteq [reception : Requests, number : Nat]
  BY <1>2, <1>4 DEF TypeOK
<1>8. Grown
  BY <1>3, <1>4, NoneAssumption DEF Grown, TypeOK, CloseCommit
<1>9. \E result \in {"ok", "number_taken"} : Finish(q, result)
  BY <1>4
<1> QED
  BY <1>1, <1>5, <1>6, <1>7, <1>8, <1>9, WriteTypes DEF CloseCommit, TypeOK

LEMMA ReadTypes ==
  ASSUME TypeOK, Shape, NEW q \in Requests, ReadReception(q)
  PROVE  TypeOK' /\ Shape'
BY AnswerTypes DEF ReadReception, Doing

-----------------------------------------------------------------------------
(* What a request has found stays, because it holds the locks. *)

\* No reception changes its vehicle.
VehiclesStay == \A r \in Requests : receptions[r] # None =>
                  receptions'[r].vehicle = receptions[r].vehicle

\* What request p has locked is as it was.
Undisturbed(p) ==
  /\ \A v \in Vehicles : <<"vehicle", v>> \in holds[p] =>
       /\ owners[v] # <<>> => owners'[v] = owners[v]
       /\ mileage'[v] = mileage[v]
       /\ \A r \in OpenOn(v)' : r \in OpenOn(v)
  /\ \A c \in Requests : <<"consent", c>> \in holds[p] /\ consents[c] # None =>
       consents'[c] = consents[c]
  /\ \A r \in Requests : <<"reception", r>> \in holds[p] /\ receptions[r] # None =>
       receptions'[r] = receptions[r]
  /\ <<"number", None>> \in holds[p] => orders' = orders

LEMMA OthersLocked ==
  ASSUME TypeOK, Shape, NEW p \in Requests, LockedBy(p), VehiclesStay,
         op' = op, holds'[p] = holds[p], pc'[p] = pc[p]
  PROVE  LockedBy(p)'
<1>1. Closing(p) => receptions[op[p].reception] # None /\ op[p].reception \in Requests
  BY OperationFields DEF Shape, TypeOK, TargetExists, Closing
<1>2. Closing(p)' = Closing(p)
  BY DEF Closing
<1> QED
  BY <1>1, <1>2 DEF LockedBy, VehiclesStay

LEMMA OthersReady ==
  ASSUME TypeOK, Shape, NEW p \in Requests, LockedBy(p), ReadyFor(p), Undisturbed(p),
         op' = op, pc'[p] = pc[p], started'[p] = started[p], seen'[p] = seen[p],
         drawn'[p] = drawn[p], clock' \in Nat, clock' >= clock
  PROVE  ReadyFor(p)'
<1> DEFINE o == op[p]
           row == receptions[o.reception]
<1>0. op[p] \in Operations /\ op'[p] = op[p]
  BY DEF TypeOK
<1>1. CASE o.op = "create" /\ pc[p] \in {"consent", "insert", "commit"}
  <2>1. /\ o.vehicle \in Vehicles /\ o.consent \in Requests /\ owners[o.vehicle] # <<>>
        /\ consents[o.consent] # None
    BY <1>0, <1>1, OperationFields, Targets, NoneAssumption
  <2>2. owners'[o.vehicle] = owners[o.vehicle] /\ mileage'[o.vehicle] = mileage[o.vehicle]
    BY <1>1, <2>1 DEF LockedBy, Undisturbed
  <2>3. CurrentOwner(o.vehicle)' = o.customer
    BY <1>0, <1>1, <2>2 DEF ReadyFor, CurrentOwner
  <2>4. pc[p] \in {"insert", "commit"} => Eligible(o.consent, o.customer, p)'
    <3>1. pc[p] \in {"insert", "commit"} => consents'[o.consent] = consents[o.consent]
      BY <1>1, <2>1 DEF LockedBy, Undisturbed
    <3>2. pc[p] \in {"insert", "commit"} => Eligible(o.consent, o.customer, p)
      BY <1>1 DEF ReadyFor
    <3> QED
      BY <1>0, <3>1, <3>2 DEF Eligible, GrantedFor
  <2>5. pc[p] = "commit" => ~Below(o.mileage, o.vehicle)'
    BY <1>0, <1>1, <2>2 DEF ReadyFor, Below
  <2>6. pc[p] = "commit" => OpenOn(o.vehicle)' = {}
    <3>1. pc[p] = "commit" => OpenOn(o.vehicle) = {}
      BY <1>1 DEF ReadyFor
    <3>2. \A r \in OpenOn(o.vehicle)' : r \in OpenOn(o.vehicle)
      BY <1>0, <1>1, <2>1 DEF LockedBy, Undisturbed
    <3> QED
      BY <3>1, <3>2
  <2>7. pc'[p] # "write" /\ op'[p].op = "create" /\ ~Closing(p)'
    BY <1>0, <1>1 DEF Closing
  <2> QED
    BY <1>0, <2>3, <2>4, <2>5, <2>6, <2>7 DEF ReadyFor
<1>2. CASE o.op = "transfer" /\ pc[p] = "commit"
  <2>1. o.vehicle \in Vehicles /\ owners[o.vehicle] # <<>>
    BY <1>0, <1>2, OperationFields, Targets
  <2>2. owners'[o.vehicle] = owners[o.vehicle]
    BY <1>2, <2>1 DEF LockedBy, Undisturbed
  <2>3. pc'[p] # "write" /\ op'[p].op = "transfer" /\ ~Closing(p)'
    BY <1>0, <1>2 DEF Closing
  <2>4. /\ drawn[p] < clock /\ drawn[p] > owners[o.vehicle][Len(owners[o.vehicle])].from
        /\ CurrentOwner(o.vehicle) # o.customer /\ Len(owners[o.vehicle]) = seen[p]
    BY <1>2 DEF ReadyFor
  <2>5. drawn[p] \in Nat /\ clock \in Nat
    BY DEF TypeOK
  <2> QED
    BY <1>0, <2>2, <2>3, <2>4, <2>5 DEF ReadyFor, CurrentOwner
<1>3. CASE pc[p] = "write" \/ Closing(p)
  <2>1. o.op \in {"patch", "inspect", "close"}
    BY <1>3 DEF Shape, Fits, Closing
  <2>2. o.reception \in Requests /\ row \in ReceptionRow /\ row # None
    BY <1>0, <1>3, <2>1, OperationFields, Targets, NoneAssumption DEF Closing
  <2>3. receptions'[o.reception] = row
    BY <1>3, <2>2 DEF LockedBy, Undisturbed
  <2>4. Closing(p)' = Closing(p)
    BY <1>0 DEF Closing
  <2>5. Closing(p) /\ pc[p] # "vehicle" => ~Below(row.mileage, row.vehicle)'
    <3>1. Closing(p) /\ pc[p] # "vehicle" => mileage'[row.vehicle] = mileage[row.vehicle]
      BY <2>2, RowFields DEF LockedBy, Undisturbed
    <3>2. Closing(p) /\ pc[p] # "vehicle" => ~Below(row.mileage, row.vehicle)
      BY DEF ReadyFor
    <3> QED
      BY <2>3, <3>1, <3>2 DEF Below
  <2>6. Closing(p) /\ pc[p] = "commit" => drawn'[p] = Cardinality(orders') + 1
    BY DEF LockedBy, Undisturbed, ReadyFor
  <2>7. pc[p] = "write" => Editable(p, row)' /\ (o.op = "patch" => o.mileage # row.mileage)
    BY <2>3 DEF ReadyFor, Editable
  <2>8. Closing(p) => row.status = "open"
    BY DEF ReadyFor
  <2>9. ~(o.op \in {"create", "transfer"})
    BY <2>1
  <2> QED
    BY <1>0, <2>3, <2>4, <2>5, <2>6, <2>7, <2>8, <2>9 DEF ReadyFor
<1> QED
  BY <1>0, <1>1, <1>2, <1>3 DEF ReadyFor, Closing

\* A request that ends has nothing to keep, and takes nothing from the others.
LEMMA Ends ==
  ASSUME TypeOK, Shape, Locked, Exclusive, Ready, NEW q \in Requests, NEW result,
         Finish(q, result), UNCHANGED <<op, started, seen, drawn>>,
         clock' \in Nat, clock' >= clock, VehiclesStay,
         \A p \in Requests \ {q} : Undisturbed(p)
  PROVE  Locked' /\ Exclusive' /\ Ready'
<1>1. /\ pc'[q] = "done" /\ holds'[q] = {}
      /\ \A p \in Requests \ {q} : pc'[p] = pc[p] /\ holds'[p] = holds[p]
  BY DEF Finish, TypeOK
<1>2. LockedBy(q)' /\ ReadyFor(q)'
  BY <1>1 DEF LockedBy, ReadyFor, Closing
<1>3. \A p \in Requests \ {q} : LockedBy(p)'
  BY <1>1, OthersLocked DEF Locked
<1>4. \A p \in Requests \ {q} : ReadyFor(p)'
  BY <1>1, OthersReady DEF Locked, Ready
<1>5. Exclusive'
  BY <1>1 DEF Exclusive
<1> QED
  BY <1>2, <1>3, <1>4, <1>5 DEF Locked, Ready

\* Where the tables stay, so does what they say and what the others have found.
LEMMA SameTables ==
  ASSUME UNCHANGED tables
  PROVE  /\ VehiclesStay /\ \A p \in Requests : Undisturbed(p)
         /\ Records => Records'
<1>1. /\ customers' = customers /\ owners' = owners /\ mileage' = mileage
      /\ consents' = consents /\ receptions' = receptions /\ orders' = orders
  BY DEF tables
<1>2. VehiclesStay
  BY <1>1 DEF VehiclesStay
<1>3. \A v \in Vehicles : OpenOn(v)' = OpenOn(v)
  BY <1>1 DEF OpenOn
<1>4. \A p \in Requests : Undisturbed(p)
  BY <1>1, <1>3 DEF Undisturbed
<1>5. OnlyOpen => OnlyOpen'
  BY <1>1 DEF OnlyOpen, IsOpen
<1>6. OrdersMatch => OrdersMatch'
  BY <1>1 DEF OrdersMatch, IsClosed, Numbers
<1>7. Mileage => Mileage'
  BY <1>1 DEF Mileage, IsOpen, IsClosed, Below
<1>8. OwnersInSequence => OwnersInSequence'
  BY <1>1 DEF OwnersInSequence
<1>9. DocumentPairs => DocumentPairs'
  BY <1>1 DEF DocumentPairs
<1> QED
  BY <1>2, <1>4, <1>5, <1>6, <1>7, <1>8, <1>9 DEF Records

\* No reception loses a version.
VersionsRise == \A r \in Requests : receptions[r] # None =>
                  receptions'[r] # None /\ receptions'[r].version >= receptions[r].version

\* An answer that is no success of an edit.
LEMMA EndsAnswers ==
  ASSUME TypeOK, Answers, NEW q \in Requests, pc[q] # "new", NEW result, Finish(q, result),
         UNCHANGED <<op, started, seen>>, result \notin {"integrity", "number_taken"},
         result = "ok" => op[q].op \notin {"patch", "inspect"},
         Born', clock' \in Nat, clock' >= clock,
         \A v \in Vehicles : \A i \in DOMAIN owners'[v] : owners'[v][i].from < clock',
         VersionsRise, TypeOK'
  PROVE  Answers'
<1>1. /\ pc'[q] = "done" /\ outcome'[q] = result
      /\ \A p \in Requests \ {q} : pc'[p] = pc[p] /\ outcome'[p] = outcome[p]
  BY DEF Finish, TypeOK
<1>2. Clocked'
  <2>1. \A p \in Requests : (pc'[p] # "new") = (pc[p] # "new") /\ started[p] \in Nat
    BY <1>1 DEF TypeOK
  <2>2. clock \in Nat
    BY DEF TypeOK
  <2> QED
    BY <2>1, <2>2 DEF Answers, Clocked
<1>3. EditsShow'
  <2> SUFFICES ASSUME NEW p \in Requests
               PROVE  /\ outcome'[p] # "none" => pc'[p] = "done"
                      /\ outcome'[p] = "ok" /\ op[p].op \in {"patch", "inspect"} =>
                           /\ receptions'[op[p].reception] # None
                           /\ seen[p] < receptions'[op[p].reception].version
    BY DEF EditsShow
  <2>1. outcome'[p] # "none" => pc'[p] = "done"
    BY <1>1 DEF Answers, EditsShow
  <2>2. ASSUME outcome'[p] = "ok", op[p].op \in {"patch", "inspect"}
        PROVE  /\ receptions'[op[p].reception] # None
               /\ seen[p] < receptions'[op[p].reception].version
    <3> DEFINE r == op[p].reception
    <3>1. p # q /\ outcome[p] = "ok" /\ r \in Requests
      BY <1>1, <2>2, OperationFields DEF TypeOK
    <3>2. receptions[r] # None /\ seen[p] < receptions[r].version
      BY <2>2, <3>1 DEF Answers, EditsShow
    <3>3. receptions'[r] # None /\ receptions'[r].version >= receptions[r].version
      BY <3>1, <3>2 DEF VersionsRise
    <3>4. receptions[r].version \in Nat /\ receptions'[r].version \in Nat /\ seen[p] \in Nat
      BY <3>1, <3>2, <3>3, RowFields DEF TypeOK
    <3> QED
      BY <3>2, <3>3, <3>4
  <2> QED
    BY <2>1, <2>2
<1>4. NoInternalError'
  BY <1>1 DEF Answers, NoInternalError
<1>5. NoLostUpdate'
  BY <1>1 DEF Answers, NoLostUpdate
<1> QED
  BY <1>2, <1>3, <1>4, <1>5 DEF Answers

\* A request that ends with its answer alone.
LEMMA AnswerKeeps ==
  ASSUME IInv, NEW q \in Requests, pc[q] # "new",
         NEW result \in {"ok", "unchanged", "replayed", "refused", "version_conflict"},
         result = "ok" => op[q].op = "read", Answer(q, result)
  PROVE  IInv'
<1>1. TypeOK' /\ Shape'
  BY AnswerTypes DEF IInv
<1>2. /\ op' = op /\ started' = started /\ seen' = seen /\ drawn' = drawn /\ clock' = clock
      /\ UNCHANGED tables /\ Finish(q, result)
  BY DEF Answer
<1>3. clock' \in Nat /\ clock' >= clock
  BY <1>2 DEF IInv, TypeOK
<1>4. VehiclesStay /\ (\A p \in Requests : Undisturbed(p)) /\ Records'
  BY <1>2, SameTables DEF IInv
<1>5. Locked' /\ Exclusive' /\ Ready'
  BY <1>2, <1>3, <1>4, Ends DEF IInv
<1>6. Born'
  BY <1>2 DEF IInv, TypeOK, Answers, Born, Finish, tables
<1>7. VersionsRise
  BY <1>2, RowFields DEF VersionsRise, IInv, TypeOK, tables
<1>8. \A v \in Vehicles : \A i \in DOMAIN owners'[v] : owners'[v][i].from < clock'
  BY <1>2 DEF IInv, Answers, Clocked, tables
<1>9. Answers'
  BY <1>1, <1>2, <1>3, <1>6, <1>7, <1>8, EndsAnswers DEF IInv
<1> QED
  BY <1>1, <1>4, <1>5, <1>9 DEF IInv

\* A request that goes one step further, with the tables as they are.
LEMMA Continues ==
  ASSUME IInv, NEW q \in Requests, pc[q] \notin {"new", "done"}, NEW rows, NEW next,
         next \notin {"new", "done"}, pc' = [pc EXCEPT ![q] = next],
         holds' = [holds EXCEPT ![q] = @ \cup rows],
         \A row \in rows : Free(row, q) \/ row[1] = "consent",
         UNCHANGED <<op, started, seen, outcome, tables>>,
         clock' \in Nat, clock' >= clock, \A p \in Requests \ {q} : drawn'[p] = drawn[p],
         TypeOK', Shape', LockedBy(q)', ReadyFor(q)'
  PROVE  IInv'
<1>1. /\ pc'[q] = next /\ holds'[q] = holds[q] \cup rows
      /\ \A p \in Requests \ {q} : pc'[p] = pc[p] /\ holds'[p] = holds[p]
  BY DEF IInv, TypeOK
<1>2. VehiclesStay /\ (\A p \in Requests : Undisturbed(p)) /\ Records'
  BY SameTables DEF IInv
<1>3. \A p \in Requests \ {q} : LockedBy(p)'
  BY <1>1, <1>2, OthersLocked DEF IInv, Locked
<1>4. \A p \in Requests \ {q} : ReadyFor(p)'
  BY <1>1, <1>2, OthersReady DEF IInv, Locked, Ready
<1>5. Locked' /\ Ready'
  BY <1>3, <1>4 DEF Locked, Ready
<1>6. Exclusive'
  BY <1>1 DEF IInv, Exclusive, Free
<1>7. Answers'
  <2>1. Born'
    BY <1>1 DEF IInv, Answers, Born, tables
  <2>2. Clocked'
    <3>1. \A p \in Requests : (pc'[p] # "new") = (pc[p] # "new") /\ started[p] \in Nat
      BY <1>1 DEF IInv, TypeOK
    <3>2. \A v \in Vehicles : \A i \in DOMAIN owners'[v] : owners'[v][i].from < clock'
      <4> SUFFICES ASSUME NEW v \in Vehicles, NEW i \in DOMAIN owners'[v]
                   PROVE  owners'[v][i].from < clock'
        OBVIOUS
      <4>1. owners' = owners /\ clock \in Nat
        BY DEF tables, IInv, TypeOK
      <4>2. owners[v] \in Seq(OwnerRow) /\ i \in DOMAIN owners[v]
        BY <4>1 DEF IInv, TypeOK
      <4>3. owners[v][i].from \in Nat
        BY <4>2, RowFields
      <4>4. owners[v][i].from < clock
        BY <4>2 DEF IInv, Answers, Clocked
      <4> QED
        BY <4>1, <4>3, <4>4
    <3>3. clock \in Nat
      BY DEF IInv, TypeOK
    <3> QED
      BY <3>1, <3>2, <3>3 DEF IInv, Answers, Clocked
  <2>3. EditsShow'
    BY <1>1 DEF IInv, Answers, EditsShow, tables
  <2>4. NoInternalError' /\ NoLostUpdate'
    BY DEF IInv, Answers, NoInternalError, NoLostUpdate
  <2> QED
    BY <2>1, <2>2, <2>3, <2>4 DEF Answers
<1> QED
  BY <1>2, <1>5, <1>6, <1>7 DEF IInv

-----------------------------------------------------------------------------
(* The steps that begin a request, lock or look something up. *)

LEMMA BeginKeeps ==
  ASSUME IInv, NEW q \in Requests, Begin(q)
  PROVE  IInv'
<1>1. TypeOK' /\ Shape'
  BY BeginTypes DEF IInv
<1>2. /\ pc[q] = "new" /\ pc'[q] = "open" /\ started'[q] = clock
      /\ \A p \in Requests \ {q} : /\ pc'[p] = pc[p] /\ started'[p] = started[p]
                                   /\ seen'[p] = seen[p]
      /\ clock' = clock + 1 /\ clock \in Nat
      /\ op' = op /\ drawn' = drawn /\ holds' = holds /\ outcome' = outcome /\ UNCHANGED tables
  BY DEF Begin, IInv, TypeOK
<1>3. VehiclesStay /\ (\A p \in Requests : Undisturbed(p)) /\ Records'
  BY <1>2, SameTables DEF IInv
<1>4. LockedBy(q)' /\ ReadyFor(q)'
  BY <1>2 DEF LockedBy, ReadyFor, Closing
<1>5. \A p \in Requests \ {q} : LockedBy(p)'
  BY <1>2, <1>3, OthersLocked DEF IInv, Locked
<1>6. \A p \in Requests \ {q} : ReadyFor(p)'
  BY <1>2, <1>3, OthersReady DEF IInv, Locked, Ready
<1>7. Exclusive'
  BY <1>2 DEF IInv, Exclusive
<1>8. Born'
  BY <1>2 DEF IInv, Answers, Born, tables
<1>9. Clocked'
  <2>1. \A p \in Requests : started[p] \in Nat
    BY DEF IInv, TypeOK
  <2>2. \A p \in Requests : pc'[p] # "new" =>
          /\ started'[p] < clock'
          /\ \A r \in Requests : r # p /\ pc'[r] # "new" => started'[r] # started'[p]
    BY <1>2, <2>1 DEF IInv, Answers, Clocked
  <2>3. \A v \in Vehicles : \A i \in DOMAIN owners'[v] : owners'[v][i].from < clock'
    <3> SUFFICES ASSUME NEW v \in Vehicles, NEW i \in DOMAIN owners'[v]
                 PROVE  owners'[v][i].from < clock'
      OBVIOUS
    <3>1. owners' = owners
      BY <1>2 DEF tables
    <3>2. owners[v] \in Seq(OwnerRow) /\ i \in DOMAIN owners[v]
      BY <3>1 DEF IInv, TypeOK
    <3>3. owners[v][i].from \in Nat
      BY <3>2, RowFields
    <3>4. owners[v][i].from < clock
      BY <3>2 DEF IInv, Answers, Clocked
    <3> QED
      BY <1>2, <3>1, <3>3, <3>4
  <2> QED
    BY <2>2, <2>3 DEF Clocked
<1>10. EditsShow' /\ NoInternalError' /\ NoLostUpdate'
  <2>1. outcome[q] = "none"
    BY <1>2 DEF IInv, Answers, EditsShow, TypeOK
  <2>2. EditsShow'
    BY <1>2, <2>1 DEF IInv, Answers, EditsShow, tables
  <2>3. NoInternalError'
    BY <1>2 DEF IInv, Answers, NoInternalError
  <2>4. NoLostUpdate'
    BY <1>2, <2>1 DEF IInv, Answers, NoLostUpdate
  <2> QED
    BY <2>2, <2>3, <2>4
<1> QED
  BY <1>1, <1>3, <1>4, <1>5, <1>6, <1>7, <1>8, <1>9, <1>10 DEF IInv, Locked, Ready, Answers

LEMMA TransferLockKeeps ==
  ASSUME IInv, NEW q \in Requests, TransferLock(q)
  PROVE  IInv'
<1> DEFINE o == op[q]
           row == <<"vehicle", o.vehicle>>
<1>1. pc[q] = "open" /\ o.op = "transfer" /\ o \in Operations
  BY DEF TransferLock, Doing, IInv, TypeOK
<1>2. CASE \E result \in {"unchanged", "version_conflict"} : Answer(q, result)
  BY <1>1, <1>2, AnswerKeeps
<1>3. CASE /\ Take(q, row, "commit") /\ Free(row, q)
           /\ CurrentOwner(o.vehicle) # o.customer /\ Len(owners[o.vehicle]) = seen[q]
           /\ drawn' = [drawn EXCEPT ![q] = clock] /\ clock' = clock + 1
           /\ UNCHANGED <<op, started, seen, outcome, tables>>
  <2>1. TypeOK' /\ Shape'
    BY TransferLockTypes DEF IInv
  <2>2. /\ clock \in Nat /\ clock' \in Nat /\ clock' >= clock
        /\ drawn'[q] = clock /\ pc'[q] = "commit" /\ row \in holds'[q] /\ owners' = owners
        /\ \A p \in Requests \ {q} : drawn'[p] = drawn[p]
    BY <1>3 DEF IInv, TypeOK, Take, tables
  <2>3. o.vehicle \in Vehicles /\ owners[o.vehicle] \in Seq(OwnerRow) /\ owners[o.vehicle] # <<>>
    BY <1>1, OperationFields, Targets DEF IInv
  <2>4. owners[o.vehicle][Len(owners[o.vehicle])].from < clock
    <3>1. Len(owners[o.vehicle]) \in DOMAIN owners[o.vehicle]
      BY <2>3
    <3> QED
      BY <2>3, <3>1 DEF IInv, Answers, Clocked
  <2>5. LockedBy(q)'
    BY <1>1, <1>3, <2>2 DEF LockedBy, Closing
  <2>6. ReadyFor(q)'
    <3>1. drawn'[q] < clock' /\ drawn'[q] > owners'[o.vehicle][Len(owners'[o.vehicle])].from
      <4>1. owners[o.vehicle][Len(owners[o.vehicle])].from \in Nat
        BY <2>3, RowFields
      <4> QED
        BY <1>3, <2>2, <2>4, <4>1
    <3>2. (CurrentOwner(o.vehicle) # o.customer /\ Len(owners[o.vehicle]) = seen[q])'
      BY <1>1, <1>3, <2>2 DEF CurrentOwner
    <3> QED
      BY <1>1, <1>3, <2>2, <3>1, <3>2 DEF ReadyFor, Closing
  <2> DEFINE rows == {row}
  <2>7. /\ pc' = [pc EXCEPT ![q] = "commit"] /\ holds' = [holds EXCEPT ![q] = @ \cup rows]
        /\ \A x \in rows : Free(x, q) \/ x[1] = "consent"
    BY <1>3 DEF Take
  <2>8. pc[q] \notin {"new", "done"} /\ UNCHANGED <<op, started, seen, outcome, tables>>
    BY <1>1, <1>3
  <2> HIDE DEF rows
  <2> QED
    BY <2>1, <2>2, <2>5, <2>6, <2>7, <2>8, Continues
<1> QED
  BY <1>2, <1>3 DEF TransferLock

\* A step that takes a lock, all else unchanged.
LEMMA LocksOn ==
  ASSUME IInv, NEW q \in Requests, pc[q] \notin {"new", "done"}, NEW row, NEW next,
         next \notin {"new", "done"}, Take(q, row, next), Free(row, q) \/ row[1] = "consent",
         UNCHANGED <<clock, op, started, seen, drawn, outcome, tables>>,
         TypeOK', Shape', LockedBy(q)', ReadyFor(q)'
  PROVE  IInv'
<1> DEFINE rows == {row}
<1>1. /\ pc' = [pc EXCEPT ![q] = next] /\ holds' = [holds EXCEPT ![q] = @ \cup rows]
      /\ \A x \in rows : Free(x, q) \/ x[1] = "consent"
      /\ clock' \in Nat /\ clock' >= clock /\ \A p \in Requests \ {q} : drawn'[p] = drawn[p]
      /\ UNCHANGED <<op, started, seen, outcome, tables>>
  BY DEF Take, IInv, TypeOK
<1> HIDE DEF rows
<1> QED
  BY <1>1, Continues

LEMMA CreateLockKeeps ==
  ASSUME IInv, NEW q \in Requests, CreateLock(q)
  PROVE  IInv'
<1> DEFINE o == op[q]
<1>1. pc[q] = "open" /\ o.op = "create"
  BY DEF CreateLock, Doing
<1>2. CASE Answer(q, "refused")
  BY <1>1, <1>2, AnswerKeeps
<1>3. CASE /\ CurrentOwner(o.vehicle) = o.customer /\ Free(<<"vehicle", o.vehicle>>, q)
           /\ Take(q, <<"vehicle", o.vehicle>>, "consent")
           /\ UNCHANGED <<clock, op, started, seen, drawn, outcome, tables>>
  <2>1. TypeOK' /\ Shape'
    BY CreateStepTypes DEF IInv
  <2>2. pc'[q] = "consent" /\ <<"vehicle", o.vehicle>> \in holds'[q] /\ op' = op /\ owners' = owners
    BY <1>3 DEF Take, IInv, TypeOK, tables
  <2>3. LockedBy(q)'
    BY <1>1, <2>2 DEF LockedBy, Closing
  <2>4. ReadyFor(q)'
    BY <1>1, <1>3, <2>2 DEF ReadyFor, Closing, CurrentOwner
  <2> QED
    BY <1>1, <1>3, <2>1, <2>3, <2>4, LocksOn
<1> QED
  BY <1>2, <1>3 DEF CreateLock

LEMMA CreateConsentKeeps ==
  ASSUME IInv, NEW q \in Requests, CreateConsent(q)
  PROVE  IInv'
<1> DEFINE o == op[q]
           row == <<"consent", o.consent>>
<1>1. pc[q] = "consent" /\ o.op = "create"
  BY DEF CreateConsent, Doing
<1>2. CASE Answer(q, "refused")
  BY <1>1, <1>2, AnswerKeeps
<1>3. CASE /\ Eligible(o.consent, o.customer, q) /\ Take(q, row, "insert")
           /\ UNCHANGED <<clock, op, started, seen, drawn, outcome, tables>>
  <2>1. TypeOK' /\ Shape'
    BY CreateStepTypes DEF IInv
  <2>2. /\ pc'[q] = "insert" /\ row \in holds'[q] /\ holds[q] \subseteq holds'[q] /\ op' = op
        /\ owners' = owners /\ consents' = consents /\ started' = started
    BY <1>3 DEF Take, IInv, TypeOK, tables
  <2>3. LockedBy(q)'
    BY <1>1, <2>2 DEF LockedBy, Closing, IInv, Locked
  <2>4. ReadyFor(q)'
    <3>1. CurrentOwner(o.vehicle)' = o.customer
      BY <1>1, <2>2 DEF IInv, Ready, ReadyFor, CurrentOwner
    <3>2. Eligible(o.consent, o.customer, q)'
      BY <1>3, <2>2 DEF Eligible, GrantedFor
    <3> QED
      BY <1>1, <2>2, <3>1, <3>2 DEF ReadyFor, Closing
  <2>5. row[1] = "consent"
    OBVIOUS
  <2> QED
    BY <1>1, <1>3, <2>1, <2>3, <2>4, <2>5, LocksOn
<1> QED
  BY <1>2, <1>3 DEF CreateConsent

LEMMA CreateInsertKeeps ==
  ASSUME IInv, NEW q \in Requests, CreateInsert(q)
  PROVE  IInv'
<1> DEFINE o == op[q]
<1>1. pc[q] = "insert" /\ o.op = "create"
  BY DEF CreateInsert, Doing
<1>2. CASE Answer(q, "refused")
  BY <1>1, <1>2, AnswerKeeps
<1>3. CASE /\ Accepted(q) /\ pc' = [pc EXCEPT ![q] = "commit"]
           /\ UNCHANGED <<clock, op, started, seen, drawn, holds, outcome, tables>>
  <2>1. TypeOK' /\ Shape'
    BY CreateStepTypes DEF IInv
  <2>2. /\ pc'[q] = "commit" /\ holds' = holds /\ op' = op /\ owners' = owners
        /\ consents' = consents /\ started' = started /\ mileage' = mileage
        /\ receptions' = receptions
    BY <1>3 DEF IInv, TypeOK, tables
  <2>3. LockedBy(q)'
    BY <1>1, <2>2 DEF LockedBy, Closing, IInv, Locked
  <2>4. ReadyFor(q)'
    <3>1. Accepted(q)' = Accepted(q)
      BY <2>2 DEF Accepted, CurrentOwner, Eligible, GrantedFor, Below, OpenOn
    <3> QED
      BY <1>1, <1>3, <2>2, <3>1 DEF ReadyFor, Closing, Accepted
  <2> DEFINE rows == {}
  <2>5. /\ holds' = [holds EXCEPT ![q] = @ \cup rows] /\ clock' \in Nat /\ clock' >= clock
        /\ \A p \in Requests \ {q} : drawn'[p] = drawn[p]
        /\ \A x \in rows : Free(x, q) \/ x[1] = "consent"
    BY <1>3 DEF IInv, TypeOK
  <2>6. pc[q] \notin {"new", "done"} /\ UNCHANGED <<op, started, seen, outcome, tables>>
    BY <1>1, <1>3
  <2> HIDE DEF rows
  <2> QED
    BY <1>3, <2>1, <2>3, <2>4, <2>5, <2>6, Continues
<1> QED
  BY <1>2, <1>3 DEF CreateInsert

LEMMA EditLockKeeps ==
  ASSUME IInv, NEW q \in Requests, EditLock(q)
  PROVE  IInv'
<1> DEFINE o == op[q]
           row == <<"reception", o.reception>>
<1>1. pc[q] = "open" /\ o.op \in {"patch", "inspect"}
  BY DEF EditLock
<1>2. CASE \E result \in {"refused", "unchanged", "version_conflict"} : Answer(q, result)
  BY <1>1, <1>2, AnswerKeeps
<1>3. CASE /\ Editable(q, receptions[o.reception]) /\ Take(q, row, "write") /\ Free(row, q)
           /\ o.op = "patch" => o.mileage # receptions[o.reception].mileage
           /\ UNCHANGED <<clock, op, started, seen, drawn, outcome, tables>>
  <2>1. TypeOK' /\ Shape'
    BY EditLockTypes DEF IInv
  <2>2. /\ pc'[q] = "write" /\ row \in holds'[q] /\ op' = op /\ receptions' = receptions
        /\ seen' = seen
    BY <1>3 DEF Take, IInv, TypeOK, tables
  <2>3. LockedBy(q)'
    BY <1>1, <2>2 DEF LockedBy, Closing
  <2>4. ReadyFor(q)'
    BY <1>1, <1>3, <2>2 DEF ReadyFor, Closing, Editable
  <2> QED
    BY <1>1, <1>3, <2>1, <2>3, <2>4, LocksOn
<1> QED
  BY <1>2, <1>3 DEF EditLock

\* A closed reception has one order, an open one none.
LEMMA OrdersOf ==
  ASSUME OrdersMatch, NEW r \in Requests
  PROVE  /\ IsClosed(r) => OrderOf(r) # {} /\ Cardinality(OrderOf(r)) = 1
         /\ IsOpen(r) => OrderOf(r) = {} /\ Cardinality(OrderOf(r)) = 0
<1>1. ASSUME IsClosed(r) PROVE OrderOf(r) # {} /\ Cardinality(OrderOf(r)) = 1
  <2>1. PICK x \in orders : x.reception = r
    BY <1>1 DEF OrdersMatch
  <2>2. OrderOf(r) = {x}
    BY <2>1 DEF OrdersMatch, OrderOf
  <2> QED
    BY <2>2, FS_Singleton
<1>2. ASSUME IsOpen(r) PROVE OrderOf(r) = {} /\ Cardinality(OrderOf(r)) = 0
  <2>1. OrderOf(r) = {}
    BY <1>2 DEF OrdersMatch, OrderOf, IsClosed, IsOpen
  <2> QED
    BY <2>1, FS_EmptySet
<1> QED
  BY <1>1, <1>2

LEMMA CloseLockKeeps ==
  ASSUME IInv, NEW q \in Requests, CloseLock(q)
  PROVE  IInv'
<1> DEFINE r == op[q].reception
           row == <<"reception", r>>
<1>1. pc[q] = "open" /\ op[q].op = "close" /\ op[q] \in Operations
  BY DEF CloseLock, Doing, IInv, TypeOK
<1>2. r \in Requests /\ receptions[r] # None
  BY <1>1, OperationFields, Targets, NoneAssumption DEF IInv
<1>3. CASE receptions[r].status = "closed" /\ Answer(q, IF OrderOf(r) = {} THEN "integrity" ELSE "replayed")
  <2>1. OrderOf(r) # {}
    BY <1>2, <1>3, OrdersOf DEF IInv, Records, IsClosed
  <2>2. Answer(q, "replayed")
    BY <1>3, <2>1
  <2> QED
    BY <1>1, <2>2, AnswerKeeps
<1>4. CASE /\ receptions[r].status = "open" /\ Take(q, row, "vehicle") /\ Free(row, q)
           /\ UNCHANGED <<clock, op, started, seen, drawn, outcome, tables>>
  <2>1. TypeOK' /\ Shape'
    BY CloseStepTypes DEF IInv
  <2>2. pc'[q] = "vehicle" /\ row \in holds'[q] /\ op' = op /\ receptions' = receptions
    BY <1>4 DEF Take, IInv, TypeOK, tables
  <2>3. LockedBy(q)'
    BY <1>1, <2>2 DEF LockedBy, Closing
  <2>4. ReadyFor(q)'
    BY <1>1, <1>4, <2>2 DEF ReadyFor, Closing
  <2> QED
    BY <1>1, <1>4, <2>1, <2>3, <2>4, LocksOn
<1> QED
  BY <1>3, <1>4 DEF CloseLock

LEMMA CloseVehicleKeeps ==
  ASSUME IInv, NEW q \in Requests, CloseVehicle(q)
  PROVE  IInv'
<1> DEFINE r == op[q].reception
           v == receptions[r].vehicle
           row == <<"vehicle", v>>
<1>1. pc[q] = "vehicle" /\ op[q].op = "close" /\ Closing(q)
  BY DEF CloseVehicle, Doing, Closing
<1>2. CASE Answer(q, "refused")
  BY <1>1, <1>2, AnswerKeeps
<1>3. CASE /\ ~Below(receptions[r].mileage, v) /\ Take(q, row, "number") /\ Free(row, q)
           /\ UNCHANGED <<clock, op, started, seen, drawn, outcome, tables>>
  <2>1. TypeOK' /\ Shape'
    BY CloseStepTypes DEF IInv
  <2>2. /\ pc'[q] = "number" /\ row \in holds'[q] /\ holds[q] \subseteq holds'[q] /\ op' = op
        /\ receptions' = receptions /\ mileage' = mileage
    BY <1>3 DEF Take, IInv, TypeOK, tables
  <2>3. LockedBy(q)'
    <3>1. <<"reception", r>> \in holds[q]
      BY <1>1 DEF IInv, Locked, LockedBy
    <3> QED
      BY <1>1, <2>2, <3>1 DEF LockedBy, Closing
  <2>4. ReadyFor(q)'
    <3>1. receptions[r].status = "open"
      BY <1>1 DEF IInv, Ready, ReadyFor
    <3>2. ~Below(receptions[r].mileage, v)'
      BY <1>3, <2>2 DEF Below
    <3> QED
      BY <1>1, <2>2, <3>1, <3>2 DEF ReadyFor, Closing
  <2> QED
    BY <1>1, <1>3, <2>1, <2>3, <2>4, LocksOn
<1> QED
  BY <1>2, <1>3 DEF CloseVehicle

LEMMA CloseNumberKeeps ==
  ASSUME IInv, NEW q \in Requests, CloseNumber(q)
  PROVE  IInv'
<1> DEFINE r == op[q].reception
           row == <<"number", None>>
<1>1. /\ pc[q] = "number" /\ op[q].op = "close" /\ Closing(q)
      /\ Take(q, row, "order") /\ Free(row, q)
      /\ UNCHANGED <<clock, op, started, seen, drawn, outcome, tables>>
  BY DEF CloseNumber, Doing, Closing
<1>2. TypeOK' /\ Shape'
  BY CloseStepTypes DEF IInv
<1>3. /\ pc'[q] = "order" /\ row \in holds'[q] /\ holds[q] \subseteq holds'[q] /\ op' = op
      /\ receptions' = receptions /\ mileage' = mileage
  BY <1>1 DEF Take, IInv, TypeOK, tables
<1>4. LockedBy(q)'
  <2>1. <<"reception", r>> \in holds[q] /\ <<"vehicle", receptions[r].vehicle>> \in holds[q]
    BY <1>1 DEF IInv, Locked, LockedBy
  <2> QED
    BY <1>1, <1>3, <2>1 DEF LockedBy, Closing
<1>5. ReadyFor(q)'
  <2>1. receptions[r].status = "open" /\ ~Below(receptions[r].mileage, receptions[r].vehicle)
    BY <1>1 DEF IInv, Ready, ReadyFor
  <2>2. ~Below(receptions[r].mileage, receptions[r].vehicle)'
    BY <1>3, <2>1 DEF Below
  <2> QED
    BY <1>1, <1>3, <2>1, <2>2 DEF ReadyFor, Closing
<1> QED
  BY <1>1, <1>2, <1>4, <1>5, LocksOn

LEMMA CloseOrderKeeps ==
  ASSUME IInv, NEW q \in Requests, CloseOrder(q)
  PROVE  IInv'
<1> DEFINE r == op[q].reception
           rows == {}
<1>1. /\ pc[q] = "order" /\ op[q].op = "close" /\ Closing(q)
      /\ drawn' = [drawn EXCEPT ![q] = NextNumber] /\ pc' = [pc EXCEPT ![q] = "commit"]
      /\ UNCHANGED <<op, started, seen, outcome, tables>> /\ clock' = clock /\ holds' = holds
  BY DEF CloseOrder, Doing, Closing
<1>2. Numbered
  BY DEF IInv, Records, OrdersMatch, Numbered
<1>3. TypeOK' /\ Shape'
  BY <1>2, CloseOrderTypes DEF IInv
<1>4. /\ pc'[q] = "commit" /\ op' = op /\ orders' = orders
      /\ receptions' = receptions /\ mileage' = mileage /\ drawn'[q] = Cardinality(orders) + 1
      /\ \A p \in Requests \ {q} : drawn'[p] = drawn[p]
  BY <1>1, <1>2, NextIsNumber DEF IInv, TypeOK, tables
<1>5. LockedBy(q)'
  <2>1. /\ <<"reception", r>> \in holds[q] /\ <<"vehicle", receptions[r].vehicle>> \in holds[q]
        /\ <<"number", None>> \in holds[q]
    BY <1>1 DEF IInv, Locked, LockedBy
  <2> QED
    BY <1>1, <1>4, <2>1 DEF LockedBy, Closing
<1>6. ReadyFor(q)'
  <2>1. receptions[r].status = "open" /\ ~Below(receptions[r].mileage, receptions[r].vehicle)
    BY <1>1 DEF IInv, Ready, ReadyFor
  <2>2. ~Below(receptions[r].mileage, receptions[r].vehicle)'
    BY <1>4, <2>1 DEF Below
  <2>3. drawn'[q] = Cardinality(orders') + 1
    BY <1>4
  <2> QED
    BY <1>1, <1>4, <2>1, <2>2, <2>3 DEF ReadyFor, Closing
<1>7. /\ holds' = [holds EXCEPT ![q] = @ \cup rows] /\ clock' \in Nat /\ clock' >= clock
      /\ \A x \in rows : Free(x, q) \/ x[1] = "consent"
  BY <1>1 DEF IInv, TypeOK
<1> HIDE DEF rows
<1> QED
  BY <1>1, <1>3, <1>4, <1>5, <1>6, <1>7, Continues

LEMMA ReadKeeps ==
  ASSUME IInv, NEW q \in Requests, ReadReception(q)
  PROVE  IInv'
<1> DEFINE r == op[q].reception
<1>1. pc[q] = "open" /\ op[q].op = "read" /\ op[q] \in Operations
  BY DEF ReadReception, Doing, IInv, TypeOK
<1>2. r \in Requests /\ receptions[r] \in ReceptionRow /\ receptions[r] # None
  BY <1>1, OperationFields, Targets, NoneAssumption DEF IInv
<1>3. Cardinality(OrderOf(r)) = IF receptions[r].status = "closed" THEN 1 ELSE 0
  BY <1>2, OrdersOf, RowFields DEF IInv, Records, IsClosed, IsOpen
<1>4. Answer(q, "ok")
  BY <1>3 DEF ReadReception
<1> QED
  BY <1>1, <1>4, AnswerKeeps

-----------------------------------------------------------------------------
(* The steps that write the tables. *)

\* The tables of the receptions are as they were.
LEMMA SameReceptions ==
  ASSUME UNCHANGED <<mileage, receptions, orders>>
  PROVE  /\ VehiclesStay
         /\ \A v \in Vehicles : OpenOn(v)' = OpenOn(v)
         /\ OnlyOpen /\ OrdersMatch /\ Mileage => OnlyOpen' /\ OrdersMatch' /\ Mileage'
<1>1. mileage' = mileage /\ receptions' = receptions /\ orders' = orders
  OBVIOUS
<1>2. OnlyOpen => OnlyOpen'
  BY <1>1 DEF OnlyOpen, IsOpen
<1>3. OrdersMatch => OrdersMatch'
  BY <1>1 DEF OrdersMatch, IsClosed, Numbers
<1>4. Mileage => Mileage'
  BY <1>1 DEF Mileage, IsOpen, IsClosed, Below
<1> QED
  BY <1>1, <1>2, <1>3, <1>4 DEF VehiclesStay, OpenOn

LEMMA SameVersions ==
  ASSUME TypeOK, UNCHANGED receptions
  PROVE  VersionsRise
BY RowFields DEF VersionsRise, TypeOK

\* The instants of the ownerships, where these stay.
LEMMA SameOwners ==
  ASSUME TypeOK, Clocked, owners' = owners, clock' \in Nat, clock' >= clock
  PROVE  \A v \in Vehicles : \A i \in DOMAIN owners'[v] : owners'[v][i].from < clock'
<1> SUFFICES ASSUME NEW v \in Vehicles, NEW i \in DOMAIN owners[v]
             PROVE  owners[v][i].from < clock'
  OBVIOUS
<1>1. owners[v] \in Seq(OwnerRow) /\ clock \in Nat
  BY DEF TypeOK
<1>2. owners[v][i].from \in Nat
  BY <1>1, RowFields
<1>3. owners[v][i].from < clock
  BY DEF Clocked
<1> QED
  BY <1>1, <1>2, <1>3

LEMMA EditCustomerKeeps ==
  ASSUME IInv, NEW q \in Requests, EditCustomer(q)
  PROVE  IInv'
<1> DEFINE o == op[q]
           row == customers[o.customer]
           new == [docType |-> Edited(row.docType, o.docType),
                   docNumber |-> Edited(row.docNumber, o.docNumber), version |-> row.version + 1]
<1>1. pc[q] = "open" /\ o.op = "edit" /\ o \in Operations
  BY DEF EditCustomer, Doing, IInv, TypeOK
<1>2. CASE \E result \in {"unchanged", "refused", "version_conflict"} : Answer(q, result)
  BY <1>1, <1>2, AnswerKeeps
<1>3. CASE /\ PairIsValid(o, row) /\ customers' = [customers EXCEPT ![o.customer] = new]
           /\ Finish(q, "ok")
           /\ UNCHANGED <<clock, op, started, seen, drawn, owners, mileage,
                          consents, receptions, orders>>
  <2>1. TypeOK' /\ Shape'
    BY EditCustomerTypes DEF IInv
  <2>2. VehiclesStay /\ OnlyOpen' /\ OrdersMatch' /\ Mileage' /\ \A v \in Vehicles : OpenOn(v)' = OpenOn(v)
    BY <1>3, SameReceptions DEF IInv, Records
  <2>3. \A p \in Requests : Undisturbed(p)
    BY <1>3, <2>2 DEF Undisturbed
  <2>4. clock' \in Nat /\ clock' >= clock
    BY <1>3 DEF IInv, TypeOK
  <2>5. Locked' /\ Exclusive' /\ Ready'
    BY <1>3, <2>2, <2>3, <2>4, Ends DEF IInv
  <2>6. OwnersInSequence'
    BY <1>3 DEF IInv, Records, OwnersInSequence
  <2>7. DocumentPairs'
    <3>1. new.docType = new.docNumber
      BY <1>3 DEF PairIsValid
    <3>2. o.customer \in Customers
      BY <1>1, OperationFields
    <3> HIDE DEF new
    <3> QED
      BY <1>3, <3>1, <3>2 DEF IInv, TypeOK, Records, DocumentPairs
  <2>8. Born'
    BY <1>3 DEF IInv, TypeOK, Answers, Born, Finish
  <2>9. VersionsRise
    BY <1>3, SameVersions DEF IInv
  <2>10. \A v \in Vehicles : \A i \in DOMAIN owners'[v] : owners'[v][i].from < clock'
    BY <1>3, <2>4, SameOwners DEF IInv, Answers
  <2>11. Answers'
    BY <1>1, <1>3, <2>1, <2>4, <2>8, <2>9, <2>10, EndsAnswers DEF IInv
  <2> QED
    BY <2>1, <2>2, <2>5, <2>6, <2>7, <2>11 DEF IInv, Records
<1> QED
  BY <1>2, <1>3 DEF EditCustomer

LEMMA CreateVehicleKeeps ==
  ASSUME IInv, NEW q \in Requests, CreateVehicle(q)
  PROVE  IInv'
<1> DEFINE o == op[q]
           first == [customer |-> o.customer, from |-> clock, to |-> 0]
<1>1. /\ pc[q] = "open" /\ o.op = "newVehicle" /\ o.vehicle \in Vehicles
      /\ clock \in Nat
  BY OperationFields DEF CreateVehicle, Doing, IInv, TypeOK
<1>2. CASE Answer(q, "refused")
  BY <1>1, <1>2, AnswerKeeps
<1>3. CASE /\ owners[o.vehicle] = <<>> /\ owners' = [owners EXCEPT ![o.vehicle] = <<first>>]
           /\ clock' = clock + 1 /\ Finish(q, "ok")
           /\ UNCHANGED <<op, started, seen, drawn, customers, mileage, consents,
                          receptions, orders>>
  <2>1. TypeOK' /\ Shape'
    BY CreateVehicleTypes DEF IInv
  <2>2. VehiclesStay /\ OnlyOpen' /\ OrdersMatch' /\ Mileage' /\ \A v \in Vehicles : OpenOn(v)' = OpenOn(v)
    BY <1>3, SameReceptions DEF IInv, Records
  <2>3. \A p \in Requests : Undisturbed(p)
    BY <1>1, <1>3, <2>2 DEF Undisturbed, IInv, TypeOK
  <2>4. Locked' /\ Exclusive' /\ Ready'
    BY <1>1, <1>3, <2>2, <2>3, Ends DEF IInv
  <2>5. OwnersInSequence'
    BY <1>1, <1>3 DEF IInv, TypeOK, Records, OwnersInSequence
  <2>6. DocumentPairs'
    BY <1>3 DEF IInv, Records, DocumentPairs
  <2>7. Born'
    BY <1>3 DEF IInv, TypeOK, Answers, Born, Finish
  <2>8. VersionsRise
    BY <1>3, SameVersions DEF IInv
  <2>9. \A v \in Vehicles : \A i \in DOMAIN owners'[v] : owners'[v][i].from < clock'
    <3> SUFFICES ASSUME NEW v \in Vehicles, NEW i \in DOMAIN owners'[v]
                 PROVE  owners'[v][i].from < clock'
      OBVIOUS
    <3>1. CASE v = o.vehicle
      BY <1>1, <1>3, <3>1 DEF IInv, TypeOK
    <3>2. CASE v # o.vehicle
      <4>1. owners'[v] = owners[v] /\ owners[v] \in Seq(OwnerRow)
        BY <1>3, <3>2 DEF IInv, TypeOK
      <4>2. owners[v][i].from \in Nat
        BY <4>1, RowFields
      <4>3. owners[v][i].from < clock
        BY <4>1 DEF IInv, Answers, Clocked
      <4> QED
        BY <1>1, <1>3, <4>1, <4>2, <4>3
    <3> QED
      BY <3>1, <3>2
  <2>10. clock' \in Nat /\ clock' >= clock
    BY <1>1, <1>3
  <2>11. Answers'
    BY <1>1, <1>3, <2>1, <2>7, <2>8, <2>9, <2>10, EndsAnswers DEF IInv
  <2> QED
    BY <2>1, <2>2, <2>4, <2>5, <2>6, <2>11 DEF IInv, Records
<1> QED
  BY <1>2, <1>3 DEF CreateVehicle

\* Under the lock of the vehicle the ownership that ends has lasted.
LEMMA TransferCommitKeeps ==
  ASSUME IInv, NEW q \in Requests, TransferCommit(q)
  PROVE  IInv'
<1> DEFINE o == op[q]
           v == o.vehicle
           s == owners[v]
           t == Owned(o, drawn[q])
<1>1. pc[q] = "commit" /\ o.op = "transfer" /\ o \in Operations
  BY DEF TransferCommit, Doing, IInv, TypeOK
<1>2. v \in Vehicles /\ s \in Seq(OwnerRow) /\ s # <<>> /\ drawn[q] \in Nat
  BY <1>1, OperationFields, Targets DEF IInv, TypeOK
<1>3. drawn[q] < clock /\ drawn[q] > s[Len(s)].from
  BY <1>1 DEF IInv, Ready, ReadyFor
<1>4. /\ owners' = [owners EXCEPT ![v] = t] /\ Finish(q, "ok")
      /\ UNCHANGED <<clock, op, started, seen, drawn, customers, mileage, consents,
                     receptions, orders>>
  BY <1>3 DEF TransferCommit
<1>5. /\ Len(s) \in Nat \ {0} /\ t \in Seq(OwnerRow) /\ Len(t) = Len(s) + 1
      /\ t[Len(s) + 1] = [customer |-> o.customer, from |-> drawn[q], to |-> 0]
      /\ t[Len(s)] = [s[Len(s)] EXCEPT !.to = drawn[q]]
      /\ \A i \in 1 .. Len(s) - 1 : t[i] = s[i]
  BY <1>1, <1>2, OwnedSequence DEF IInv
<1>6. owners'[v] = t /\ \A w \in Vehicles \ {v} : owners'[w] = owners[w]
  BY <1>2, <1>4 DEF IInv, TypeOK
<1>7. s[Len(s)] \in OwnerRow
  BY <1>2, <1>5
<1>8. /\ t[Len(s)].from = s[Len(s)].from /\ t[Len(s)].to = drawn[q]
      /\ t[Len(s) + 1].from = drawn[q] /\ t[Len(s) + 1].to = 0
  BY <1>5, <1>7 DEF OwnerRow
<1> HIDE DEF t, s
<1>9. TypeOK' /\ Shape'
  BY TransferCommitTypes DEF IInv
<1>10. VehiclesStay /\ OnlyOpen' /\ OrdersMatch' /\ Mileage' /\ \A w \in Vehicles : OpenOn(w)' = OpenOn(w)
  BY <1>4, SameReceptions DEF IInv, Records
<1>11. clock' \in Nat /\ clock' >= clock
  BY <1>4 DEF IInv, TypeOK
<1>12. \A p \in Requests \ {q} : Undisturbed(p)
  <2> SUFFICES ASSUME NEW p \in Requests \ {q} PROVE Undisturbed(p)
    OBVIOUS
  <2>1. <<"vehicle", v>> \in holds[q]
    BY <1>1 DEF IInv, Locked, LockedBy
  <2>2. <<"vehicle", v>> \notin holds[p]
    BY <2>1 DEF IInv, Exclusive
  <2> QED
    BY <1>4, <1>6, <1>10, <2>2 DEF Undisturbed
<1>13. Locked' /\ Exclusive' /\ Ready'
  BY <1>4, <1>10, <1>11, <1>12, Ends DEF IInv
<1>14. OwnersInSequence'
  <2> SUFFICES ASSUME NEW w \in Vehicles, NEW i \in DOMAIN owners'[w]
               PROVE  IF i = Len(owners'[w]) THEN owners'[w][i].to = 0
                      ELSE /\ owners'[w][i].from < owners'[w][i].to
                           /\ owners'[w][i].to = owners'[w][i + 1].from
    BY DEF OwnersInSequence
  <2>1. CASE w # v
    BY <1>6, <2>1 DEF IInv, Records, OwnersInSequence
  <2>2. CASE w = v
    <3>1. i \in 1 .. Len(s) + 1 /\ owners'[w] = t
      BY <1>5, <1>6, <2>2
    <3>2. CASE i = Len(s) + 1
      BY <1>5, <1>8, <3>1, <3>2
    <3>3. CASE i = Len(s)
      BY <1>3, <1>5, <1>8, <3>1, <3>3 DEF s
    <3>4. CASE i \in 1 .. Len(s) - 1
      <4>1. i \in DOMAIN s /\ i # Len(s) /\ i + 1 \in 1 .. Len(s)
        BY <1>2, <1>5, <3>4 DEF s
      <4>2. s[i].from < s[i].to /\ s[i].to = s[i + 1].from
        BY <1>2, <4>1 DEF IInv, Records, OwnersInSequence, s
      <4>3. t[i] = s[i] /\ t[i + 1].from = s[i + 1].from
        <5>1. CASE i + 1 = Len(s)
          BY <1>5, <1>8, <3>4, <5>1
        <5>2. CASE i + 1 # Len(s)
          BY <1>5, <3>4, <4>1, <5>2
        <5> QED
          BY <5>1, <5>2
      <4> QED
        BY <1>5, <3>1, <3>4, <4>2, <4>3
    <3> QED
      BY <1>5, <3>1, <3>2, <3>3, <3>4
  <2> QED
    BY <2>1, <2>2
<1>15. \A w \in Vehicles : \A i \in DOMAIN owners'[w] : owners'[w][i].from < clock'
  <2> SUFFICES ASSUME NEW w \in Vehicles, NEW i \in DOMAIN owners'[w]
               PROVE  owners'[w][i].from < clock'
    OBVIOUS
  <2>0. \A x \in Vehicles : \A j \in DOMAIN owners[x] : owners[x][j].from < clock
    BY DEF IInv, Answers, Clocked
  <2>1. CASE w # v
    BY <1>4, <1>6, <2>0, <2>1
  <2>2. CASE w = v
    <3>1. i \in 1 .. Len(s) + 1 /\ owners'[w] = t
      BY <1>5, <1>6, <2>2
    <3>2. CASE i = Len(s) + 1
      BY <1>3, <1>4, <1>8, <3>1, <3>2
    <3>3. CASE i \in 1 .. Len(s)
      <4>1. i \in DOMAIN s
        BY <1>2, <1>5, <3>3 DEF s
      <4>2. s[i].from < clock
        BY <1>2, <2>0, <4>1 DEF s
      <4>3. t[i].from = s[i].from
        <5>1. CASE i = Len(s)
          BY <1>8, <5>1
        <5>2. CASE i # Len(s)
          BY <1>5, <3>3, <5>2
        <5> QED
          BY <5>1, <5>2
      <4> QED
        BY <1>4, <3>1, <4>2, <4>3
    <3> QED
      BY <1>5, <3>1, <3>2, <3>3
  <2> QED
    BY <2>1, <2>2
<1>16. DocumentPairs'
  BY <1>4 DEF IInv, Records, DocumentPairs
<1>17. Born'
  BY <1>4 DEF IInv, TypeOK, Answers, Born, Finish
<1>18. VersionsRise
  BY <1>4, SameVersions DEF IInv
<1>19. Answers'
  BY <1>1, <1>4, <1>9, <1>11, <1>15, <1>17, <1>18, EndsAnswers DEF IInv
<1> QED
  BY <1>9, <1>10, <1>13, <1>14, <1>16, <1>19 DEF IInv, Records

LEMMA CaptureConsentKeeps ==
  ASSUME IInv, NEW q \in Requests, CaptureConsent(q)
  PROVE  IInv'
<1> DEFINE o == op[q]
           new == [customer |-> o.customer, purpose |-> o.purpose,
                   status |-> "granted", created |-> started[q]]
<1>1. pc[q] = "open" /\ o.op = "capture"
  BY DEF CaptureConsent, Doing
<1>2. CASE Answer(q, "refused")
  BY <1>1, <1>2, AnswerKeeps
<1>3. CASE /\ consents' = [consents EXCEPT ![q] = new] /\ Finish(q, "ok")
           /\ UNCHANGED <<clock, op, started, seen, drawn, customers, owners,
                          mileage, receptions, orders>>
  <2>0. new.created = started[q]
    OBVIOUS
  <2> HIDE DEF new
  <2>1. TypeOK' /\ Shape'
    BY CaptureConsentTypes DEF IInv
  <2>2. VehiclesStay /\ OnlyOpen' /\ OrdersMatch' /\ Mileage' /\ \A v \in Vehicles : OpenOn(v)' = OpenOn(v)
    BY <1>3, SameReceptions DEF IInv, Records
  <2>3. \A p \in Requests \ {q} : Undisturbed(p)
    <3>1. consents[q] = None
      BY <1>1 DEF IInv, Answers, Born
    <3> QED
      BY <1>3, <2>2, <3>1 DEF Undisturbed, IInv, TypeOK
  <2>4. clock' \in Nat /\ clock' >= clock
    BY <1>3 DEF IInv, TypeOK
  <2>5. Locked' /\ Exclusive' /\ Ready'
    BY <1>3, <2>2, <2>3, <2>4, Ends DEF IInv
  <2>6. OwnersInSequence' /\ DocumentPairs'
    BY <1>3 DEF IInv, Records, OwnersInSequence, DocumentPairs
  <2>7. Born'
    BY <1>1, <1>3, <2>0 DEF IInv, TypeOK, Answers, Born, Finish
  <2>8. VersionsRise
    BY <1>3, SameVersions DEF IInv
  <2>9. \A v \in Vehicles : \A i \in DOMAIN owners'[v] : owners'[v][i].from < clock'
    BY <1>3, <2>4, SameOwners DEF IInv, Answers
  <2>10. Answers'
    BY <1>1, <1>3, <2>1, <2>4, <2>7, <2>8, <2>9, EndsAnswers DEF IInv
  <2> QED
    BY <2>1, <2>2, <2>5, <2>6, <2>10 DEF IInv, Records
<1> QED
  BY <1>2, <1>3 DEF CaptureConsent

\* A consent is revoked while no creation holds it.
LEMMA RevokeConsentKeeps ==
  ASSUME IInv, NEW q \in Requests, RevokeConsent(q)
  PROVE  IInv'
<1> DEFINE c == op[q].consent
           new == [consents[c] EXCEPT !.status = "revoked"]
<1>1. pc[q] = "open" /\ op[q].op = "revoke" /\ op[q] \in Operations
  BY DEF RevokeConsent, Doing, IInv, TypeOK
<1>2. c \in Requests /\ consents[c] \in ConsentRow /\ consents[c] # None
  BY <1>1, OperationFields, Targets, NoneAssumption DEF IInv
<1>3. CASE Answer(q, "refused")
  BY <1>1, <1>3, AnswerKeeps
<1>4. CASE /\ Free(<<"consent", c>>, q)
           /\ consents' = [consents EXCEPT ![c] = new] /\ Finish(q, "ok")
           /\ UNCHANGED <<clock, op, started, seen, drawn, customers, owners,
                          mileage, receptions, orders>>
  <2>0. new.created = consents[c].created
    BY <1>2 DEF ConsentRow
  <2> HIDE DEF new
  <2>1. TypeOK' /\ Shape'
    BY RevokeConsentTypes DEF IInv
  <2>2. VehiclesStay /\ OnlyOpen' /\ OrdersMatch' /\ Mileage' /\ \A v \in Vehicles : OpenOn(v)' = OpenOn(v)
    BY <1>4, SameReceptions DEF IInv, Records
  <2>3. \A p \in Requests \ {q} : Undisturbed(p)
    BY <1>4, <2>2 DEF Undisturbed, IInv, TypeOK, Free
  <2>4. clock' \in Nat /\ clock' >= clock
    BY <1>4 DEF IInv, TypeOK
  <2>5. Locked' /\ Exclusive' /\ Ready'
    BY <1>4, <2>2, <2>3, <2>4, Ends DEF IInv
  <2>6. OwnersInSequence' /\ DocumentPairs'
    BY <1>4 DEF IInv, Records, OwnersInSequence, DocumentPairs
  <2>7. Born'
    BY <1>1, <1>2, <1>4, <2>0 DEF IInv, TypeOK, Answers, Born, Finish
  <2>8. VersionsRise
    BY <1>4, SameVersions DEF IInv
  <2>9. \A v \in Vehicles : \A i \in DOMAIN owners'[v] : owners'[v][i].from < clock'
    BY <1>4, <2>4, SameOwners DEF IInv, Answers
  <2>10. Answers'
    BY <1>1, <1>4, <2>1, <2>4, <2>7, <2>8, <2>9, EndsAnswers DEF IInv
  <2> QED
    BY <2>1, <2>2, <2>5, <2>6, <2>10 DEF IInv, Records
<1> QED
  BY <1>3, <1>4 DEF RevokeConsent

\* The row a creation inserts is the only open one of its vehicle.
LEMMA CreateCommitKeeps ==
  ASSUME IInv, NEW q \in Requests, CreateCommit(q)
  PROVE  IInv'
<1> DEFINE o == op[q]
           new == [vehicle |-> o.vehicle, customer |-> o.customer, consent |-> o.consent,
                   mileage |-> o.mileage, status |-> "open", version |-> started[q],
                   created |-> started[q], items |-> 0]
<1>1. /\ pc[q] = "commit" /\ o.op = "create" /\ o \in Operations /\ o.vehicle \in Vehicles
      /\ receptions' = [receptions EXCEPT ![q] = new] /\ Finish(q, "ok")
      /\ UNCHANGED <<clock, op, started, seen, drawn, customers, owners, mileage,
                     consents, orders>>
  BY OperationFields DEF CreateCommit, Doing, IInv, TypeOK
<1>2. new.vehicle = o.vehicle /\ new.mileage = o.mileage /\ new.status = "open"
  OBVIOUS
<1> HIDE DEF new
<1>3. receptions[q] = None
  BY <1>1 DEF IInv, Answers, Born
<1>4. receptions'[q] = new /\ \A r \in Requests \ {q} : receptions'[r] = receptions[r]
  BY <1>1 DEF IInv, TypeOK
<1>5. TypeOK' /\ Shape'
  BY CreateCommitTypes DEF IInv
<1>6. ~Below(o.mileage, o.vehicle) /\ OpenOn(o.vehicle) = {}
  BY <1>1 DEF IInv, Ready, ReadyFor
<1>7. VehiclesStay
  BY <1>3, <1>4 DEF VehiclesStay
<1>8. VersionsRise
  <2>1. \A r \in Requests : receptions[r] # None => receptions[r].version \in Nat
    BY RowFields DEF IInv, TypeOK
  <2> QED
    BY <1>3, <1>4, <2>1 DEF VersionsRise
<1>9. \A p \in Requests \ {q} : Undisturbed(p)
  <2> SUFFICES ASSUME NEW p \in Requests \ {q} PROVE Undisturbed(p)
    OBVIOUS
  <2>1. <<"vehicle", o.vehicle>> \in holds[q]
    BY <1>1 DEF IInv, Locked, LockedBy
  <2>2. <<"vehicle", o.vehicle>> \notin holds[p]
    BY <2>1 DEF IInv, Exclusive
  <2>3. \A v \in Vehicles \ {o.vehicle} : \A r \in OpenOn(v)' : r \in OpenOn(v)
    BY <1>2, <1>4 DEF OpenOn
  <2> QED
    BY <1>1, <1>3, <1>4, <2>2, <2>3 DEF Undisturbed
<1>10. clock' \in Nat /\ clock' >= clock
  BY <1>1 DEF IInv, TypeOK
<1>11. Locked' /\ Exclusive' /\ Ready'
  BY <1>1, <1>7, <1>9, <1>10, Ends DEF IInv
<1>12. /\ \A r \in Requests \ {q} : IsOpen(r)' = IsOpen(r)
       /\ \A r \in Requests : IsClosed(r)' = IsClosed(r)
       /\ \A r \in Requests : IsClosed(r) => r # q
  <2>1. new # None
    <3>1. new \in ReceptionRow
      BY <1>1, OperationFields DEF new, ReceptionRow, IInv, TypeOK
    <3> QED
      BY <3>1, NoneAssumption
  <2> QED
    BY <1>2, <1>3, <1>4, <2>1 DEF IsOpen, IsClosed
<1>13. OnlyOpen'
  <2>1. \A r \in Requests \ {q} : IsOpen(r) => receptions[r].vehicle # o.vehicle
    BY <1>6 DEF OpenOn, IsOpen
  <2> QED
    BY <1>2, <1>4, <1>12, <2>1 DEF IInv, Records, OnlyOpen
<1>14. OrdersMatch'
  <2>1. \A x \in orders : x.reception \in Requests
    BY DEF IInv, TypeOK
  <2>2. orders' = orders /\ Numbers' = Numbers
    BY <1>1 DEF Numbers
  <2> QED
    BY <1>12, <2>1, <2>2 DEF IInv, Records, OrdersMatch
<1>15. Mileage'
  <2>1. mileage' = mileage
    BY <1>1
  <2>2. ASSUME NEW r \in Requests, IsOpen(r)'
        PROVE  ~Below(receptions[r].mileage, receptions[r].vehicle)'
    <3>1. CASE r = q
      BY <1>2, <1>4, <1>6, <2>1, <3>1 DEF Below
    <3>2. CASE r # q
      <4>1. ~Below(receptions[r].mileage, receptions[r].vehicle)
        BY <1>12, <2>2, <3>2 DEF IInv, Records, Mileage
      <4> QED
        BY <1>4, <2>1, <3>2, <4>1 DEF Below
    <3> QED
      BY <3>1, <3>2
  <2>3. \A r \in Requests : IsClosed(r) => receptions'[r] = receptions[r]
    BY <1>4, <1>12
  <2>4. \A r \in Requests : IsClosed(r)' => /\ mileage'[receptions'[r].vehicle] # None
                                        /\ receptions'[r].mileage <= mileage'[receptions'[r].vehicle]
    BY <1>12, <2>1, <2>3 DEF IInv, Records, Mileage
  <2>5. \A v \in Vehicles : mileage'[v] # None =>
          \E r \in Requests : /\ IsClosed(r)' /\ receptions'[r].vehicle = v
                              /\ receptions'[r].mileage = mileage'[v]
    BY <1>12, <2>1, <2>3 DEF IInv, Records, Mileage
  <2> QED
    BY <2>2, <2>4, <2>5 DEF Mileage
<1>16. OwnersInSequence' /\ DocumentPairs'
  BY <1>1 DEF IInv, Records, OwnersInSequence, DocumentPairs
<1>17. Born'
  BY <1>1, <1>4 DEF IInv, TypeOK, Answers, Born, Finish
<1>18. \A v \in Vehicles : \A i \in DOMAIN owners'[v] : owners'[v][i].from < clock'
  BY <1>1, <1>10, SameOwners DEF IInv, Answers
<1>19. Answers'
  BY <1>1, <1>5, <1>8, <1>10, <1>17, <1>18, EndsAnswers DEF IInv
<1> QED
  BY <1>5, <1>11, <1>13, <1>14, <1>15, <1>16, <1>19 DEF IInv, Records

\* An edit leaves its reception open, on its vehicle, at a version nobody has seen.
LEMMA EditWriteKeeps ==
  ASSUME IInv, NEW q \in Requests, EditWrite(q)
  PROVE  IInv'
<1> DEFINE r == op[q].reception
           row == receptions[r]
           new == Written(q, row)
<1>1. pc[q] = "write" /\ op[q].op \in {"patch", "inspect"}
  BY DEF EditWrite, IInv, Shape, Fits
<1>2. CASE Answer(q, "refused")
  BY <1>1, <1>2, AnswerKeeps
<1>3. Editable(q, row)
  BY <1>1 DEF IInv, Ready, ReadyFor
<1>4. CASE /\ ~EditRefused(q, row) /\ receptions' = [receptions EXCEPT ![r] = new]
           /\ Finish(q, "ok")
           /\ UNCHANGED <<clock, op, started, seen, drawn, customers, owners, mileage,
                          consents, orders>>
  <2>1. /\ r \in Requests /\ row \in ReceptionRow /\ new \in ReceptionRow
        /\ new.status = row.status /\ new.vehicle = row.vehicle /\ new.version > row.version
    BY <1>1, WrittenRow DEF IInv
  <2>2. row.status = "open" /\ row.version = seen[q]
    BY <1>3 DEF Editable
  <2>3. ~Below(new.mileage, row.vehicle)
    BY <1>4 DEF EditRefused
  <2> HIDE DEF new
  <2>4. row # None /\ new # None
    BY <2>1, NoneAssumption
  <2>5. receptions'[r] = new /\ \A x \in Requests \ {r} : receptions'[x] = receptions[x]
    BY <1>4, <2>1 DEF IInv, TypeOK
  <2>6. TypeOK' /\ Shape'
    BY EditWriteTypes DEF IInv
  <2>7. VehiclesStay
    BY <2>1, <2>5 DEF VehiclesStay
  <2>8. \A x \in Requests : IsOpen(x)' = IsOpen(x) /\ IsClosed(x)' = IsClosed(x)
    BY <2>1, <2>2, <2>4, <2>5 DEF IsOpen, IsClosed
  <2>9. \A x \in Requests : IsOpen(x) => receptions'[x].vehicle = receptions[x].vehicle
    BY <2>7 DEF IsOpen, VehiclesStay
  <2>10. \A v \in Vehicles : OpenOn(v)' = OpenOn(v)
    BY <2>8, <2>9 DEF OpenOn, IsOpen
  <2>11. \A p \in Requests \ {q} : Undisturbed(p)
    <3> SUFFICES ASSUME NEW p \in Requests \ {q} PROVE Undisturbed(p)
      OBVIOUS
    <3>1. <<"reception", r>> \in holds[q]
      BY <1>1 DEF IInv, Locked, LockedBy
    <3>2. <<"reception", r>> \notin holds[p]
      BY <3>1 DEF IInv, Exclusive
    <3> QED
      BY <1>4, <2>5, <2>10, <3>2 DEF Undisturbed
  <2>12. clock' \in Nat /\ clock' >= clock
    BY <1>4 DEF IInv, TypeOK
  <2>13. Locked' /\ Exclusive' /\ Ready'
    BY <1>4, <2>7, <2>11, <2>12, Ends DEF IInv
  <2>14. OnlyOpen'
    BY <2>8, <2>9 DEF IInv, Records, OnlyOpen
  <2>15. OrdersMatch'
    <3>1. \A x \in orders : x.reception \in Requests
      BY DEF IInv, TypeOK
    <3>2. orders' = orders /\ Numbers' = Numbers
      BY <1>4 DEF Numbers
    <3> QED
      BY <2>8, <3>1, <3>2 DEF IInv, Records, OrdersMatch
  <2>16. Mileage'
    <3>1. mileage' = mileage
      BY <1>4
    <3>2. ASSUME NEW x \in Requests, IsOpen(x)'
          PROVE  ~Below(receptions[x].mileage, receptions[x].vehicle)'
      <4>1. CASE x = r
        BY <2>1, <2>3, <2>5, <3>1, <4>1 DEF Below
      <4>2. CASE x # r
        <5>1. ~Below(receptions[x].mileage, receptions[x].vehicle)
          BY <2>8, <3>2 DEF IInv, Records, Mileage
        <5> QED
          BY <2>5, <3>1, <4>2, <5>1 DEF Below
      <4> QED
        BY <4>1, <4>2
    <3>3. \A x \in Requests : IsClosed(x) => receptions'[x] = receptions[x]
      BY <2>2, <2>5 DEF IsClosed
    <3>4. \A x \in Requests : IsClosed(x)' =>
            /\ mileage'[receptions'[x].vehicle] # None
            /\ receptions'[x].mileage <= mileage'[receptions'[x].vehicle]
      BY <2>8, <3>1, <3>3 DEF IInv, Records, Mileage
    <3>5. \A v \in Vehicles : mileage'[v] # None =>
            \E x \in Requests : /\ IsClosed(x)' /\ receptions'[x].vehicle = v
                                /\ receptions'[x].mileage = mileage'[v]
      BY <2>8, <3>1, <3>3 DEF IInv, Records, Mileage
    <3> QED
      BY <3>2, <3>4, <3>5 DEF Mileage
  <2>17. OwnersInSequence' /\ DocumentPairs'
    BY <1>4 DEF IInv, Records, OwnersInSequence, DocumentPairs
  <2>18. Answers'
    <3>1. /\ pc'[q] = "done" /\ outcome'[q] = "ok"
          /\ \A p \in Requests \ {q} : pc'[p] = pc[p] /\ outcome'[p] = outcome[p]
          /\ \A p \in Requests : (pc'[p] # "new") = (pc[p] # "new")
      BY <1>1, <1>4 DEF Finish, IInv, TypeOK
    <3>2. Born'
      BY <2>4, <2>5, <1>4, <3>1 DEF IInv, TypeOK, Answers, Born
    <3>3. Clocked'
      BY <1>4, <3>1 DEF IInv, Answers, Clocked
    <3>4. \A p \in Requests \ {q} :
            outcome[p] = "ok" /\ op[p].op \in {"patch", "inspect"} =>
              /\ op[p].reception \in Requests
              /\ receptions[op[p].reception] # None
              /\ seen[p] < receptions[op[p].reception].version
      BY OperationFields DEF IInv, TypeOK, Answers, EditsShow
    <3>5. EditsShow'
      <4> SUFFICES ASSUME NEW p \in Requests
                   PROVE  /\ outcome'[p] # "none" => pc'[p] = "done"
                          /\ outcome'[p] = "ok" /\ op[p].op \in {"patch", "inspect"} =>
                               /\ receptions'[op[p].reception] # None
                               /\ seen[p] < receptions'[op[p].reception].version
        BY <1>4 DEF EditsShow
      <4>1. outcome'[p] # "none" => pc'[p] = "done"
        BY <3>1 DEF IInv, Answers, EditsShow
      <4>2. CASE p = q
        BY <2>1, <2>2, <2>4, <2>5, <4>1, <4>2, RowFields
      <4>3. CASE p # q
        <5>1. seen[p] \in Nat /\ row.version \in Nat /\ new.version \in Nat
          BY <2>1, RowFields DEF IInv, TypeOK
        <5>2. CASE op[p].reception = r
          BY <2>1, <2>4, <2>5, <3>1, <3>4, <4>1, <4>3, <5>1, <5>2
        <5>3. CASE op[p].reception # r
          BY <2>5, <3>1, <3>4, <4>1, <4>3, <5>3
        <5> QED
          BY <5>2, <5>3
      <4> QED
        BY <4>2, <4>3
    <3>6. NoInternalError'
      BY <3>1 DEF IInv, Answers, NoInternalError
    <3>7. NoLostUpdate'
      <4>1. \A p \in Requests \ {q} :
              outcome[p] = "ok" /\ op[p].op \in {"patch", "inspect"} /\ op[p].reception = r =>
                seen[p] # seen[q]
        <5>1. seen[q] \in Nat /\ \A p \in Requests : seen[p] \in Nat
          BY DEF IInv, TypeOK
        <5> QED
          BY <2>2, <3>4, <5>1
      <4>2. op' = op /\ seen' = seen
        BY <1>4
      <4> QED
        BY <3>1, <4>1, <4>2 DEF IInv, Answers, NoLostUpdate
    <3> QED
      BY <3>2, <3>3, <3>5, <3>6, <3>7 DEF Answers
  <2> QED
    BY <2>6, <2>13, <2>14, <2>15, <2>16, <2>17, <2>18 DEF IInv, Records
<1> QED
  BY <1>2, <1>3, <1>4 DEF EditWrite

\* The only open reception of its vehicle closes, with the order of the next number.
LEMMA CloseCommitKeeps ==
  ASSUME IInv, NEW q \in Requests, CloseCommit(q)
  PROVE  IInv'
<1> DEFINE r == op[q].reception
           row == receptions[r]
           v == row.vehicle
           new == [row EXCEPT !.status = "closed", !.version = Later(started[q], @)]
           order == [reception |-> r, number |-> drawn[q]]
<1>1. pc[q] = "commit" /\ op[q].op = "close" /\ Closing(q) /\ op[q] \in Operations
  BY DEF CloseCommit, Doing, Closing, IInv, TypeOK
<1>2. r \in Requests /\ row \in ReceptionRow /\ row # None /\ started[q] \in Nat
  BY <1>1, OperationFields, Targets, NoneAssumption DEF IInv, TypeOK
<1>3. row.status = "open" /\ ~Below(row.mileage, v) /\ drawn[q] = Cardinality(orders) + 1
  BY <1>1 DEF IInv, Ready, ReadyFor
<1>4. OrderOf(r) = {}
  BY <1>2, <1>3, OrdersOf DEF IInv, Records, IsOpen
<1>5. Cardinality(orders) \in Nat /\ drawn[q] \notin Numbers
  <2>1. Cardinality(orders) \in Nat
    BY FS_CardinalityType DEF IInv, Records, OrdersMatch
  <2> QED
    BY <1>3, <2>1 DEF IInv, Records, OrdersMatch
<1>6. /\ mileage' = [mileage EXCEPT ![v] = row.mileage]
      /\ receptions' = [receptions EXCEPT ![r] = new]
      /\ orders' = orders \cup {order} /\ Finish(q, "ok")
      /\ UNCHANGED <<clock, op, started, seen, drawn, customers, owners, consents>>
  BY <1>4, <1>5 DEF CloseCommit
<1>7. /\ new \in ReceptionRow /\ new.status = "closed" /\ new.vehicle = v
      /\ new.mileage = row.mileage /\ new.version > row.version
  BY <1>2, ClosedRow
<1>8. v \in Vehicles /\ row.mileage \in Mileages /\ row.version \in Nat /\ new.version \in Nat
  BY <1>2, <1>7, RowFields
<1>9. order.reception = r /\ order.number = drawn[q]
  OBVIOUS
<1> HIDE DEF new, order
<1>10. new # None
  BY <1>7, NoneAssumption
<1>11. /\ receptions'[r] = new /\ \A x \in Requests \ {r} : receptions'[x] = receptions[x]
       /\ mileage'[v] = row.mileage /\ \A w \in Vehicles \ {v} : mileage'[w] = mileage[w]
  BY <1>2, <1>6, <1>8 DEF IInv, TypeOK
<1>12. TypeOK' /\ Shape'
  BY CloseCommitTypes DEF IInv
<1>13. VehiclesStay
  BY <1>7, <1>11 DEF VehiclesStay
<1>14. VersionsRise
  <2>1. \A x \in Requests : receptions[x] # None => receptions[x].version \in Nat
    BY RowFields DEF IInv, TypeOK
  <2> QED
    BY <1>7, <1>8, <1>10, <1>11, <2>1 DEF VersionsRise
<1>15. /\ IsOpen(r) /\ ~IsClosed(r)
       /\ \A x \in Requests : /\ IsOpen(x)' <=> x # r /\ IsOpen(x)
                              /\ IsClosed(x)' <=> x = r \/ IsClosed(x)
  <2>1. IsOpen(r) /\ ~IsClosed(r)
    BY <1>2, <1>3 DEF IsOpen, IsClosed
  <2>2. ASSUME NEW x \in Requests
        PROVE  /\ IsOpen(x)' <=> x # r /\ IsOpen(x)
               /\ IsClosed(x)' <=> x = r \/ IsClosed(x)
    <3>1. CASE x = r
      BY <1>7, <1>10, <1>11, <3>1 DEF IsOpen, IsClosed
    <3>2. CASE x # r
      BY <1>11, <3>2 DEF IsOpen, IsClosed
    <3> QED
      BY <3>1, <3>2
  <2> QED
    BY <2>1, <2>2
<1>16. \A x \in Requests \ {r} : IsOpen(x) => receptions[x].vehicle # v
  BY <1>2, <1>15 DEF IInv, Records, OnlyOpen
<1>17. \A p \in Requests \ {q} : Undisturbed(p)
  <2> SUFFICES ASSUME NEW p \in Requests \ {q} PROVE Undisturbed(p)
    OBVIOUS
  <2>1. <<"reception", r>> \in holds[q] /\ <<"vehicle", v>> \in holds[q] /\ <<"number", None>> \in holds[q]
    BY <1>1 DEF IInv, Locked, LockedBy
  <2>2. <<"reception", r>> \notin holds[p] /\ <<"vehicle", v>> \notin holds[p] /\ <<"number", None>> \notin holds[p]
    BY <2>1 DEF IInv, Exclusive
  <2>3. \A w \in Vehicles : \A x \in OpenOn(w)' : x \in OpenOn(w)
    BY <1>11, <1>15 DEF OpenOn, IsOpen
  <2> QED
    BY <1>6, <1>11, <2>2, <2>3 DEF Undisturbed
<1>18. clock' \in Nat /\ clock' >= clock
  BY <1>6 DEF IInv, TypeOK
<1>19. Locked' /\ Exclusive' /\ Ready'
  BY <1>6, <1>13, <1>17, <1>18, Ends DEF IInv
<1>20. OnlyOpen'
  BY <1>11, <1>15 DEF IInv, Records, OnlyOpen
<1>21. OrdersMatch'
  <2>1. order \notin orders
    BY <1>4, <1>9 DEF OrderOf
  <2>2. IsFiniteSet(orders') /\ Cardinality(orders') = Cardinality(orders) + 1
    BY <1>6, <2>1, FS_AddElement DEF IInv, Records, OrdersMatch
  <2>3. \A x \in orders : x.reception \in Requests /\ x.reception # r
    BY <1>4 DEF OrderOf, IInv, TypeOK
  <2>4. ASSUME NEW x \in orders' PROVE IsClosed(x.reception)'
    <3>1. x.reception \in Requests /\ (x.reception = r \/ IsClosed(x.reception))
      BY <1>2, <1>6, <1>9, <2>3 DEF IInv, Records, OrdersMatch
    <3> QED
      BY <1>15, <3>1
  <2>5. \A x \in Requests : IsClosed(x)' => \E y \in orders' : y.reception = x
    BY <1>6, <1>9, <1>15 DEF IInv, Records, OrdersMatch
  <2>6. \A x, y \in orders' : x.reception = y.reception => x = y
    BY <1>6, <1>9, <2>3 DEF IInv, Records, OrdersMatch
  <2>7. Numbers' = 1 .. Cardinality(orders')
    <3>1. Numbers' = Numbers \cup {drawn[q]}
      BY <1>6, <1>9 DEF Numbers
    <3> QED
      BY <1>3, <1>5, <2>2, <3>1 DEF IInv, Records, OrdersMatch
  <2> QED
    BY <2>2, <2>4, <2>5, <2>6, <2>7 DEF OrdersMatch
<1>22. Mileage'
  <2>0. \A x \in Requests \ {r} : receptions[x] # None =>
          receptions[x].vehicle \in Vehicles /\ receptions[x].mileage \in Mileages
    BY RowFields DEF IInv, TypeOK
  <2>1. ASSUME NEW x \in Requests, IsOpen(x)'
        PROVE  ~Below(receptions[x].mileage, receptions[x].vehicle)'
    <3>1. x # r /\ IsOpen(x) /\ receptions'[x] = receptions[x] /\ receptions[x].vehicle # v
      BY <1>11, <1>15, <1>16, <2>1
    <3>2. mileage'[receptions[x].vehicle] = mileage[receptions[x].vehicle]
      BY <1>11, <2>0, <3>1 DEF IsOpen
    <3>3. ~Below(receptions[x].mileage, receptions[x].vehicle)
      BY <3>1 DEF IInv, Records, Mileage
    <3> QED
      BY <3>1, <3>2, <3>3 DEF Below
  <2>2. mileage[v] = None \/ (mileage[v] \in Mileages /\ mileage[v] <= row.mileage)
    BY <1>3, <1>8, MileageAssumption DEF IInv, TypeOK, Below, Mileages
  <2>3. ASSUME NEW x \in Requests, IsClosed(x)'
        PROVE  /\ mileage'[receptions'[x].vehicle] # None
               /\ receptions'[x].mileage <= mileage'[receptions'[x].vehicle]
    <3>1. row.mileage # None /\ row.mileage <= row.mileage
      BY <1>8, NoneAssumption, MileageAssumption DEF Mileages
    <3>2. CASE x = r
      BY <1>7, <1>11, <3>1, <3>2
    <3>3. CASE x # r
      <4> DEFINE w == receptions[x].vehicle
      <4>1. IsClosed(x) /\ receptions'[x] = receptions[x] /\ w \in Vehicles /\ receptions[x].mileage \in Mileages
        BY <1>11, <1>15, <2>0, <2>3, <3>3 DEF IsClosed
      <4>2. mileage[w] # None /\ receptions[x].mileage <= mileage[w]
        BY <4>1 DEF IInv, Records, Mileage
      <4>3. CASE w = v
        <5>1. receptions[x].mileage <= row.mileage
          BY <1>8, <2>2, <4>1, <4>2, <4>3, MileageAssumption DEF Mileages
        <5> QED
          BY <1>11, <3>1, <4>1, <4>3, <5>1
      <4>4. CASE w # v
        BY <1>11, <4>1, <4>2, <4>4
      <4> QED
        BY <4>3, <4>4
    <3> QED
      BY <3>2, <3>3
  <2>4. ASSUME NEW w \in Vehicles, mileage'[w] # None
        PROVE  \E x \in Requests : /\ IsClosed(x)' /\ receptions'[x].vehicle = w
                                   /\ receptions'[x].mileage = mileage'[w]
    <3>1. CASE w = v
      BY <1>2, <1>7, <1>11, <1>15, <3>1
    <3>2. CASE w # v
      <4>1. mileage[w] # None /\ mileage'[w] = mileage[w]
        BY <1>11, <2>4, <3>2
      <4>2. PICK x \in Requests : /\ IsClosed(x) /\ receptions[x].vehicle = w
                                  /\ receptions[x].mileage = mileage[w]
        BY <4>1 DEF IInv, Records, Mileage
      <4>3. x # r
        BY <1>15, <4>2
      <4> QED
        BY <1>11, <1>15, <4>1, <4>2, <4>3
    <3> QED
      BY <3>1, <3>2
  <2> QED
    BY <2>1, <2>3, <2>4 DEF Mileage
<1>23. OwnersInSequence' /\ DocumentPairs'
  BY <1>6 DEF IInv, Records, OwnersInSequence, DocumentPairs
<1>24. Born'
  BY <1>2, <1>6, <1>10, <1>11 DEF IInv, TypeOK, Answers, Born, Finish
<1>25. \A w \in Vehicles : \A i \in DOMAIN owners'[w] : owners'[w][i].from < clock'
  BY <1>6, <1>18, SameOwners DEF IInv, Answers
<1>26. Answers'
  BY <1>1, <1>6, <1>12, <1>14, <1>18, <1>24, <1>25, EndsAnswers DEF IInv
<1> QED
  BY <1>12, <1>19, <1>20, <1>21, <1>22, <1>23, <1>26 DEF IInv, Records

-----------------------------------------------------------------------------
(* The invariant, and the theorems. *)

LEMMA InitHolds == Init => IInv
<1> SUFFICES ASSUME Init PROVE IInv
  OBVIOUS
<1>1. TypeOK /\ Shape
  BY InitTypes
<1>2. Locked /\ Exclusive /\ Ready
  BY DEF Init, Locked, LockedBy, Exclusive, Ready, ReadyFor, Closing
<1>3. OrdersMatch
  <2>1. IsFiniteSet(orders) /\ Cardinality(orders) = 0 /\ orders = {}
    BY FS_EmptySet DEF Init
  <2>2. Numbers = 1 .. Cardinality(orders)
    BY <2>1 DEF Numbers
  <2> QED
    BY <2>1, <2>2 DEF Init, OrdersMatch, IsClosed
<1>4. OnlyOpen /\ Mileage /\ OwnersInSequence /\ DocumentPairs
  <2>1. OnlyOpen /\ Mileage
    BY DEF Init, OnlyOpen, Mileage, IsOpen, IsClosed
  <2>2. \A v \in Vehicles : DOMAIN owners[v] = {}
    BY DEF Init
  <2>3. OwnersInSequence
    BY <2>2 DEF OwnersInSequence
  <2>4. DocumentPairs
    BY DEF Init, DocumentPairs
  <2> QED
    BY <2>1, <2>3, <2>4
<1>5. Born /\ Clocked /\ EditsShow /\ NoInternalError /\ NoLostUpdate
  BY DEF Init, Born, Clocked, EditsShow, NoInternalError, NoLostUpdate
<1> QED
  BY <1>1, <1>2, <1>3, <1>4, <1>5 DEF IInv, Records, Answers

LEMMA StepHolds == IInv /\ [Next]_vars => IInv'
<1> SUFFICES ASSUME IInv, [Next]_vars PROVE IInv'
  OBVIOUS
<1>1. ASSUME NEW q \in Requests, Begin(q) PROVE IInv'
  BY <1>1, BeginKeeps
<1>2. ASSUME NEW q \in Requests, Step(q) PROVE IInv'
  <2>1. CASE EditCustomer(q)     BY <2>1, EditCustomerKeeps
  <2>2. CASE CreateVehicle(q)    BY <2>2, CreateVehicleKeeps
  <2>3. CASE TransferLock(q)     BY <2>3, TransferLockKeeps
  <2>4. CASE TransferCommit(q)   BY <2>4, TransferCommitKeeps
  <2>5. CASE CaptureConsent(q)   BY <2>5, CaptureConsentKeeps
  <2>6. CASE RevokeConsent(q)    BY <2>6, RevokeConsentKeeps
  <2>7. CASE CreateLock(q)       BY <2>7, CreateLockKeeps
  <2>8. CASE CreateConsent(q)    BY <2>8, CreateConsentKeeps
  <2>9. CASE CreateInsert(q)     BY <2>9, CreateInsertKeeps
  <2>10. CASE CreateCommit(q)    BY <2>10, CreateCommitKeeps
  <2>11. CASE EditLock(q)        BY <2>11, EditLockKeeps
  <2>12. CASE EditWrite(q)       BY <2>12, EditWriteKeeps
  <2>13. CASE CloseLock(q)       BY <2>13, CloseLockKeeps
  <2>14. CASE CloseVehicle(q)    BY <2>14, CloseVehicleKeeps
  <2>15. CASE CloseNumber(q)     BY <2>15, CloseNumberKeeps
  <2>16. CASE CloseOrder(q)      BY <2>16, CloseOrderKeeps
  <2>17. CASE CloseCommit(q)     BY <2>17, CloseCommitKeeps
  <2>18. CASE ReadReception(q)   BY <2>18, ReadKeeps
  <2> QED
    BY <1>2, <2>1, <2>2, <2>3, <2>4, <2>5, <2>6, <2>7, <2>8, <2>9, <2>10, <2>11, <2>12,
       <2>13, <2>14, <2>15, <2>16, <2>17, <2>18 DEF Step
<1>3. CASE UNCHANGED vars
  <2>1. UNCHANGED tables /\ UNCHANGED work /\ op' = op /\ clock' = clock
    BY <1>3 DEF vars
  <2>2. /\ pc' = pc /\ started' = started /\ seen' = seen /\ drawn' = drawn
        /\ holds' = holds /\ outcome' = outcome
    BY <2>1 DEF work
  <2>3. /\ customers' = customers /\ owners' = owners /\ mileage' = mileage
        /\ consents' = consents /\ receptions' = receptions /\ orders' = orders
    BY <2>1 DEF tables
  <2>4. TypeOK'
    BY <2>1, <2>2, <2>3 DEF IInv, TypeOK
  <2>5. Shape'
    <3>1. \A q \in Requests : TargetExists(op[q]) => TargetExists(op[q])'
      BY <2>1, <2>3 DEF TargetExists
    <3> QED
      BY <2>1, <2>2, <3>1 DEF IInv, Shape, Fits
  <2>6. Records' /\ VehiclesStay /\ \A p \in Requests : Undisturbed(p)
    BY <2>1, SameTables DEF IInv
  <2>7. clock' \in Nat /\ clock' >= clock
    BY <2>1 DEF IInv, TypeOK
  <2>8. Locked' /\ Ready'
    BY <2>1, <2>2, <2>6, <2>7, OthersLocked, OthersReady DEF IInv, Locked, Ready
  <2>9. Exclusive'
    BY <2>2 DEF IInv, Exclusive
  <2>10. Answers'
    BY <2>1, <2>2, <2>3 DEF IInv, Answers, Born, Clocked, EditsShow, NoInternalError, NoLostUpdate
  <2> QED
    BY <2>4, <2>5, <2>6, <2>8, <2>9, <2>10 DEF IInv
<1> QED
  BY <1>1, <1>2, <1>3 DEF Next

\* The invariant holds of every behaviour.
THEOREM Invariance == Spec => []IInv
BY InitHolds, StepHolds, PTL DEF Spec

\* The records have their types and fit together: one open reception of a vehicle, one order
\* of a closed reception and none of an open one, numbers without a gap, mileages that
\* never fall, ownerships one after the other, document columns in pairs.
THEOREM RecordsAreConsistent == Spec => []RecordsConsistent
<1>1. IInv => RecordsConsistent
  <2> SUFFICES ASSUME IInv PROVE RecordsConsistent
    OBVIOUS
  <2>1. ASSUME NEW v \in Vehicles PROVE Cardinality(OpenOn(v)) <= 1
    <3>1. CASE OpenOn(v) = {}
      BY <3>1, FS_EmptySet
    <3>2. CASE OpenOn(v) # {}
      <4>1. PICK r \in Requests : r \in OpenOn(v)
        BY <3>2 DEF OpenOn
      <4>2. OpenOn(v) = {r}
        BY <4>1 DEF IInv, Records, OnlyOpen, IsOpen, OpenOn
      <4>3. Cardinality(OpenOn(v)) = 1
        BY <4>2, FS_Singleton
      <4> QED
        BY <4>3
    <3> QED
      BY <3>1, <3>2
  <2>2. OrderPerClosure
    <3>1. ASSUME NEW r \in Requests, receptions[r] # None
          PROVE  Cardinality(OrderOf(r)) = IF receptions[r].status = "closed" THEN 1 ELSE 0
      <4>1. receptions[r] \in ReceptionRow
        BY <3>1 DEF IInv, TypeOK
      <4> QED
        BY <3>1, <4>1, OrdersOf, RowFields DEF IInv, Records, IsClosed, IsOpen
    <3> QED
      BY <3>1 DEF OrderPerClosure, IInv, Records, OrdersMatch
  <2>3. OpenMileageCovers
    BY DEF OpenMileageCovers, OpenOn, IInv, Records, Mileage, IsOpen
  <2>4. VehicleMileageIsHighest
    <3> SUFFICES ASSUME NEW v \in Vehicles
                 PROVE  LET closed == {r \in Requests : /\ receptions[r] # None
                                                        /\ receptions[r].status = "closed"
                                                        /\ receptions[r].vehicle = v}
                        IN  /\ mileage[v] = None <=> closed = {}
                            /\ \A r \in closed : receptions[r].mileage <= mileage[v]
                            /\ closed # {} => \E r \in closed : receptions[r].mileage = mileage[v]
      BY DEF VehicleMileageIsHighest
    <3> DEFINE closed == {r \in Requests : /\ receptions[r] # None
                                           /\ receptions[r].status = "closed"
                                           /\ receptions[r].vehicle = v}
    <3>1. \A r \in closed : mileage[v] # None /\ receptions[r].mileage <= mileage[v]
      BY DEF IInv, Records, Mileage, IsClosed
    <3>2. mileage[v] # None => \E r \in closed : receptions[r].mileage = mileage[v]
      BY DEF IInv, Records, Mileage, IsClosed
    <3> HIDE DEF closed
    <3>3. /\ mileage[v] = None <=> closed = {}
          /\ closed # {} => \E r \in closed : receptions[r].mileage = mileage[v]
      BY <3>1, <3>2
    <3> QED
      BY <3>1, <3>3 DEF closed
  <2> QED
    BY <2>1, <2>2, <2>3, <2>4 DEF RecordsConsistent, OneOpenReception, IInv, Records
<1> QED
  BY <1>1, Invariance, PTL

\* No interleaving reaches the errors the code calls internal.
THEOREM InternalErrorsNeverHappen == Spec => []NoInternalError
<1>1. IInv => NoInternalError
  BY DEF IInv, Answers
<1> QED
  BY <1>1, Invariance, PTL

\* Of two edits that had seen the same version of a reception, one succeeds at most.
THEOREM NoUpdateIsLost == Spec => []NoLostUpdate
<1>1. IInv => NoLostUpdate
  BY DEF IInv, Answers
<1> QED
  BY <1>1, Invariance, PTL

\* A reception is created on its owner's consent, and a closed one never changes.
CoveredStep ==
  \A r \in Requests :
    (receptions[r] = None /\ receptions'[r] # None) =>
      LET row == receptions'[r]
      IN /\ CurrentOwner(row.vehicle) = row.customer
         /\ GrantedFor(row.consent, row.customer, "service_provision")
         /\ consents[row.consent].created < row.created
FinalStep ==
  \A r \in Requests :
    (receptions[r] # None /\ receptions[r].status = "closed") =>
      receptions'[r] = receptions[r] /\ OrderOf(r) \subseteq orders'

LEMMA CreateCommitIsCovered ==
  ASSUME IInv, NEW q \in Requests, CreateCommit(q)
  PROVE  CoveredStep /\ FinalStep
<1> DEFINE o == op[q]
           new == [vehicle |-> o.vehicle, customer |-> o.customer, consent |-> o.consent,
                   mileage |-> o.mileage, status |-> "open", version |-> started[q],
                   created |-> started[q], items |-> 0]
<1>1. /\ pc[q] = "commit" /\ o.op = "create" /\ o \in Operations /\ o.consent \in Requests
      /\ receptions' = [receptions EXCEPT ![q] = new] /\ orders' = orders
  BY OperationFields DEF CreateCommit, Doing, IInv, TypeOK
<1>2. /\ new.vehicle = o.vehicle /\ new.customer = o.customer /\ new.consent = o.consent
      /\ new.created = started[q]
  OBVIOUS
<1> HIDE DEF new
<1>3. /\ receptions[q] = None /\ receptions'[q] = new
      /\ \A r \in Requests \ {q} : receptions'[r] = receptions[r]
  BY <1>1 DEF IInv, Answers, Born, TypeOK
<1>4. CurrentOwner(o.vehicle) = o.customer /\ Eligible(o.consent, o.customer, q)
  BY <1>1 DEF IInv, Ready, ReadyFor
<1>5. consents[o.consent].created < started[q]
  <2>1. consents[o.consent].created = started[o.consent] /\ pc[o.consent] = "done"
    BY <1>1, <1>4 DEF Eligible, GrantedFor, IInv, Answers, Born
  <2>2. started[o.consent] # started[q]
    BY <1>1, <2>1 DEF IInv, Answers, Clocked
  <2>3. started[o.consent] \in Nat /\ started[q] \in Nat /\ started[o.consent] <= started[q]
    BY <1>1, <1>4, <2>1 DEF IInv, TypeOK, Eligible
  <2> QED
    BY <2>1, <2>2, <2>3
<1>6. CoveredStep
  BY <1>2, <1>3, <1>4, <1>5 DEF CoveredStep, Eligible
<1>7. FinalStep
  BY <1>1, <1>3 DEF FinalStep, OrderOf
<1> QED
  BY <1>6, <1>7

LEMMA WritesAreHistory ==
  ASSUME IInv, NEW q \in Requests, EditWrite(q) \/ CloseCommit(q)
  PROVE  CoveredStep /\ FinalStep
<1> DEFINE r == op[q].reception
<1>1. r \in Requests /\ receptions[r] # None /\ receptions[r].status = "open"
  <2>1. pc[q] = "write" \/ Closing(q)
    BY DEF EditWrite, CloseCommit, Doing, Closing
  <2>2. op[q] \in Operations /\ op[q].op \in {"patch", "inspect", "close"} /\ pc[q] # "new"
    BY <2>1 DEF IInv, TypeOK, Shape, Fits, Closing
  <2>3. receptions[r].status = "open"
    BY <2>1 DEF IInv, Ready, ReadyFor, Editable
  <2> QED
    BY <2>2, <2>3, OperationFields, Targets, NoneAssumption DEF IInv
<1>2. /\ \A x \in Requests \ {r} : receptions'[x] = receptions[x]
      /\ orders \subseteq orders'
  <2>1. receptions' = receptions \/ \E new : receptions' = [receptions EXCEPT ![r] = new]
    BY DEF EditWrite, CloseCommit, Answer, tables
  <2>2. orders \subseteq orders'
    BY DEF EditWrite, CloseCommit, Answer, tables
  <2> QED
    BY <2>1, <2>2 DEF IInv, TypeOK
<1> QED
  BY <1>1, <1>2 DEF CoveredStep, FinalStep, OrderOf

\* What a reception was created on and what was closed stays true.
THEOREM HistoryStays == Spec => ReceptionHistory
<1>1. IInv /\ [Next]_vars => [CoveredStep]_vars /\ [FinalStep]_vars
  <2> SUFFICES ASSUME IInv, NEW q \in Requests, Begin(q) \/ Step(q)
               PROVE  CoveredStep /\ FinalStep
    BY DEF Next
  <2>1. CASE CreateCommit(q)
    BY <2>1, CreateCommitIsCovered
  <2>2. CASE EditWrite(q) \/ CloseCommit(q)
    BY <2>2, WritesAreHistory
  <2>3. CASE receptions' = receptions /\ orders' = orders
    BY <2>3 DEF CoveredStep, FinalStep, OrderOf
  <2>4. \/ receptions' = receptions /\ orders' = orders
        \/ CreateCommit(q) \/ EditWrite(q) \/ CloseCommit(q)
    BY DEF Begin, Step, EditCustomer, CreateVehicle, TransferLock, TransferCommit, CaptureConsent,
           RevokeConsent, CreateLock, CreateConsent, CreateInsert, EditLock, CloseLock,
           CloseVehicle, CloseNumber, CloseOrder, ReadReception, Answer, tables
  <2> QED
    BY <2>1, <2>2, <2>3, <2>4
<1>2. NewReceptionsAreCovered <=> [][CoveredStep]_vars
  BY DEF NewReceptionsAreCovered, CoveredStep
<1>3. ClosedIsFinal <=> [][FinalStep]_vars
  BY DEF ClosedIsFinal, FinalStep
<1> QED
  BY <1>1, <1>2, <1>3, Invariance, PTL DEF Spec, ReceptionHistory
-----------------------------------------------------------------------------
(* Serializability: what a request finds under its locks holds of the tables  *)
(* of the moment it is answered.                                              *)

ServedAtOnce(q) ==
  /\ outcome[q] = "none" /\ outcome' = [outcome EXCEPT ![q] = outcome'[q]]
  /\ AtOnce(q, outcome'[q])

SerialStep ==
  \/ UNCHANGED <<outcome, tables>>
  \/ \E q \in Requests : ServedAtOnce(q)

\* A request is answered once.
LEMMA FirstAnswer ==
  ASSUME IInv, NEW q \in Requests, pc[q] # "done", NEW result, Finish(q, result)
  PROVE  /\ outcome[q] = "none" /\ outcome'[q] = result
         /\ outcome' = [outcome EXCEPT ![q] = outcome'[q]]
<1>1. outcome[q] = "none"
  BY DEF IInv, Answers, EditsShow
<1>2. outcome' = [outcome EXCEPT ![q] = result] /\ outcome'[q] = result
  BY DEF Finish, IInv, TypeOK
<1> QED
  BY <1>1, <1>2

LEMMA CreateServed ==
  ASSUME IInv, NEW q \in Requests,
         CreateLock(q) \/ CreateConsent(q) \/ CreateInsert(q) \/ CreateCommit(q)
  PROVE  SerialStep
<1> DEFINE o == op[q]
<1>1. o.op = "create" /\ pc[q] \in {"open", "consent", "insert", "commit"}
  BY DEF CreateLock, CreateConsent, CreateInsert, CreateCommit, Doing
<1>2. CASE ~Accepted(q) /\ Answer(q, "refused")
  <2>1. CreatedAtOnce(q, "refused")
    BY <1>1, <1>2 DEF CreatedAtOnce, Answer, tables
  <2> QED
    BY <1>1, <1>2, <2>1, FirstAnswer DEF SerialStep, ServedAtOnce, AtOnce, Answer
<1>3. CASE CreateCommit(q)
  <2>1. Accepted(q)
    <3>1. pc[q] = "commit"
      BY <1>3 DEF CreateCommit, Doing
    <3> QED
      BY <1>1, <3>1 DEF IInv, Ready, ReadyFor, Accepted
  <2>2. CreatedAtOnce(q, "ok") /\ Finish(q, "ok")
    BY <1>1, <1>3, <2>1 DEF CreatedAtOnce, CreateCommit
  <2> QED
    BY <1>1, <2>2, FirstAnswer DEF SerialStep, ServedAtOnce, AtOnce
<1>4. CASE UNCHANGED <<outcome, tables>>
  BY <1>4 DEF SerialStep
<1>5. \/ ~Accepted(q) /\ Answer(q, "refused")
      \/ CreateCommit(q)
      \/ UNCHANGED <<outcome, tables>>
  BY DEF CreateLock, CreateConsent, CreateInsert, Accepted
<1> QED
  BY <1>2, <1>3, <1>4, <1>5

LEMMA TransferServed ==
  ASSUME IInv, NEW q \in Requests, TransferLock(q) \/ TransferCommit(q)
  PROVE  SerialStep
<1> DEFINE o == op[q]
           last == owners[o.vehicle][Len(owners[o.vehicle])]
<1>1. o.op = "transfer" /\ pc[q] \in {"open", "commit"}
  BY DEF TransferLock, TransferCommit, Doing
<1>2. CASE UNCHANGED <<outcome, tables>>
  BY <1>2 DEF SerialStep
<1>3. ASSUME NEW answer \in {"unchanged", "version_conflict"}, Answer(q, answer),
             answer = IF CurrentOwner(o.vehicle) = o.customer THEN "unchanged"
                      ELSE IF Len(owners[o.vehicle]) # seen[q] THEN "version_conflict" ELSE "ok"
      PROVE  SerialStep
  <2>1. TransferredAtOnce(q, answer)
    BY <1>1, <1>3 DEF TransferredAtOnce, Answer, tables
  <2> QED
    BY <1>1, <1>3, <2>1, FirstAnswer DEF SerialStep, ServedAtOnce, AtOnce, Answer
<1>4. CASE TransferCommit(q)
  <2>1. drawn[q] < clock /\ drawn[q] > last.from /\ pc[q] = "commit"
    BY <1>1, <1>4 DEF TransferCommit, Doing, IInv, Ready, ReadyFor
  <2>2. drawn[q] \in 1 .. clock - 1
    <3>1. o \in Operations /\ o.vehicle \in Vehicles /\ owners[o.vehicle] # <<>>
      BY <1>1, <2>1, OperationFields, Targets DEF IInv, TypeOK
    <3>2. last \in OwnerRow
      BY <3>1 DEF IInv, TypeOK
    <3>3. last.from \in Nat
      BY <3>2 DEF OwnerRow
    <3> QED
      BY <2>1, <3>3 DEF IInv, TypeOK
  <2>3. CurrentOwner(o.vehicle) # o.customer /\ Len(owners[o.vehicle]) = seen[q]
    BY <1>1, <2>1 DEF IInv, Ready, ReadyFor
  <2>4. TransferredAtOnce(q, "ok") /\ Finish(q, "ok")
    BY <1>1, <1>4, <2>1, <2>2, <2>3 DEF TransferredAtOnce, TransferCommit
  <2> QED
    BY <1>1, <2>1, <2>4, FirstAnswer DEF SerialStep, ServedAtOnce, AtOnce
<1> QED
  BY <1>1, <1>2, <1>3, <1>4 DEF TransferLock

LEMMA EditServed ==
  ASSUME IInv, NEW q \in Requests, EditLock(q) \/ EditWrite(q)
  PROVE  SerialStep
<1> DEFINE o == op[q]
           row == receptions[o.reception]
<1>1. o.op \in {"patch", "inspect"} /\ pc[q] \in {"open", "write"}
  BY DEF EditLock, EditWrite, IInv, Shape, Fits
<1>2. o \in Operations /\ row \in ReceptionRow
  BY <1>1, OperationFields, Targets, NoneAssumption DEF IInv, TypeOK
<1>3. row.status = "open" \/ row.status = "closed"
  BY <1>2, RowFields
<1>4. CASE UNCHANGED <<outcome, tables>>
  BY <1>4 DEF SerialStep
<1>5. CASE EditLock(q) /\ ~UNCHANGED <<outcome, tables>>
  <2>1. PICK answer \in {"refused", "version_conflict", "unchanged"} :
          /\ Answer(q, answer)
          /\ answer = IF row.status = "closed" THEN "refused"
                      ELSE IF row.version # seen[q] THEN "version_conflict" ELSE "unchanged"
          /\ answer = "unchanged" => o.op = "patch" /\ o.mileage = row.mileage
    BY <1>3, <1>5 DEF EditLock, Editable
  <2>2. EditedAtOnce(q, answer)
    BY <1>1, <2>1 DEF EditedAtOnce, Answer, tables
  <2> QED
    BY <1>1, <2>1, <2>2, FirstAnswer DEF SerialStep, ServedAtOnce, AtOnce, Answer
<1>6. CASE EditWrite(q)
  <2>1. /\ pc[q] = "write" /\ Editable(q, row)
        /\ ~(o.op = "patch" /\ o.mileage = row.mileage)
    BY <1>1, <1>6 DEF EditWrite, IInv, Ready, ReadyFor
  <2>2. PICK answer \in {"refused", "ok"} :
          /\ Finish(q, answer)
          /\ answer = IF EditRefused(q, row) THEN "refused" ELSE "ok"
          /\ receptions' = IF answer = "ok" THEN [receptions EXCEPT ![o.reception] = Written(q, row)]
                           ELSE receptions
          /\ UNCHANGED <<customers, owners, mileage, consents, orders>>
    BY <1>6, <2>1 DEF EditWrite, Answer, tables
  <2>3. EditedAtOnce(q, answer)
    BY <1>1, <2>1, <2>2 DEF EditedAtOnce, Editable
  <2> QED
    BY <2>1, <2>2, <2>3, FirstAnswer DEF SerialStep, ServedAtOnce, AtOnce
<1> QED
  BY <1>4, <1>5, <1>6

LEMMA CloseServed ==
  ASSUME IInv, NoInternalError', NEW q \in Requests,
         \/ CloseLock(q) \/ CloseVehicle(q) \/ CloseNumber(q) \/ CloseOrder(q)
         \/ CloseCommit(q)
  PROVE  SerialStep
<1> DEFINE r == op[q].reception
           row == receptions[r]
<1>1. op[q].op = "close" /\ pc[q] \in {"open", "vehicle", "number", "order", "commit"}
  BY DEF CloseLock, CloseVehicle, CloseNumber, CloseOrder, CloseCommit, Doing
<1>2. CASE UNCHANGED <<outcome, tables>>
  BY <1>2 DEF SerialStep
<1>3. ASSUME NEW answer, Answer(q, answer), answer \notin {"ok", "integrity"},
             answer = IF row.status = "closed" THEN "replayed"
                      ELSE IF Below(row.mileage, row.vehicle) THEN "refused" ELSE "ok"
      PROVE  SerialStep
  <2>1. ClosedAtOnce(q, answer)
    BY <1>1, <1>3 DEF ClosedAtOnce, Answer, tables
  <2> QED
    BY <1>1, <1>3, <2>1, FirstAnswer DEF SerialStep, ServedAtOnce, AtOnce, Answer
<1>4. CASE CloseLock(q)
  <2>1. outcome'[q] # "integrity"
    BY DEF NoInternalError
  <2>2. \A result : Answer(q, result) => outcome'[q] = result
    BY <1>1, FirstAnswer DEF Answer
  <2> QED
    BY <1>2, <1>3, <1>4, <2>1, <2>2 DEF CloseLock
<1>5. CASE CloseVehicle(q)
  <2>1. row.status = "open"
    BY <1>1, <1>5 DEF CloseVehicle, Doing, IInv, Ready, ReadyFor, Closing
  <2> QED
    BY <1>2, <1>3, <1>5, <2>1 DEF CloseVehicle
<1>6. CASE CloseCommit(q)
  <2>1. /\ pc[q] = "commit" /\ row.status = "open" /\ ~Below(row.mileage, row.vehicle)
        /\ drawn[q] = Cardinality(orders) + 1
    BY <1>1, <1>6 DEF CloseCommit, Doing, IInv, Ready, ReadyFor, Closing
  <2>2. outcome'[q] # "number_taken"
    BY DEF NoInternalError
  <2>3. \A result : Finish(q, result) => outcome'[q] = result
    BY <2>1, FirstAnswer
  <2>4. OrderOf(r) = {} /\ drawn[q] \notin Numbers
    BY <1>6, <2>2, <2>3 DEF CloseCommit
  <2>5. ClosedAtOnce(q, "ok") /\ Finish(q, "ok")
    BY <1>1, <1>6, <2>1, <2>4 DEF CloseCommit, ClosedAtOnce
  <2> QED
    BY <2>1, <2>5, FirstAnswer DEF SerialStep, ServedAtOnce, AtOnce
<1>7. CASE CloseNumber(q) \/ CloseOrder(q)
  BY <1>2, <1>7 DEF CloseNumber, CloseOrder
<1> QED
  BY <1>4, <1>5, <1>6, <1>7

\* The requests that are one statement.
LEMMA StatementServed ==
  ASSUME IInv, NoInternalError', NEW q \in Requests,
         \/ EditCustomer(q) \/ CreateVehicle(q) \/ CaptureConsent(q) \/ RevokeConsent(q)
         \/ ReadReception(q)
  PROVE  SerialStep
<1>1. pc[q] = "open"
  BY DEF EditCustomer, CreateVehicle, CaptureConsent, RevokeConsent, ReadReception, Doing
<1>2. PICK result : Finish(q, result)
  BY DEF EditCustomer, CreateVehicle, CaptureConsent, RevokeConsent, ReadReception, Answer
<1>3. CASE ReadReception(q)
  <2>1. outcome'[q] = "ok"
    BY <1>1, <1>3, FirstAnswer DEF ReadReception, Answer, NoInternalError
  <2> QED
    BY <1>1, <1>2, <1>3, <2>1, FirstAnswer
    DEF SerialStep, ServedAtOnce, AtOnce, ReadReception, Doing, Answer
<1> QED
  BY <1>1, <1>2, <1>3, FirstAnswer DEF SerialStep, ServedAtOnce, AtOnce

\* However the requests overlap, each answers and writes as if it had been
\* alone, at the moment of its answer.
THEOREM RequestsSerializable == Spec => Serializable
<1>1. IInv /\ NoInternalError' /\ [Next]_vars => [SerialStep]_vars
  <2> SUFFICES ASSUME IInv, NoInternalError', NEW q \in Requests, Begin(q) \/ Step(q)
               PROVE  SerialStep
    BY DEF Next
  <2>1. CASE Begin(q)
    BY <2>1 DEF Begin, SerialStep
  <2>2. CASE Step(q)
    BY <2>2, CreateServed, TransferServed, EditServed, CloseServed, StatementServed DEF Step
  <2> QED
    BY <2>1, <2>2
<1>2. IInv => NoInternalError
  BY DEF IInv, Answers
<1>3. Serializable <=> [][SerialStep]_vars
  BY DEF Serializable, SerialStep, ServedAtOnce
<1> QED
  BY <1>1, <1>2, <1>3, Invariance, PTL DEF Spec
-----------------------------------------------------------------------------
(* Who waits for whom.                                                       *)

\* The lock a request asks for next.
Wanted(q) ==
  LET o == op[q] IN
  IF pc[q] = "open" /\ o.op \in {"create", "transfer"} THEN {<<"vehicle", o.vehicle>>}
  ELSE IF pc[q] = "open" /\ o.op = "revoke" THEN {<<"consent", o.consent>>}
  ELSE IF pc[q] = "open" /\ o.op \in {"patch", "inspect", "close"}
    THEN {<<"reception", o.reception>>}
  ELSE IF pc[q] \in {"write", "vehicle"} THEN {<<"vehicle", receptions[o.reception].vehicle>>}
  ELSE IF pc[q] = "number" THEN {<<"number", None>>}
  ELSE {}

\* Receptions before vehicles, vehicles before consents and the order number:
\* the kinds of lock a request may hold where it waits for another.
MayHold(step) ==
  CASE step \in {"new", "open", "done"} -> {}
    [] step \in {"write", "vehicle"}    -> {"reception"}
    [] step = "consent"                 -> {"vehicle"}
    [] step = "number"                  -> {"reception", "vehicle"}
    [] OTHER -> {"reception", "vehicle", "consent", "number"}

LocksInOrder == \A q \in Requests : \A l \in holds[q] : l[1] \in MayHold(pc[q])

Begun == {q \in Requests : pc[q] \notin {"new", "done"}}
SomeoneIsServed == Begun # {} => \E q \in Begun : \A l \in Wanted(q) : Free(l, q)

LEMMA OrderKept ==
  ASSUME TypeOK, Shape, LocksInOrder, [Next]_vars
  PROVE  LocksInOrder'
<1>1. ASSUME NEW q \in Requests, NEW result, Finish(q, result) PROVE LocksInOrder'
  BY <1>1 DEF Finish, TypeOK, LocksInOrder, MayHold
<1>2. ASSUME NEW q \in Requests, NEW row, NEW next, Take(q, row, next),
             row[1] \in MayHold(next), MayHold(pc[q]) \subseteq MayHold(next)
      PROVE  LocksInOrder'
  BY <1>2 DEF Take, TypeOK, LocksInOrder
<1>3. ASSUME NEW q \in Requests, NEW next, pc' = [pc EXCEPT ![q] = next], holds' = holds,
             MayHold(pc[q]) \subseteq MayHold(next)
      PROVE  LocksInOrder'
  BY <1>3 DEF TypeOK, LocksInOrder
<1>4. ASSUME NEW q \in Requests, Begin(q) PROVE LocksInOrder'
  BY <1>3, <1>4 DEF Begin, MayHold
<1>5. ASSUME NEW q \in Requests, TransferLock(q) \/ CreateLock(q) PROVE LocksInOrder'
  <2>1. pc[q] = "open"
    BY <1>5 DEF TransferLock, CreateLock, Doing
  <2>2. \/ \E result : Finish(q, result)
        \/ Take(q, <<"vehicle", op[q].vehicle>>, "commit")
        \/ Take(q, <<"vehicle", op[q].vehicle>>, "consent")
    BY <1>5 DEF TransferLock, CreateLock, Answer
  <2> QED
    BY <1>1, <1>2, <2>1, <2>2 DEF MayHold
<1>6. ASSUME NEW q \in Requests, CreateConsent(q) \/ CreateInsert(q) PROVE LocksInOrder'
  <2>1. \/ \E result : Finish(q, result)
        \/ pc[q] = "consent" /\ Take(q, <<"consent", op[q].consent>>, "insert")
        \/ pc[q] = "insert" /\ pc' = [pc EXCEPT ![q] = "commit"] /\ holds' = holds
    BY <1>6 DEF CreateConsent, CreateInsert, Doing, Answer
  <2> QED
    BY <1>1, <1>2, <1>3, <2>1 DEF MayHold
<1>7. ASSUME NEW q \in Requests, EditLock(q) \/ CloseLock(q) PROVE LocksInOrder'
  <2>1. pc[q] = "open"
    BY <1>7 DEF EditLock, CloseLock, Doing
  <2>2. \/ \E result : Finish(q, result)
        \/ Take(q, <<"reception", op[q].reception>>, "write")
        \/ Take(q, <<"reception", op[q].reception>>, "vehicle")
    BY <1>7 DEF EditLock, CloseLock, Answer
  <2> QED
    BY <1>1, <1>2, <2>1, <2>2 DEF MayHold
<1>8. ASSUME NEW q \in Requests, CloseVehicle(q) \/ CloseNumber(q) \/ CloseOrder(q)
      PROVE  LocksInOrder'
  <2>1. \/ \E result : Finish(q, result)
        \/ pc[q] = "vehicle" /\ Take(q, <<"vehicle", receptions[op[q].reception].vehicle>>, "number")
        \/ pc[q] = "number" /\ Take(q, <<"number", None>>, "order")
        \/ pc[q] = "order" /\ pc' = [pc EXCEPT ![q] = "commit"] /\ holds' = holds
    BY <1>8 DEF CloseVehicle, CloseNumber, CloseOrder, Doing, Answer
  <2> QED
    BY <1>1, <1>2, <1>3, <2>1 DEF MayHold
<1>9. ASSUME NEW q \in Requests,
             \/ EditCustomer(q) \/ CreateVehicle(q) \/ TransferCommit(q) \/ CaptureConsent(q)
             \/ RevokeConsent(q) \/ CreateCommit(q) \/ EditWrite(q) \/ CloseCommit(q)
             \/ ReadReception(q)
      PROVE  LocksInOrder'
  <2>1. \E result : Finish(q, result)
    BY <1>9 DEF EditCustomer, CreateVehicle, TransferCommit, CaptureConsent, RevokeConsent,
        CreateCommit, EditWrite, CloseCommit, ReadReception, Answer
  <2> QED
    BY <1>1, <2>1
<1>10. CASE UNCHANGED vars
  BY <1>10 DEF vars, work, LocksInOrder
<1> QED
  BY <1>4, <1>5, <1>6, <1>7, <1>8, <1>9, <1>10 DEF Next, Step

\* The locks of one kind are free if no holder of such a lock waits.
LEMMA NoCircle ==
  ASSUME Shape, LocksInOrder
  PROVE  SomeoneIsServed
<1> SUFFICES ASSUME NEW c \in Begun,
                    \A q \in Begun : \E l \in Wanted(q) : ~Free(l, q)
             PROVE  FALSE
  BY DEF SomeoneIsServed
<1>1. ASSUME NEW p \in Requests, NEW l \in holds[p]
      PROVE  p \in Begun /\ \E w \in Wanted(p), s \in Requests : w \in holds[s]
  BY <1>1 DEF LocksInOrder, MayHold, Begun, Free
<1>2. \A q \in Requests : \A w \in Wanted(q) : w[1] \in {"vehicle", "consent", "reception", "number"}
  BY DEF Wanted
<1>3. ASSUME NEW p \in Requests, NEW l \in holds[p], l[1] \in {"number", "consent"} PROVE FALSE
  BY <1>1, <1>3 DEF LocksInOrder, MayHold, Wanted
<1>4. ASSUME NEW p \in Requests, NEW l \in holds[p], l[1] = "vehicle" PROVE FALSE
  <2>1. PICK w \in Wanted(p), s \in Requests : w \in holds[s]
    BY <1>1, <1>4
  <2>2. w[1] = "number"
    BY <1>4, <2>1 DEF LocksInOrder, MayHold, Wanted
  <2> QED
    BY <1>3, <2>1, <2>2
<1>5. ASSUME NEW p \in Requests, NEW l \in holds[p], l[1] = "reception" PROVE FALSE
  <2>1. PICK w \in Wanted(p), s \in Requests : w \in holds[s]
    BY <1>1, <1>5
  <2>2. w[1] \in {"vehicle", "number"}
    BY <1>5, <2>1 DEF LocksInOrder, MayHold, Wanted
  <2> QED
    BY <1>3, <1>4, <2>1, <2>2
<1>6. PICK w \in Wanted(c), s \in Requests : w \in holds[s]
  BY DEF Begun, Free
<1> QED
  BY <1>2, <1>3, <1>4, <1>5, <1>6 DEF Begun

\* However many requests there are, they do not wait for each other in a circle:
\* as long as one that has begun is unanswered, there is one that finds the lock
\* it asks for free (close.ts and the triggers lock the reception, its vehicle,
\* the order number; service.ts the vehicle, then the consent).
THEOREM NoCircleOfWaits == Spec => []SomeoneIsServed
<1>1. Init => LocksInOrder
  BY DEF Init, LocksInOrder
<1>2. IInv /\ LocksInOrder /\ [Next]_vars => LocksInOrder'
  BY OrderKept DEF IInv
<1>3. IInv /\ LocksInOrder => SomeoneIsServed
  BY NoCircle DEF IInv
<1> QED
  BY <1>1, <1>2, <1>3, Invariance, PTL DEF Spec
=============================================================================
