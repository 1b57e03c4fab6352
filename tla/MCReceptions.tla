---------------------------- MODULE MCReceptions ----------------------------
(* Three requests at once, in a workshop where c1 owns v1 and v2, has consented *)
(* by s1 and, where busy, has brought both vehicles by s2 and s3.               *)
EXTENDS Receptions, TLC

CONSTANTS c1, c2, v1, v2, v3, s1, s2, s3, q1, q2, q3

Brought(v) == [op |-> "create", vehicle |-> v, customer |-> c1, consent |-> s1, mileage |-> 1]
Setup == s1 :> [op |-> "capture", customer |-> c1, purpose |-> "service_provision"]
      @@ s2 :> Brought(v1) @@ s3 :> Brought(v2)

Intake ==
  [op : {"create"}, vehicle : {v1}, customer : {c1}, consent : {s1, q1}, mileage : {1}]
  \cup [op : {"transfer"}, vehicle : {v1}, customer : {c2}]
  \cup [op : {"revoke"}, consent : {s1}]
  \cup [op : {"capture"}, customer : {c1}, purpose : Purposes]
Visits ==
  [op : {"patch"}, reception : {s2}, mileage : Mileages]
  \cup [op : {"inspect"}, reception : {s2}, missing : BOOLEAN]
  \cup [op : {"close"}, reception : {s2, s3}] \cup [op : {"read"}, reception : {s2}]
  \cup [op : {"create"}, vehicle : {v1}, customer : {c1}, consent : {s1}, mileage : {0, 2}]
Returns ==
  {q1 :> [op |-> "close", reception |-> s2]
   @@ q2 :> [op |-> "create", vehicle |-> v1, customer |-> c1, consent |-> s1, mileage |-> 2]
   @@ q3 :> [op |-> "patch", reception |-> q2, mileage |-> m] : m \in Mileages}
  \cup
  {q1 :> [op |-> "close", reception |-> s2]
   @@ q2 :> [op |-> "create", vehicle |-> v1, customer |-> c1, consent |-> s1, mileage |-> m]
   @@ q3 :> [op |-> "close", reception |-> q2] : m \in {0, 2}}
Papers == [op : {"edit"}, customer : {c1}, docType : Edits, docNumber : Edits]
Plates == [op : {"newVehicle"}, vehicle : {v3}, customer : {c1, c2}]
          \cup [op : {"transfer"}, vehicle : {v1}, customer : {c1, c2}]

\* The requests are interchangeable: their kinds come in this order.
Rank(o) == CHOOSE i \in 1 .. 10 :
  o.op = <<"capture", "newVehicle", "transfer", "revoke", "edit", "create", "patch",
           "inspect", "close", "read">>[i]
Mix(S) == {f \in [{q1, q2, q3} -> S] : Rank(f[q1]) <= Rank(f[q2]) /\ Rank(f[q2]) <= Rank(f[q3])}

Loads(busy) == IF busy THEN Mix(Visits) \cup Returns
               ELSE Mix(Intake) \cup Mix(Plates) \cup {f \in Mix(Papers) : f[q3].docType = "keep"}

Seeds == {s1, s2, s3}
Row(q) == [vehicle |-> Setup[q].vehicle, customer |-> c1, consent |-> s1, mileage |-> 1,
           status |-> "open", version |-> started[q], created |-> started[q], items |-> 0]

MCInit ==
  /\ clock = 6
  /\ started = s1 :> 3 @@ s2 :> 4 @@ s3 :> 5 @@ [q \in Requests |-> 0]
  /\ pc = [q \in Requests |-> IF q \in Seeds THEN "done" ELSE "new"]
  /\ seen = [q \in Requests |-> 0] /\ drawn = [q \in Requests |-> 0]
  /\ holds = [q \in Requests |-> {}]
  /\ customers = [x \in Customers |-> [docType |-> FALSE, docNumber |-> FALSE, version |-> 1]]
  /\ owners = [v \in Vehicles |->
       IF v = v3 THEN <<>>
       ELSE <<[customer |-> c1, from |-> IF v = v1 THEN 1 ELSE 2, to |-> 0]>>]
  /\ mileage = [v \in Vehicles |-> None] /\ orders = {}
  /\ consents = [q \in Requests |-> IF q # s1 THEN None
       ELSE [customer |-> c1, purpose |-> "service_provision", status |-> "granted", created |-> 3]]
  /\ \E busy \in BOOLEAN :
       /\ receptions = [q \in Requests |-> IF busy /\ q \in {s2, s3} THEN Row(q) ELSE None]
       /\ outcome = [q \in Requests |-> IF q \notin Seeds THEN "none"
                                       ELSE IF ~busy /\ q # s1 THEN "refused" ELSE "ok"]
       /\ \E load \in Loads(busy) :
            op = load @@ (IF busy THEN Setup
                          ELSE [Setup EXCEPT ![s2].customer = c2, ![s3].customer = c2])

\* The requests already answered need no fairness.
MCSpec == MCInit /\ [][Next]_vars /\ \A q \in {q1, q2, q3} : WF_vars(Step(q))
=============================================================================
