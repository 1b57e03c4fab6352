------------------------------ MODULE MCOutbox ------------------------------
(* Small instances of Outbox for TLC: two jobs without faults, or one job    *)
(* with all of them.                                                         *)
EXTENDS Outbox, TLC

CONSTANT e1

VARIABLE alone   \* only e1 is ever published

MCInit ==
  /\ alone \in BOOLEAN
  /\ faults = IF alone THEN 0 ELSE MaxFaults
  /\ status = [e \in Events |-> "none"]
  /\ attempts = [e \in Events |-> 0]
  /\ wait = [e \in Events |-> 0]
  /\ age = [e \in Events |-> 0]
  /\ todo = [w \in Workers |-> {}]
  /\ cur = [w \in Workers |-> NoEvent]
  /\ pc = [w \in Workers |-> "idle"]
  /\ seen = [w \in Workers |-> 0]
  /\ retryable = [w \in Workers |-> FALSE]
  /\ claim = [w \in Workers |-> [e \in Events |-> 0]]
  /\ effects = [e \in Events |-> 0]
  /\ requeues = [e \in Events |-> 0]

MCNext ==
  /\ Next
  /\ alone => \A e \in Events \ {e1} : status'[e] = "none"
  /\ UNCHANGED alone

MCSpec == /\ MCInit /\ [][MCNext]_<<vars, alone>>
          /\ WF_vars(Tick) /\ \A w \in Workers : WF_vars(WorkerStep(w))
=============================================================================
