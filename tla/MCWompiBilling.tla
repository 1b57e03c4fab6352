--------------------------- MODULE MCWompiBilling ---------------------------
(* Small instances of WompiBilling for TLC: one payment with all faults, or  *)
(* two payments of one subscription, which are charged and wait for their    *)
(* webhooks, whose jobs get one attempt and no fault.                        *)
EXTENDS WompiBilling

CONSTANT p1

VARIABLE alone   \* only p1 is charged

MCInit ==
  /\ alone \in BOOLEAN
  /\ ledger = [p \in Payments |-> IF alone THEN "none" ELSE "pending"]
  /\ told = [p \in Payments |-> IF alone THEN {} ELSE {"pending"}]
  /\ posted = {}
  /\ status = [p \in Payments |-> "pending"]
  /\ known = [p \in Payments |-> ~alone]
  /\ paid = [p \in Payments |-> FALSE]
  /\ recorded = [p \in Payments |-> {}]
  /\ sub \in Initially /\ (alone => sub = "past_due")
  /\ undone = {}
  /\ job = [j \in Jobs |-> CASE j.status # "charge" \/ (alone /\ j.payment # p1) -> "none"
                             [] j.status = "charge" /\ alone /\ j.payment = p1 -> "open"
                             [] j.status = "charge" /\ ~alone -> "processed"]
  /\ attempts = [j \in Jobs |-> IF alone THEN 0 ELSE MaxAttempts - 1]
  /\ pc = [w \in Workers |-> "idle"]
  /\ cur = [w \in Workers |-> NoJob]
  /\ seen = [w \in Workers |-> 0]
  /\ answer = [w \in Workers |-> "pending"]
  /\ faults = IF alone THEN 0 ELSE MaxFaults

MCNext ==
  /\ Next
  /\ ~alone => \A p \in Payments : "voided" \notin told'[p]
  /\ UNCHANGED alone

\* Workers keep running, and Wompi repeats a webhook until it is acknowledged,
\* which here means: until one body that reports the status is stored.
MCSpec ==
  /\ MCInit /\ [][MCNext]_<<vars, alone>>
  /\ \A w \in Workers : WF_vars(Work(w))
  /\ \A s \in {"pending"} \cup Outcomes :
       WF_vars(\E c \in Copies : Ingest([payment |-> p1, status |-> s, copy |-> c]))

\* However its creation came to be known or not, the transaction of a payment is
\* eventually linked to it, and an approved one marks it as paid, as long as
\* faults do not use up the attempts of a job (and no other payment's webhooks
\* deadlock with its own until they have).
EventuallyKnown ==
  /\ alone /\ ledger[p1] # "none" ~> known[p1]
  /\ alone /\ "approved" \in told[p1] ~> paid[p1]
=============================================================================
