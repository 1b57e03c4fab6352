----------------------------- MODULE JobContract -----------------------------
(***************************************************************************)
(* What the outbox promises to whoever publishes a job: a published job    *)
(* stays open until it is processed or given up, is closed once and for    *)
(* all, and is processed only together with the effects of its handler.    *)
(* The effects themselves are at-least-once: a run whose claim was taken   *)
(* back as stalled may commit at any time, even after the job is closed.   *)
(***************************************************************************)
EXTENDS Naturals

CONSTANT Events

VARIABLES
  phase,    \* "none", "open" or how the job was closed
  effects   \* committed runs of the job's handler

vars == <<phase, effects>>

Init ==
  /\ phase = [e \in Events |-> "none"]
  /\ effects = [e \in Events |-> 0]

Accept(e) ==
  /\ phase[e] = "none"
  /\ phase' = [phase EXCEPT ![e] = "open"]
  /\ UNCHANGED effects

Run(e) ==
  /\ phase[e] # "none"
  /\ effects' = [effects EXCEPT ![e] = @ + 1]
  /\ UNCHANGED phase

Process(e) ==
  /\ phase[e] = "open"
  /\ phase' = [phase EXCEPT ![e] = "processed"]
  /\ effects' = [effects EXCEPT ![e] = @ + 1]

GiveUp(e) ==
  /\ phase[e] = "open"
  /\ \E reason \in {"failed", "dead_letter"} : phase' = [phase EXCEPT ![e] = reason]
  /\ UNCHANGED effects

Next == \E e \in Events : Accept(e) \/ Run(e) \/ Process(e) \/ GiveUp(e)

Spec == Init /\ [][Next]_vars
=============================================================================
