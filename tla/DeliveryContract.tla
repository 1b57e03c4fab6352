-------------------------- MODULE DeliveryContract --------------------------
(***************************************************************************)
(* What the delivery of an invitation's email promises to the members who  *)
(* end the invitation and to those who read the audit.                     *)
(*                                                                         *)
(* One request to the provider is in flight at a time, and only while the  *)
(* invitation is pending and valid: it is not ended, and its validity does *)
(* not run out, before the request has been answered or given up.  Sending *)
(* is at-least-once, an answer may be lost, but an acceptance is recorded  *)
(* once and only if there was one, whatever has become of the invitation   *)
(* by then.  A delivery is written off only if the invitation has ended or *)
(* what is left of its validity is shorter than a lease.                   *)
(***************************************************************************)
EXTENDS Naturals

VARIABLES
  status,     \* of the invitation
  validity,   \* "open", "closing" (shorter than a lease) or "over"
  sending,    \* a request is in flight
  accepted,   \* the provider has accepted an email
  recorded,   \* the invitation says that its email was sent
  audits,     \* how often the audit says so
  skipped     \* the ways the delivery was written off

vars == <<status, validity, sending, accepted, recorded, audits, skipped>>

Init ==
  /\ status = "pending"
  /\ validity \in {"open", "closing", "over"}
  /\ sending = FALSE /\ accepted = FALSE
  /\ recorded = FALSE /\ audits = 0 /\ skipped = {}

Elapse ==
  /\ \/ validity = "open" /\ validity' = "closing"
     \/ validity = "closing" /\ ~sending /\ validity' = "over"
  /\ UNCHANGED <<status, sending, accepted, recorded, audits, skipped>>

End ==
  /\ status = "pending" /\ ~sending
  /\ \/ status' \in {"accepted", "revoked"}
     \/ status' = "expired" /\ validity = "over"
  /\ UNCHANGED <<validity, sending, accepted, recorded, audits, skipped>>

Send ==
  /\ status = "pending" /\ validity # "over" /\ ~sending
  /\ sending' = TRUE
  /\ UNCHANGED <<status, validity, accepted, recorded, audits, skipped>>

Answer ==
  /\ sending
  /\ sending' = FALSE
  /\ accepted' \in {accepted, TRUE}
  /\ UNCHANGED <<status, validity, recorded, audits, skipped>>

Record ==
  /\ accepted /\ ~recorded
  /\ recorded' = TRUE /\ audits' = audits + 1
  /\ UNCHANGED <<status, validity, sending, accepted, skipped>>

WriteOff ==
  /\ status # "pending" \/ validity # "open"
  /\ \E unconfirmed \in BOOLEAN : skipped' = skipped \cup {unconfirmed}
  /\ UNCHANGED <<status, validity, sending, accepted, recorded, audits>>

Next == Elapse \/ End \/ Send \/ Answer \/ Record \/ WriteOff

Spec == Init /\ [][Next]_vars
=============================================================================
