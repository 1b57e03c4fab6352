------------------------ MODULE MCInvitationDelivery ------------------------
(* Small instances of InvitationDelivery for TLC. *)
EXTENDS InvitationDelivery, TLC

Symmetry == Permutations(Workers)
=============================================================================
