--------------------------- MODULE MCApprovalGate ---------------------------
(* ApprovalGate with a request for a secret, a question and an offer. *)
EXTENDS ApprovalGate

CONSTANTS a1, q1, c1, d1, none
=============================================================================
