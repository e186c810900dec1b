--------------------------- MODULE MCRunDeadline ---------------------------
(* RunDeadline: two cards beside the question and the request for more time. *)
EXTENDS RunDeadline, TLC

CONSTANTS k1, k2
=============================================================================
