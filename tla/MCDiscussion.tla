---------------------------- MODULE MCDiscussion ----------------------------
(* Discussion: two requests to start and two messages. *)
EXTENDS Discussion, TLC

CONSTANTS d1, d2, m1, m2
=============================================================================
