--------------------------- MODULE MCRunAttempts ---------------------------
(* RunAttempts: a run that may overlap the next, a ladder and a fallback. *)
EXTENDS RunAttempts, TLC

CONSTANTS r1, r2

MCChain == <<"primary", "rung", "fallback">>
MCSymmetry == Permutations(Runs)
=============================================================================
