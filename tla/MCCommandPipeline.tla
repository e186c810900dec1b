------------------------- MODULE MCCommandPipeline -------------------------
(* CommandPipeline: two attempts of one task and one of another. *)
EXTENDS CommandPipeline, TLC

CONSTANTS c1, c2, c3, c4, a1, a2, b1, ta, tb

MCOwnerOf == c1 :> a1 @@ c2 :> a2 @@ c3 :> b1 @@ c4 :> a1
MCTaskOf  == a1 :> ta @@ a2 :> ta @@ b1 :> tb
=============================================================================
