------------------------ MODULE MCGlobalHttpHandler ------------------------
(***************************************************************************)
(* Small instances of GlobalHttpHandler.                                   *)
(***************************************************************************)
EXTENDS GlobalHttpHandler, TLC

CONSTANTS t1, t2, k1

ThreadSymmetry == Permutations({t1, t2})

=============================================================================
