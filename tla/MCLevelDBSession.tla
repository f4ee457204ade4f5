-------------------------- MODULE MCLevelDBSession --------------------------
(***************************************************************************)
(* A small instance of LevelDBSession.                                     *)
(***************************************************************************)
EXTENDS LevelDBSession, TLC

CONSTANTS k1, k2, x, y

Symmetry == Permutations({k1, k2}) \cup Permutations({x, y})

=============================================================================
