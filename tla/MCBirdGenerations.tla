------------------------- MODULE MCBirdGenerations -------------------------
(***************************************************************************)
(* Instances of BirdGenerations for TLC.                                   *)
(***************************************************************************)
EXTENDS BirdGenerations, TLC

CallSymmetry == Permutations(Calls)
=============================================================================
