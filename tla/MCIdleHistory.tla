----------------------------- MODULE MCIdleHistory -----------------------------
(***************************************************************************)
(* Instances of IdleHistory for TLC.                                       *)
(***************************************************************************)
EXTENDS IdleHistory, TLC

Symmetry == Permutations(Calls)
===============================================================================
