---------------------------- MODULE MCSpawnHealing ----------------------------
(***************************************************************************)
(* Instances of SpawnHealing for TLC.                                      *)
(***************************************************************************)
EXTENDS SpawnHealing

CONSTANT oneOwner

\* All workers belong to one playbook.
SameOwner == [w \in Workers |-> oneOwner]
===============================================================================
