---------------------------- MODULE MCManagerSpawn ----------------------------
(***************************************************************************)
(* Instances of ManagerSpawn for TLC.                                      *)
(***************************************************************************)
EXTENDS ManagerSpawn, TLC

CONSTANT oneOwner

\* All workers belong to one playbook.
SameOwner == [w \in Workers |-> oneOwner]

\* Workers of one playbook are interchangeable, and so are managers.
Symmetry == Permutations(Workers) \cup Permutations(Managers)
===============================================================================
