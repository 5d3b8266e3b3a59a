---------------------------- MODULE MCTaskPromises ----------------------------
(***************************************************************************)
(* Instances of TaskPromises for TLC.                                      *)
(***************************************************************************)
EXTENDS TaskPromises, TLC

\* Check mode is of interest only where a task would write, and renames only
\* in present tasks.
EveryKind ==
  {r \in AllRequests :
     /\ r.checkMode => r.state # "exists" /\ r.newName = Unset
     /\ r.newName # Unset => r.state = "present"
     /\ r.state \in {"absent", "exists"} => r.description = Unset}

Symmetry == Permutations(Tasks) \cup Permutations(Names)
===============================================================================
