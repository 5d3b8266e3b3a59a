-------------------------- MODULE MCEphemeralHistory --------------------------
(***************************************************************************)
(* Instances of EphemeralHistory for TLC: a task and a look-up of one      *)
(* playbook that compute the same path.                                    *)
(***************************************************************************)
EXTENDS EphemeralHistory

CONSTANT o1

OnePlaybook == [w \in Callers |-> o1]
===============================================================================
