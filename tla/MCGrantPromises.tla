---------------------------- MODULE MCGrantPromises ----------------------------
(***************************************************************************)
(* Instances of GrantPromises for TLC.                                     *)
(***************************************************************************)
EXTENDS GrantPromises, TLC

\* A list of two objects or a single one, in every state.
SomeRequests ==
  LET Asks(inList, lists) == [who : Users \cup Teams, role : Roles, state : States,
                              inList : {inList}, objects : lists]
  IN  [Tasks -> Asks(TRUE, {oo \in Objects \X Objects : oo[1] # oo[2]})
                  \cup Asks(FALSE, {<<o>> : o \in Objects})]

Symmetry == Permutations(Tasks) \cup Permutations(Objects) \cup Permutations(Roles)
===============================================================================
