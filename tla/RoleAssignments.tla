---------------------------- MODULE RoleAssignments ----------------------------
(***************************************************************************)
(* The two action plugins with a run of their own: role_user_assignment    *)
(* and role_team_assignment (action/role_user_assignment.py,               *)
(* action/role_team_assignment.py and their mixins in plugin_utils/api/v1).*)
(* A task grants, revokes or looks for one role of one user or team, on a  *)
(* list of objects one after the other, or on one object.                  *)
(*                                                                         *)
(* Both turn the names of the user or team and of the role into ids twice: *)
(* once in the plugin (_resolve_fks_to_strings) and, where one is still a  *)
(* name, in the mixin of every request.  The user plugin fails without     *)
(* either id.  The team plugin goes on with the name, and the mixin leaves *)
(* that field out of the request if its look-up fails as well: the list of *)
(* grants is then filtered by what is left.  Objects are ids here.         *)
(***************************************************************************)
EXTENDS Naturals, Sequences

CONSTANTS
  Tasks,
  Users, Teams, Roles,  \* names that tasks give
  Unknown,       \* those of them that the gateway does not have
  Objects,
  Gone,          \* no grant: it was revoked
  Requests,      \* what each task asks for
  MaxGrants      \* bound: grants ever made

States == {"present", "absent", "exists"}

\* who is a user for the user plugin, a team for the team plugin; inList tells
\* object_ids or assignment_objects from object_id.
AllRequests ==
  LET Asks(inList, lists) == [who : Users \cup Teams, role : Roles, state : States,
                              inList : {inList}, objects : lists]
  IN  Asks(TRUE, Seq(Objects) \ {<<>>}) \cup Asks(FALSE, {<<o>> : o \in Objects})

Grant == [who : Users \cup Teams, role : Roles, object : Objects]

ASSUME GrantsAssumption ==
  /\ Users \cap Teams = {}
  /\ Roles \cap (Users \cup Teams) = {}
  /\ Gone \notin Grant
  /\ Requests \subseteq [Tasks -> AllRequests]
  /\ MaxGrants \in Nat

VARIABLES
  grants,    \* the gateway's grants, by id
  request,
  pc,        \* what each task does next
  at,        \* the object of its list it is at
  resolved,  \* the names that the plugin has turned into ids
  found,     \* id of the grant to delete
  seen,      \* assignments: it found or made some
  changed    \* all_changed

grantVars == <<grants, request, pc, at, resolved, found, seen, changed>>

Live == {i \in DOMAIN grants : grants[i] # Gone}
Object(t) == request[t].objects[at[t]]
ByUser(t) == request[t].who \in Users
Named(t) == {request[t].who, request[t].role}
Wanted(t) == [who |-> request[t].who, role |-> request[t].role, object |-> Object(t)]

Init ==
  /\ grants \in {<<>>} \cup {<<g>> : g \in {h \in Grant : {h.who, h.role} \cap Unknown = {}}}
  /\ request \in Requests
  /\ pc = [t \in Tasks |-> "begin"]
  /\ at = [t \in Tasks |-> 1]
  /\ resolved = [t \in Tasks |-> {}]
  /\ found = [t \in Tasks |-> 0]
  /\ seen = [t \in Tasks |-> FALSE]
  /\ changed = [t \in Tasks |-> FALSE]

GoTo(t, from, to) ==
  /\ pc[t] = from
  /\ pc' = [pc EXCEPT ![t] = to]

\* Mutant: the mixin resolves the names again, and drops them, every time.
CarriesAgain(t) == SUBSET (Named(t) \ Unknown)

\* Which of the names a request to the gateway can carry: those with an id, and
\* of the others those that the mixin finds.
Carries(t) ==
  {names \in SUBSET Named(t) :
     resolved[t] \subseteq names /\ names \subseteq resolved[t] \cup (Named(t) \ Unknown)}

\* Mutant: the filter never names the role.
MatchesAnyRole(t, names) ==
  {i \in Live :
     /\ grants[i].object = Object(t)
     /\ grants[i].who \in IF request[t].who \in names THEN {request[t].who} ELSE Teams}

\* The grants that a list filtered by these names returns; without the team, all
\* teams', without the role, of all roles.
Matches(t, names) ==
  {i \in Live :
     /\ grants[i].object = Object(t)
     /\ grants[i].who \in IF request[t].who \in names THEN {request[t].who} ELSE Teams
     /\ request[t].role \in names => grants[i].role = request[t].role}

\* Mutant: one step past the end of the list.
AdvancePastEnd(t, from, sees) ==
  /\ seen' = [seen EXCEPT ![t] = @ \/ sees]
  /\ IF at[t] > Len(request[t].objects)
     THEN GoTo(t, from, "ok") /\ UNCHANGED at
     ELSE GoTo(t, from, "find") /\ at' = [at EXCEPT ![t] = @ + 1]

\* On to the next object, or to the result; a list in which nothing exists fails.
Advance(t, from, sees) ==
  /\ seen' = [seen EXCEPT ![t] = @ \/ sees]
  /\ IF at[t] = Len(request[t].objects)
     THEN /\ GoTo(t, from, IF request[t].state = "exists" /\ ~seen'[t] THEN "failed" ELSE "ok")
          /\ UNCHANGED at
     ELSE GoTo(t, from, "find") /\ at' = [at EXCEPT ![t] = @ + 1]

\* A look-up finds no unknown name, and any look-up may fail.
Resolve(t) ==
  /\ \E got \in SUBSET (Named(t) \ Unknown) :
       \/ /\ ByUser(t) /\ got # Named(t)
          /\ GoTo(t, "begin", "failed") /\ UNCHANGED resolved
       \/ /\ ByUser(t) => got = Named(t)
          /\ GoTo(t, "begin", "find") /\ resolved' = [resolved EXCEPT ![t] = got]
  /\ UNCHANGED <<grants, request, at, found, seen, changed>>

\* The first of the grants found is taken for the one asked for.
Find(t) ==
  /\ pc[t] = "find"
  /\ \E names \in Carries(t) : \E i \in Matches(t, names) :
       IF request[t].state = "absent"
       THEN /\ GoTo(t, "find", "delete")
            /\ found' = [found EXCEPT ![t] = i]
            /\ UNCHANGED <<at, seen>>
       ELSE Advance(t, "find", TRUE) /\ UNCHANGED found
  /\ UNCHANGED <<grants, request, resolved, changed>>

\* Mutant: the user plugin swallows a failed find as the team plugin does.
FindRaisesSwallowed(t) ==
  /\ \/ request[t].state = "present" /\ GoTo(t, "find", "create") /\ UNCHANGED <<at, seen>>
     \/ request[t].state = "absent" /\ Advance(t, "find", FALSE)
     \/ request[t].state = "exists" /\ Advance(t, "find", FALSE)
  /\ UNCHANGED <<grants, request, resolved, found, changed>>

\* Nothing was found, or the request failed; the plugins do not tell the two
\* apart, and each state and path makes something else of them.
FindRaises(t) ==
  /\ \/ request[t].state = "present" /\ GoTo(t, "find", "create") /\ UNCHANGED <<at, seen>>
     \/ /\ request[t].state = "absent" /\ ByUser(t) /\ request[t].inList
        /\ GoTo(t, "find", "failed") /\ UNCHANGED <<at, seen>>
     \/ request[t].state = "absent" /\ ~(ByUser(t) /\ request[t].inList) /\ Advance(t, "find", FALSE)
     \/ request[t].state = "exists" /\ Advance(t, "find", FALSE)
  /\ UNCHANGED <<grants, request, resolved, found, changed>>

\* The gateway makes a grant if the request carries both names, and it is not
\* there yet; the answer may be lost.
Create(t) ==
  /\ pc[t] = "create"
  /\ Named(t) \in Carries(t)
  /\ Matches(t, Named(t)) = {}
  /\ Len(grants) < MaxGrants
  /\ grants' = Append(grants, Wanted(t))
  /\ \/ Advance(t, "create", TRUE) /\ changed' = [changed EXCEPT ![t] = TRUE]
     \/ GoTo(t, "create", "failed") /\ UNCHANGED <<at, seen, changed>>
  /\ UNCHANGED <<request, resolved, found>>

\* Mutant: a create that fails is passed over.
CreateFailsUnnoticed(t) ==
  /\ Advance(t, "create", FALSE)
  /\ UNCHANGED <<grants, request, resolved, found, changed>>

CreateFails(t) ==
  /\ GoTo(t, "create", "failed")
  /\ UNCHANGED <<grants, request, at, resolved, found, seen, changed>>

\* The team plugin swallows a failed delete in a list.
DeleteRaises(t) ==
  IF ByUser(t) \/ ~request[t].inList
  THEN GoTo(t, "delete", "failed") /\ UNCHANGED <<at, seen>>
  ELSE Advance(t, "delete", FALSE)

\* Mutant: a delete is not counted as a change.
DeleteUnreported(t) ==
  /\ pc[t] = "delete" /\ found[t] \in Live
  /\ grants' = [grants EXCEPT ![found[t]] = Gone]
  /\ Advance(t, "delete", FALSE)
  /\ UNCHANGED <<request, resolved, found, changed>>

\* The grant is deleted; the answer may be lost.
Delete(t) ==
  /\ pc[t] = "delete" /\ found[t] \in Live
  /\ grants' = [grants EXCEPT ![found[t]] = Gone]
  /\ \/ Advance(t, "delete", FALSE) /\ changed' = [changed EXCEPT ![t] = TRUE]
     \/ DeleteRaises(t) /\ UNCHANGED changed
  /\ UNCHANGED <<request, resolved, found>>

DeleteFails(t) ==
  /\ pc[t] = "delete"
  /\ DeleteRaises(t)
  /\ UNCHANGED <<grants, request, resolved, found, changed>>

Step(t) ==
  \/ Resolve(t)
  \/ Find(t) \/ FindRaises(t)
  \/ Create(t) \/ CreateFails(t)
  \/ Delete(t) \/ DeleteFails(t)

Next == \E t \in Tasks : Step(t)

Spec == Init /\ [][Next]_grantVars
===============================================================================
