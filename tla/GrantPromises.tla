----------------------------- MODULE GrantPromises -----------------------------
(***************************************************************************)
(* RoleAssignments with history variables: on which objects of a task its  *)
(* user or team had, and lacked, its role at some moment while the task    *)
(* ran, and whether the task wrote.  They state what the module promises   *)
(* for each state with other tasks at work and requests that fail.         *)
(***************************************************************************)
EXTENDS RoleAssignments

VARIABLES
  had,     \* the objects on which its user or team had the role
  lacked,  \* the objects on which it did not
  wrote    \* the task changed the gateway

promiseVars == <<grantVars, had, lacked, wrote>>

Asked(t) == {request[t].objects[k] : k \in DOMAIN request[t].objects}
Has(t, o) == \E i \in Live : grants[i] = [Wanted(t) EXCEPT !.object = o]
Knows(t) == resolved[t] = Named(t)

Running(t) == pc[t] \notin {"begin", "ok", "failed"}

PromisesInit ==
  /\ Init
  /\ had = [t \in Tasks |-> {}]
  /\ lacked = [t \in Tasks |-> {}]
  /\ wrote = [t \in Tasks |-> FALSE]

PromisesStep(t) ==
  /\ Step(t)
  /\ had' = [u \in Tasks |->
               IF u = t \/ Running(u) THEN had[u] \cup {o \in Asked(u) : Has(u, o)'} ELSE had[u]]
  /\ lacked' = [u \in Tasks |->
                  IF u = t \/ Running(u) THEN lacked[u] \cup {o \in Asked(u) : ~Has(u, o)'} ELSE lacked[u]]
  /\ wrote' = [wrote EXCEPT ![t] = @ \/ grants' # grants]

PromisesNext == \E t \in Tasks : PromisesStep(t)

PromisesSpec == PromisesInit /\ [][PromisesNext]_promiseVars

------------------------------------------------------------------------------
(* Properties. *)

\* Every variable stays within its type.
TypeOK ==
  /\ grants \in Seq(Grant \cup {Gone})
  /\ request \in [Tasks -> AllRequests]
  /\ pc \in [Tasks -> {"begin", "find", "create", "delete", "ok", "failed"}]
  /\ at \in [Tasks -> Nat]
  /\ \A t \in Tasks : at[t] \in 1..Len(request[t].objects)
  /\ resolved \in [Tasks -> SUBSET (Users \cup Teams \cup Roles)]
  /\ found \in [Tasks -> Nat]
  /\ seen \in [Tasks -> BOOLEAN]
  /\ changed \in [Tasks -> BOOLEAN]
  /\ had \in [Tasks -> SUBSET Objects]
  /\ lacked \in [Tasks -> SUBSET Objects]
  /\ wrote \in [Tasks -> BOOLEAN]

\* The task is done with the k-th object of its list.
DoneWith(t, k) == k < at[t] \/ (k = at[t] /\ pc[t] = "ok")

\* Whatever else fails, and also when the task fails at a later object: every
\* object that a present task is done with had the very role, granted to the very
\* user or team, at some moment while it ran (role_user_assignment.py:90-126,
\* role_team_assignment.py:104-131) - if the plugin got the ids of both: a team's
\* task that did not may take any grant on the object for its own.
PresentWasGranted ==
  \A t \in Tasks : Knows(t) /\ request[t].state = "present" =>
    \A k \in DOMAIN request[t].objects : DoneWith(t, k) => request[t].objects[k] \in had[t]

\* A user's list of objects to revoke: every object the task is done with was
\* without the grant at some moment (role_user_assignment.py:128-156).  The
\* other paths report success also if nothing could be found out or deleted.
AbsentWasRevoked ==
  \A t \in Tasks : ByUser(t) /\ request[t].inList /\ request[t].state = "absent" =>
    \A k \in DOMAIN request[t].objects : DoneWith(t, k) => request[t].objects[k] \in lacked[t]

\* The plugin's ids are never lost on the way to the request: though a task
\* deletes by an id it found earlier, the grant is on the object it is at, and is
\* the team's, if the plugin knows the team, and of the role, if it knows the
\* role (role_user_assignment.py:129-143, api/v1/role_team_assignment.py:62-74).
KnownRevokesOnlyItsOwn ==
  [][\A t \in Tasks : Delete(t) =>
       LET g == grants[found[t]]
       IN  /\ g.object = Object(t)
           /\ request[t].who \in resolved[t] => g.who = request[t].who
           /\ request[t].role \in resolved[t] => g.role = request[t].role]_promiseVars

\* changed is never reported without a write; and a write is always reported,
\* but for a team's list, where the answer to a delete may be lost and swallowed
\* (role_team_assignment.py:133-147).
ChangedIsTrue ==
  \A t \in Tasks : pc[t] = "ok" =>
    /\ changed[t] => wrote[t]
    /\ wrote[t] => changed[t] \/ (~ByUser(t) /\ request[t].inList /\ request[t].state = "absent")

\* A task that knows its role and its user or team, finds everything in place
\* and is undone by nobody while it runs, writes nothing, whichever of its other
\* requests fail.
SecondRunWritesNothing ==
  \A t \in Tasks : Knows(t) /\ pc[t] \in {"ok", "failed"} =>
    /\ request[t].state = "present" /\ lacked[t] = {} => ~wrote[t]
    /\ request[t].state = "absent" /\ had[t] = {} => ~wrote[t]

\* A task revokes only the grant it was asked to, of its role to its user or team
\* (modules/role_team_assignment.py:104, "removes the assignment if it exists").
RevokesOnlyItsOwn ==
  [][\A t \in Tasks : Delete(t) => grants[found[t]] = Wanted(t)]_promiseVars
===============================================================================
