----------------------------- MODULE ResourceTask -----------------------------
(***************************************************************************)
(* Tasks that manage one kind of resource, the organization, on a gateway  *)
(* they share: the state machine of BaseResourceActionPlugin.run           *)
(* (action/base_action.py) with the RPC handlers it calls - find, create,  *)
(* update, delete in platform_manager.py - and the field mapping of        *)
(* api/v1/organization.py.  Tasks run at once when several hosts or        *)
(* playbooks manage the same gateway.                                      *)
(*                                                                         *)
(* Each HTTP request is one step; between two requests a task works on     *)
(* what it has read.  Any request may fail, and a write may take effect    *)
(* and its answer be lost.  Names that are numbers, which look up by       *)
(* primary key, are left out.                                              *)
(***************************************************************************)
EXTENDS Naturals, Sequences

CONSTANTS
  Tasks,
  Names,      \* names of organizations
  Texts,      \* descriptions
  Blank,      \* the description of an organization that was given none
  Numerals,   \* the descriptions that str.isdigit accepts
  Unset,      \* an option that is not given (None)
  Gone,       \* no organization
  Requests,   \* the options that tasks have
  MaxOrgs     \* organizations the gateway ever creates

Org == [name : Names, description : Texts]
Ids == 1..MaxOrgs
NoId == 0

AllRequests ==
  {r \in [name : Names, newName : Names \cup {Unset},
          description : Texts \cup {Unset},
          state : {"present", "absent", "exists", "enforced"},
          checkMode : BOOLEAN] : r.newName # r.name}

ASSUME ResourceAssumption ==
  /\ Blank \in Texts
  /\ Numerals \subseteq Texts
  /\ Unset \notin Names \cup Texts
  /\ Gone \notin Org
  /\ Requests \subseteq AllRequests
  /\ MaxOrgs \in Nat

VARIABLES
  orgs,      \* the gateway: organizations in the order of their ids
  pc,        \* the next request of each task
  request,   \* its options
  target,    \* resource.id
  current,   \* current_data, what _update_resource read; Gone: nothing
  result     \* what the task reports

resourceVars == <<orgs, pc, request, target, current, result>>

Unchanged == [failed |-> FALSE, changed |-> FALSE, exists |-> FALSE]
Changed == [Unchanged EXCEPT !.changed = TRUE]
Exists == [Unchanged EXCEPT !.exists = TRUE]
Failed == [Unchanged EXCEPT !.failed = TRUE]

Live(gateway) == {i \in DOMAIN gateway : gateway[i] # Gone}
Under(n) == {i \in Live(orgs) : orgs[i].name = n}

Init ==
  /\ orgs \in {<<>>} \cup {<<o>> : o \in Org}
  /\ pc = [t \in Tasks |-> "idle"]
  /\ request \in [Tasks -> Requests]
  /\ target = [t \in Tasks |-> NoId]
  /\ current = [t \in Tasks |-> Gone]
  /\ result = [t \in Tasks |-> Unchanged]

Begin(t) ==
  /\ pc[t] = "idle"
  /\ pc' = [pc EXCEPT ![t] = "find"]
  /\ UNCHANGED <<orgs, request, target, current, result>>

Finish(t, r) ==
  /\ pc' = [pc EXCEPT ![t] = "done"]
  /\ result' = [result EXCEPT ![t] = r]
  /\ UNCHANGED target

\* Check mode reports the change instead of making it.
Proceed(t, step, id) ==
  IF request[t].checkMode THEN Finish(t, Changed)
  ELSE /\ pc' = [pc EXCEPT ![t] = step]
       /\ target' = [target EXCEPT ![t] = id]
       /\ UNCHANGED result

\* A description that is no number is never compared with one that is: the
\* comparison takes the number for the id behind a name.
Differs(desired, actual) ==
  desired # actual /\ ~(desired \notin Numerals /\ actual \in Numerals)

\* Mutant: an option that is not given counts as different.
ShouldUpdateOmitted(r, org) ==
  r.newName # Unset \/ Differs(r.description, org.description)

\* Mutant: new_name is one of the directives that are not compared.
ShouldUpdateNoRename(r, org) ==
  r.description # Unset /\ Differs(r.description, org.description)

\* _should_update: options that are not given are not compared.
ShouldUpdate(r, org) ==
  \/ r.newName # Unset
  \/ r.description # Unset /\ Differs(r.description, org.description)

------------------------------------------------------------------------------
(* Find, and what run makes of it. *)

\* An enforced task that has something to change fails: the lookup field has
\* no default and so is not an attribute of the model class, and the model is
\* built without it.
Found(t, i) ==
  LET r == request[t]
      stale == ShouldUpdate(r, orgs[i])
  IN  \/ r.state = "exists" /\ Finish(t, Exists)
      \/ r.state = "absent" /\ Proceed(t, "delete", i)
      \/ r.state \in {"present", "enforced"} /\ ~stale /\ Finish(t, Unchanged)
      \/ r.state = "present" /\ stale /\ Proceed(t, "reread", i)
      \/ r.state = "enforced" /\ stale /\ Finish(t, Failed)

NotFound(t) ==
  \/ request[t].state \in {"exists", "absent"} /\ Finish(t, Unchanged)
  \/ request[t].state \in {"present", "enforced"} /\ Proceed(t, "create", NoId)

FindAnswers(t) ==
  /\ pc[t] = "find"
  /\ \/ Under(request[t].name) = {} /\ NotFound(t)
     \/ \E i \in Under(request[t].name) : Found(t, i)
  /\ UNCHANGED <<orgs, request, current>>

\* Every failure is taken for "not found"; by enforced tasks only a ValueError,
\* such as an answer that is no JSON.
FindFails(t) ==
  /\ pc[t] = "find"
  /\ \/ NotFound(t)
     \/ request[t].state = "enforced" /\ Finish(t, Failed)
  /\ UNCHANGED <<orgs, request, current>>

------------------------------------------------------------------------------
(* Create, update and delete. *)

\* _update_resource reads the resource again and goes on without it if it
\* cannot.
Reread(t) ==
  /\ pc[t] = "reread"
  /\ pc' = [pc EXCEPT ![t] = "update"]
  /\ \E seen \in {orgs[target[t]], Gone} : current' = [current EXCEPT ![t] = seen]
  /\ UNCHANGED <<orgs, request, target, result>>

\* The PATCH carries every field: one that is not given, as it was read.
PatchedName(t) ==
  IF request[t].newName # Unset THEN request[t].newName ELSE request[t].name

\* Mutant: the PATCH sends null for an option that is not given.
PatchedDescriptionOrNull(t) == request[t].description

PatchedDescription(t) ==
  IF request[t].description # Unset THEN request[t].description
  ELSE IF current[t] # Gone THEN current[t].description
  ELSE orgs[target[t]].description

Patched(t) == [name |-> PatchedName(t), description |-> PatchedDescription(t)]

\* Mutant: only renames count as a change.
PatchChangesName(t) == request[t].newName # Unset

\* The answer differs from what was read, or a rename was asked for.
PatchChanges(t) == Patched(t) # current[t] \/ request[t].newName # Unset

\* The request takes effect; its answer arrives or is lost.
Takes(t, report) ==
  /\ Finish(t, report) \/ Finish(t, Failed)
  /\ UNCHANGED <<request, current>>

Create(t) ==
  /\ pc[t] = "create"
  /\ Len(orgs) < MaxOrgs
  /\ Under(request[t].name) = {}
  /\ orgs' = Append(orgs, [name |-> request[t].name,
                           description |-> IF request[t].description = Unset THEN Blank
                                           ELSE request[t].description])
  /\ Takes(t, Changed)

Update(t) ==
  /\ pc[t] = "update"
  /\ target[t] \in Live(orgs)
  /\ Under(PatchedName(t)) \subseteq {target[t]}
  /\ orgs' = [orgs EXCEPT ![target[t]] = Patched(t)]
  /\ Takes(t, IF PatchChanges(t) THEN Changed ELSE Unchanged)

Delete(t) ==
  /\ pc[t] = "delete"
  /\ target[t] \in Live(orgs)
  /\ orgs' = [orgs EXCEPT ![target[t]] = Gone]
  /\ Takes(t, Changed)

\* Mutant: no raise_for_status after a write.
WriteFailsUnnoticed(t) ==
  /\ pc[t] \in {"create", "update", "delete"}
  /\ Finish(t, Changed)
  /\ UNCHANGED <<orgs, request, current>>

\* The gateway refuses the request, or it never gets there.
WriteFails(t) ==
  /\ pc[t] \in {"create", "update", "delete"}
  /\ Finish(t, Failed)
  /\ UNCHANGED <<orgs, request, current>>

Step(t) ==
  \/ Begin(t)
  \/ FindAnswers(t) \/ FindFails(t)
  \/ Reread(t)
  \/ Create(t) \/ Update(t) \/ Delete(t) \/ WriteFails(t)

Next == \E t \in Tasks : Step(t)

Spec == Init /\ [][Next]_resourceVars
===============================================================================
