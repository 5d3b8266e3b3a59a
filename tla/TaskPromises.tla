----------------------------- MODULE TaskPromises -----------------------------
(***************************************************************************)
(* ResourceTask with history variables: what held while a task ran, what   *)
(* it wrote, who else wrote and whether a request of its own failed.  They *)
(* state what the four states of a resource module promise                 *)
(* (docs/02-action-plugin-pattern.md) with other tasks at work and         *)
(* requests that fail.                                                     *)
(***************************************************************************)
EXTENDS ResourceTask

VARIABLES
  held,      \* the task had nothing to do when it began
  met,       \* the names under which its promise has held at some moment since
  numbered,  \* at some moment since, the description under its name was a number
  wrote,     \* the task changed the gateway
  crossed,   \* another task changed the gateway while it ran
  troubled   \* a request of the task failed

promiseVars == <<resourceVars, held, met, numbered, wrote, crossed, troubled>>

\* What a task's state promises of the gateway, and under which of its names
\* the gateway keeps it: present and enforced promise an organization with the
\* given description.
Keeps(r, n, gateway) ==
  \/ /\ r.state \in {"present", "enforced"}
     /\ \E i \in Live(gateway) : /\ gateway[i].name = n
                                /\ r.description \in {Unset, gateway[i].description}
  \/ r.state = "absent" /\ \A i \in Live(gateway) : gateway[i].name # n
  \/ r.state = "exists" /\ \E i \in Live(gateway) : gateway[i].name = n

Kept(r, gateway) == {n \in {r.name, r.newName} \ {Unset} : Keeps(r, n, gateway)}

\* The name that the organization is to have in the end.
FinalName(r) ==
  IF r.state \in {"present", "enforced"} /\ r.newName # Unset THEN r.newName ELSE r.name

Numbered(r, gateway) ==
  \E i \in Live(gateway) : gateway[i].name = r.name /\ gateway[i].description \in Numerals

\* The gateway is as a task that renames nothing wants it, by the comparison
\* that the task itself makes.
Fits(r, org) ==
  /\ org.name = r.name
  /\ r.description # Unset => ~Differs(r.description, org.description)

InPlace(r, gateway) ==
  \/ r.state \in {"present", "enforced"} /\ \E i \in Live(gateway) : Fits(r, gateway[i])
  \/ r.state \in {"absent", "exists"} /\ Keeps(r, r.name, gateway)

Running(t) == pc[t] \notin {"idle", "done"}

PromisesInit ==
  /\ Init
  /\ held = [t \in Tasks |-> FALSE]
  /\ met = [t \in Tasks |-> {}]
  /\ numbered = [t \in Tasks |-> FALSE]
  /\ wrote = [t \in Tasks |-> FALSE]
  /\ crossed = [t \in Tasks |-> FALSE]
  /\ troubled = [t \in Tasks |-> FALSE]

\* The step is one whose request was answered, or one whose request failed; a
\* failed find can look like one that was answered.
Writes(t) == Create(t) \/ Update(t) \/ Delete(t)

Answered(t) ==
  \/ Begin(t) \/ FindAnswers(t)
  \/ Reread(t) /\ current'[t] = orgs[target[t]]
  \/ Writes(t) /\ ~result'[t].failed

Troubles(t) ==
  \/ FindFails(t) \/ WriteFails(t)
  \/ Reread(t) /\ current'[t] = Gone
  \/ Writes(t) /\ result'[t].failed

PromisesStep(t) ==
  /\ Step(t)
  /\ held' = [held EXCEPT ![t] = IF Begin(t) THEN InPlace(request[t], orgs) ELSE @]
  /\ met' = [u \in Tasks |->
               IF u = t \/ Running(u) THEN met[u] \cup Kept(request[u], orgs') ELSE met[u]]
  /\ numbered' = [u \in Tasks |->
                    numbered[u] \/ ((u = t \/ Running(u)) /\ Numbered(request[u], orgs'))]
  /\ wrote' = [wrote EXCEPT ![t] = @ \/ orgs' # orgs]
  /\ crossed' = [u \in Tasks |-> crossed[u] \/ (u # t /\ Running(u) /\ orgs' # orgs)]
  /\ \/ Answered(t) /\ UNCHANGED troubled
     \/ Troubles(t) /\ troubled' = [troubled EXCEPT ![t] = TRUE]

PromisesNext == \E t \in Tasks : PromisesStep(t)

PromisesSpec == PromisesInit /\ [][PromisesNext]_promiseVars

------------------------------------------------------------------------------
(* Properties. *)

\* Every variable stays within its type.
TypeOK ==
  /\ orgs \in Seq(Org \cup {Gone})
  /\ pc \in [Tasks -> {"idle", "find", "reread", "create", "update", "delete", "done"}]
  /\ request \in [Tasks -> Requests]
  /\ target \in [Tasks -> Nat]
  /\ current \in [Tasks -> Org \cup {Gone}]
  /\ result \in [Tasks -> {Unchanged, Changed, Exists, Failed}]
  /\ met \in [Tasks -> SUBSET Names]
  /\ \A h \in {held, numbered, wrote, crossed, troubled} : h \in [Tasks -> BOOLEAN]

Succeeded(t) == pc[t] = "done" /\ ~result[t].failed
Acts(t) == ~request[t].checkMode

\* The exceptions to the rule that success means a promise kept.  A renaming
\* task that finds nothing under the old name creates that name anew.
MadeOldName(t) == target[t] = NoId /\ wrote[t] /\ request[t].name \in met[t]

\* A description that is a number is never replaced by one that is none, and
\* the task says that nothing differs (base_action.py:1000-1007).
NumberSkipped(t) ==
  /\ request[t].state \in {"present", "enforced"} /\ request[t].newName = Unset
  /\ request[t].description \in Texts \ Numerals
  /\ numbered[t] /\ ~wrote[t]

\* An absent task takes a failed find for an absent resource, and an exists
\* task that reports "does not exist" promises nothing.
Excused(t) ==
  \/ request[t].state = "absent" /\ troubled[t]
  \/ request[t].state = "exists" /\ ~result[t].exists

\* A task that reports success saw its promise kept at some moment while it
\* ran - the organization there under the name asked for, with exactly the
\* description given; or gone - whatever other tasks did between its requests
\* and whichever of them failed (base_action.py:1110-1250).  The rules to patch
\* if the desired fields are not in the existing ones
\* (docs/02-action-plugin-pattern.md:90-93) and to update if any field that is
\* given differs (base_action.py:970-971) are not kept for a number: that, and
\* the old name made anew, are the exceptions the code adds.
SuccessWasReached ==
  \A t \in Tasks :
    Succeeded(t) /\ Acts(t) =>
      FinalName(request[t]) \in met[t] \/ MadeOldName(t) \/ NumberSkipped(t) \/ Excused(t)

\* Idempotence, the rule of docs/05-design-principles.md:174-175: a task that by
\* its own comparison has nothing to do, and that nobody crosses, writes nothing, and if its
\* requests come through it reports no change.  Renames are another matter.
SecondRunIsQuiet ==
  \A t \in Tasks :
    pc[t] = "done" /\ held[t] /\ ~crossed[t] /\ request[t].newName = Unset =>
      /\ ~wrote[t]
      /\ troubled[t] \/ (~result[t].failed /\ ~result[t].changed)

\* "changed" tells the truth of a task nobody crosses, although it is computed
\* from two reads and an answer (platform_manager.py:577-741); in check mode
\* nothing is written.
ChangedIsTrue ==
  \A t \in Tasks :
    /\ Succeeded(t) /\ Acts(t) /\ ~crossed[t] => (result[t].changed <=> wrote[t])
    /\ wrote[t] => Acts(t)

\* "Partial updates preserve fields not mentioned in the task"
\* (docs/02-action-plugin-pattern.md:98) as far as it is true: the PATCH carries
\* every field, the omitted ones as they were read two requests earlier, so they
\* survive the update of a task that nobody crosses, whether or not its second
\* read failed (platform_manager.py:583-700).
UncrossedUpdatesKeepTheRest ==
  [][\A t \in Tasks : Update(t) /\ ~crossed[t] =>
       /\ request[t].description = Unset => orgs'[target[t]].description = orgs[target[t]].description
       /\ request[t].newName = Unset => orgs'[target[t]].name = orgs[target[t]].name]_promiseVars
===============================================================================
