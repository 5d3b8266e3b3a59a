--------------------------- MODULE EphemeralHistory ---------------------------
(***************************************************************************)
(* EphemeralManagers with history variables: which callers were disturbed, *)
(* and whose manager had trouble.  They tell what the unique paths and the *)
(* clean-up before a launch are worth, and what two callers do to each     *)
(* other that compute one path.                                            *)
(***************************************************************************)
EXTENDS EphemeralManagers

VARIABLES
  disturbed,  \* callers disturbed at work, by others or by trouble
  troubled    \* callers with trouble of their own

historyVars == <<vars, disturbed, troubled>>

\* Someone else, or its own manager on the way out, changes the file at its path.
FileDisturbed(w) ==
  /\ sock'[path[w]] # sock[path[w]]
  /\ pc'[w] = pc[w]
  /\ sock'[path[w]] # w

\* Its manager stops being of use, or dies while the caller is at work, by a
\* crash or with a playbook that was killed, or a limit is hit.
Trouble(w) ==
  \/ proc[w] \in Accepting /\ proc'[w] # proc[w] /\ proc'[w] \in {"broken", "idling", "terminating"}
  \/ proc[w] \in Accepting /\ proc'[w] = "dead" /\ pc[w] \in Busy
  \/ proc[w] = "starting" /\ proc'[w] = "dead" /\ sock[path[w]] = NoManager
  \/ pc[w] = "spawn" /\ pc'[w] = "failed"
  \/ pc[w] = "await" /\ pc'[w] = "failed" /\ proc[w] = "starting"
  \/ pc[w] = "create" /\ pc'[w] = "failed" /\ proc[w] = "bound" /\ Reaches(w)

HistoryInit == Init /\ disturbed = {} /\ troubled = {}

HistoryNext ==
  /\ Next
  /\ troubled' = troubled \cup {w \in Callers : Trouble(w)}
  /\ disturbed' = disturbed \cup {w \in Callers : pc[w] \in Busy /\ (FileDisturbed(w) \/ Trouble(w))}

HistorySpec == HistoryInit /\ [][HistoryNext]_historyVars /\ Fairness

------------------------------------------------------------------------------
(* Properties. *)

\* Every variable stays within its type.
TypeOK ==
  /\ pc \in [Callers -> Busy \cup Finished \cup {"ready"}]
  /\ path \in [Callers -> Paths]
  /\ sock \in [Paths -> Callers \cup {NoManager, Leftover}]
  /\ proc \in [Callers -> Running \cup {"unborn", "dead"}]
  /\ shut \subseteq Lookups
  /\ ownerAlive \subseteq Owners /\ ownerPid \subseteq Owners
  /\ adopted \subseteq Callers
  /\ disturbed \subseteq Callers /\ troubled \subseteq Callers

\* A caller fails only if it was disturbed while at work.  What was at its path
\* before does not do it: files of dead managers, and managers of earlier tasks
\* that still run there (http.py:221-223, process_manager.py:385-397).
FailsOnlyIfDisturbed ==
  \A w \in Callers : pc[w] = "failed" => w \in disturbed

\* Two callers that compute one path may fail each other, but one of the two is
\* served, whatever the order of their clean-ups, launches and binds.  Three
\* may all fail (process_manager.py:158-180, 287-311).
OneOfTwoIsServed ==
  \A v, w \in Callers :
    /\ v # w /\ path[v] = path[w]
    /\ {v, w} \cap troubled = {}
    /\ {pc[v], pc[w]} \subseteq {"done", "failed"}
    /\ \A u \in Callers \ {v, w} : path[u] = path[v] => pc[u] = "ready"
    => "done" \in {pc[v], pc[w]}

\* Every caller comes to an end: no wait is without a limit
\* (process_manager.py:306-326, manager_process.py:230-238).
EveryCallEnds == \A w \in Callers : pc[w] \in Busy ~> pc[w] \in Finished

\* An ephemeral manager launched while its playbook ran exits once the playbook
\* is gone and its PID stays free, whatever became of its caller, though nothing
\* else is sure to end it (manager_process.py:316-333).  One launched later, by a
\* caller that went on alone, watches another process and stays
\* (http.py:261, process_manager.py:415).
NoOrphans ==
  \A w \in Callers :
    (proc[w] \in Running /\ w \notin adopted /\ OwnerOf[w] \notin ownerAlive)
      ~> (proc[w] \notin Running \/ OwnerOf[w] \in ownerPid)

\* "ephemeral managers (direct mode), which must be torn down immediately after
\* the single task that used them" (base_action.py:812-813).
TornDownAfterTask ==
  \A w \in Callers \ Lookups : pc[w] = "done" => proc[w] \notin Running
===============================================================================
