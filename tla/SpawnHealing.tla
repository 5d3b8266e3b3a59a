----------------------------- MODULE SpawnHealing -----------------------------
(***************************************************************************)
(* ManagerSpawn with a history variable: which calls of                    *)
(* _get_persistent_client were disturbed while they ran.  It states what   *)
(* the clean-up paths of connection/http.py are for: files that earlier    *)
(* tasks left behind, in whatever state, cost a call a new manager and     *)
(* never make it raise.                                                    *)
(***************************************************************************)
EXTENDS ManagerSpawn

VARIABLE disturbed   \* the workers whose call was disturbed

healingVars == <<vars, disturbed>>

\* Someone else changes the files at the path; the bind of the worker's own
\* manager is not a disturbance.
FilesDisturbed(w) ==
  /\ sock' # sock \/ meta' # meta
  /\ pc'[w] = pc[w]
  /\ sock' # sock /\ sock' \in Managers => spawner[sock'] # w

\* A manager that was up stops being of use, or the one just launched dies
\* while nothing is in its way.
ManagerDisturbed ==
  \E m \in Managers :
    \/ /\ proc[m] \in Accepting
       /\ proc'[m] # proc[m]
       /\ proc'[m] \in {"broken", "idling", "terminating", "dead"}
    \/ proc[m] = "starting" /\ proc'[m] = "dead" /\ sock = NoManager

\* The call runs out of its own time limits, or cannot start a process.
LimitHit(w) ==
  \/ pc[w] = "await" /\ pc'[w] = "abort" /\ proc[seen[w]] = "starting"
  \/ pc[w] = "create" /\ pc'[w] = "abort" /\ proc[seen[w]] = "bound"
  \/ pc[w] = "spawn" /\ pc'[w] = "abort"

Disturbs(w) == FilesDisturbed(w) \/ ManagerDisturbed \/ LimitHit(w)

HealingInit == Init /\ disturbed = {}

HealingNext ==
  /\ Next
  /\ disturbed' = disturbed \cup {w \in Workers : pc[w] \in Busy /\ Disturbs(w)}

HealingSpec == HealingInit /\ [][HealingNext]_healingVars

FairHealingSpec == HealingSpec /\ Fairness

\* A call that raises was disturbed while it ran.  Leftovers never do it: a
\* socket of a dead manager, a PID that answers for another process, an empty
\* .meta file, a .meta file of one manager beside the socket of another, a
\* service that failed to start (http.py:328-400, process_manager.py:105-180).
OnlyDisturbedCallsRaise ==
  \A w \in Workers : pc[w] = "abort" => w \in disturbed
===============================================================================
