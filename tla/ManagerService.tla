---------------------------- MODULE ManagerService ----------------------------
(***************************************************************************)
(* What get_client promises its callers in persistent mode, with no files, *)
(* keys or sockets: a task that asks is served by a manager that runs at   *)
(* that moment or is refused; managers are launched one at a time, at most *)
(* one per task; a manager that has exited serves nobody again.            *)
(* ManagerSpawn implements this (connection/http.py:297-459).              *)
(***************************************************************************)
CONSTANTS Workers, Managers, NoManager, NoWorker

VARIABLES
  call,        \* progress of each task's request
  turn,        \* the one task that may launch a manager
  manager,     \* life of each manager
  launchedBy,  \* the task a manager was launched for
  client       \* the manager that serves a task

serviceVars == <<call, turn, manager, launchedBy, client>>

CallStates == {"idle", "pending", "served", "refused"}

Init ==
  /\ call = [w \in Workers |-> "idle"]
  /\ turn = NoWorker
  /\ manager = [m \in Managers |-> "none"]
  /\ launchedBy = [m \in Managers |-> NoWorker]
  /\ client = [w \in Workers |-> NoManager]

Request(w) ==
  /\ call[w] = "idle"
  /\ call' = [call EXCEPT ![w] = "pending"]
  /\ UNCHANGED <<turn, manager, launchedBy, client>>

TakeTurn(w) ==
  /\ call[w] = "pending"
  /\ turn = NoWorker
  /\ turn' = w
  /\ UNCHANGED <<call, manager, launchedBy, client>>

Launch(w, m) ==
  /\ turn = w
  /\ call[w] = "pending"
  /\ manager[m] = "none"
  /\ \A n \in Managers : launchedBy[n] # w
  /\ manager' = [manager EXCEPT ![m] = "running"]
  /\ launchedBy' = [launchedBy EXCEPT ![m] = w]
  /\ UNCHANGED <<call, turn, client>>

Serve(w, m) ==
  /\ call[w] = "pending"
  /\ manager[m] = "running"
  /\ call' = [call EXCEPT ![w] = "served"]
  /\ client' = [client EXCEPT ![w] = m]
  /\ UNCHANGED <<turn, manager, launchedBy>>

\* A task that was served leaves its turn; it keeps its client.
EndTurn(w) ==
  /\ turn = w
  /\ call[w] = "served"
  /\ turn' = NoWorker
  /\ UNCHANGED <<call, manager, launchedBy, client>>

\* The request raises, the task dies, or its manager is gone at first use.
Refuse(w) ==
  /\ call[w] \in {"pending", "served"}
  /\ call' = [call EXCEPT ![w] = "refused"]
  /\ client' = [client EXCEPT ![w] = NoManager]
  /\ turn' = IF turn = w THEN NoWorker ELSE turn
  /\ UNCHANGED <<manager, launchedBy>>

Exit(m) ==
  /\ manager[m] = "running"
  /\ manager' = [manager EXCEPT ![m] = "exited"]
  /\ UNCHANGED <<call, turn, launchedBy, client>>

Next ==
  \/ \E w \in Workers : Request(w) \/ TakeTurn(w) \/ EndTurn(w) \/ Refuse(w)
  \/ \E w \in Workers, m \in Managers : Launch(w, m) \/ Serve(w, m)
  \/ \E m \in Managers : Exit(m)

Spec == Init /\ [][Next]_serviceVars
===============================================================================
