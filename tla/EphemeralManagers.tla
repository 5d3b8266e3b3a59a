--------------------------- MODULE EphemeralManagers ---------------------------
(***************************************************************************)
(* Direct mode, the default: every task, and every gateway_api look-up,    *)
(* launches a manager of its own (Connection._get_direct_client,           *)
(* spawn_ephemeral_client) at a path made of user, host, credentials and   *)
(* a millisecond counter modulo 65536.  No lock and no .meta file: nothing *)
(* is shared unless two callers compute the same path, and nothing is torn *)
(* down either.  BaseResourceActionPlugin.cleanup looks for the manager in *)
(* a dictionary that is never filled, and the shutdown call of a look-up   *)
(* only sets a flag, which turns the idle exit off.                        *)
(*                                                                         *)
(* A caller launches one manager at most, so the two share a name.  The    *)
(* manager watches the PID of its caller's parent at the launch: of the    *)
(* playbook, or of whoever adopted the caller after that was killed.       *)
(***************************************************************************)
EXTENDS Naturals

CONSTANTS
  Callers,    \* tasks and look-ups
  Lookups,    \* those of them that are look-ups
  Owners,     \* ansible-playbook processes
  OwnerOf,    \* the playbook of a caller
  Paths,      \* socket paths
  NoManager,  \* no file at a path
  Leftover,   \* a file at a path without a process behind it
  Faults      \* which disturbances the environment may cause

FaultKinds ==
  {"crash", "idle", "sigterm", "slow_start", "slow_init", "init_error", "worker_death", "spawn_error",
   "owner_killed", "lingering_owner"}

ASSUME EphemeralAssumption ==
  /\ Lookups \subseteq Callers
  /\ OwnerOf \in [Callers -> Owners]
  /\ NoManager \notin Callers
  /\ Leftover \notin Callers \cup {NoManager}
  /\ Faults \subseteq FaultKinds

VARIABLES
  pc,         \* where each caller is
  path,       \* the path it computed
  sock,       \* whose listening socket is linked at each path
  proc,       \* life cycle of each manager
  shut,       \* managers with _shutdown_requested
  ownerAlive, \* the playbooks still running
  ownerPid,   \* those whose PID answers: they run, or it has been given away
  adopted     \* managers that watch the process that adopted their caller

vars == <<pc, path, sock, proc, shut, ownerAlive, ownerPid, adopted>>

\* The operations of ManagerRPCClient that dial the path: connect, the creation
\* of the proxy, its _incref, and its first call; later calls keep that connection.
Dialling == {"dial", "create", "incref", "call"}
Busy == {"clear", "spawn", "await", "using", "cleanup"} \cup Dialling
Finished == {"done", "failed", "gone"}

\* The process listens, or still answers on the connections it has.
Accepting == {"bound", "serving", "broken", "idling", "idled", "terminating"}
Running == Accepting \cup {"starting"}

GoTo(w, from, to) ==
  /\ pc[w] = from
  /\ pc' = [pc EXCEPT ![w] = to]

Init ==
  /\ pc = [w \in Callers |-> "ready"]
  /\ path \in [Callers -> Paths]
  /\ sock \in [Paths -> {NoManager, Leftover}]
  /\ proc = [w \in Callers |-> "unborn"]
  /\ shut = {}
  /\ ownerAlive = Owners
  /\ ownerPid = Owners
  /\ adopted = {}

-----------------------------------------------------------------------------
(* A caller. *)

\* The path is what the clock says: any two may be the same.
Begin(w) ==
  /\ OwnerOf[w] \in ownerAlive
  /\ GoTo(w, "ready", "clear")
  /\ UNCHANGED <<path, sock, proc, shut, ownerAlive, ownerPid, adopted>>

\* Mutant: no clean-up before the launch.
ClearForgotten(w) ==
  /\ GoTo(w, "clear", "spawn")
  /\ UNCHANGED <<path, sock, proc, shut, ownerAlive, ownerPid, adopted>>

\* cleanup_old_socket, whoever listens there.
Clear(w) ==
  /\ GoTo(w, "clear", "spawn")
  /\ sock' = [sock EXCEPT ![path[w]] = NoManager]
  /\ UNCHANGED <<path, proc, shut, ownerAlive, ownerPid, adopted>>

\* spawn_manager_process, with the PID that os.getppid() gives.
Spawn(w) ==
  /\ \/ /\ GoTo(w, "spawn", "await")
        /\ proc' = [proc EXCEPT ![w] = "starting"]
        /\ adopted' = IF OwnerOf[w] \in ownerAlive THEN adopted ELSE adopted \cup {w}
     \/ "spawn_error" \in Faults /\ GoTo(w, "spawn", "failed") /\ UNCHANGED <<proc, adopted>>
  /\ UNCHANGED <<path, sock, shut, ownerAlive, ownerPid>>

\* wait_for_process_startup: any file at the path will do.
AwaitSock(w) ==
  /\ sock[path[w]] # NoManager
  /\ GoTo(w, "await", "dial")
  /\ UNCHANGED <<path, sock, proc, shut, ownerAlive, ownerPid, adopted>>

\* Mutant: the wait has no end once the process is gone.
AwaitTimeoutOfLiving(w) ==
  /\ sock[path[w]] = NoManager
  /\ proc[w] = "starting" /\ "slow_start" \in Faults
  /\ GoTo(w, "await", "failed")
  /\ UNCHANGED <<path, sock, proc, shut, ownerAlive, ownerPid, adopted>>

\* 5 s without a file; the process is left running.
AwaitTimeout(w) ==
  /\ sock[path[w]] = NoManager
  /\ proc[w] # "starting" \/ "slow_start" \in Faults
  /\ GoTo(w, "await", "failed")
  /\ UNCHANGED <<path, sock, proc, shut, ownerAlive, ownerPid, adopted>>

\* The path leads to the manager that has the authkey.
Reaches(w) == sock[path[w]] = w /\ proc[w] \in Accepting

After == [dial |-> "create", create |-> "incref", incref |-> "call", call |-> "using"]

\* The creation waits in _get_service for the service.
Dial(w) ==
  /\ pc[w] \in Dialling
  /\ Reaches(w)
  /\ pc[w] = "create" => proc[w] \notin {"bound", "broken"}
  /\ pc' = [pc EXCEPT ![w] = After[pc[w]]]
  /\ UNCHANGED <<path, sock, proc, shut, ownerAlive, ownerPid, adopted>>

\* Mutant: a caller that fails cleans up the path, as persistent mode does.
DialFailsCleaning(w) ==
  /\ pc[w] \in Dialling
  /\ ~Reaches(w)
  /\ pc' = [pc EXCEPT ![w] = "failed"]
  /\ sock' = [sock EXCEPT ![path[w]] = NoManager]
  /\ UNCHANGED <<path, proc, shut, ownerAlive, ownerPid, adopted>>

\* Every exception fails the task, or the look-up: the service could not be
\* built, is not up within 60 s, or another process answers, or none.
DialFails(w) ==
  /\ pc[w] \in Dialling
  /\ \/ ~Reaches(w)
     \/ pc[w] = "create" /\ proc[w] \in {"broken", "terminating"}
     \/ pc[w] = "create" /\ proc[w] = "bound" /\ "slow_init" \in Faults
  /\ pc' = [pc EXCEPT ![w] = "failed"]
  /\ UNCHANGED <<path, sock, proc, shut, ownerAlive, ownerPid, adopted>>

\* The calls of the task, on the connection it has; whether the gateway answers
\* them well is not told apart, the clean-up comes after both.
Use(w) ==
  /\ GoTo(w, "using", IF proc[w] \in Accepting THEN "cleanup" ELSE "failed")
  /\ UNCHANGED <<path, sock, proc, shut, ownerAlive, ownerPid, adopted>>

\* Mutant: the clean-up of a task calls shutdown as well.
CleanupSignals(w) ==
  /\ GoTo(w, "cleanup", "done")
  /\ shut' = shut \cup {w}
  /\ UNCHANGED <<path, sock, proc, ownerAlive, ownerPid, adopted>>

\* cleanup finds neither the process nor a .meta file: "already gone".  The
\* finally clause of a look-up calls shutdown, which sets the flag.
Cleanup(w) ==
  /\ GoTo(w, "cleanup", "done")
  /\ shut' = shut \cup ({w} \cap {l \in Lookups : proc[l] \in Accepting})
  /\ UNCHANGED <<path, sock, proc, ownerAlive, ownerPid, adopted>>

WorkerDies(w) ==
  /\ "worker_death" \in Faults
  /\ pc[w] \in Busy
  /\ pc' = [pc EXCEPT ![w] = "gone"]
  /\ UNCHANGED <<path, sock, proc, shut, ownerAlive, ownerPid, adopted>>

Caller(w) ==
  \/ Clear(w) \/ Spawn(w) \/ AwaitSock(w) \/ AwaitTimeout(w)
  \/ Dial(w) \/ DialFails(w) \/ Use(w) \/ Cleanup(w)

-----------------------------------------------------------------------------
(* A manager process. *)

Become(m, from, to) ==
  /\ proc[m] \in from
  /\ proc' = [proc EXCEPT ![m] = to]

\* get_server binds the path; a file already there makes the process exit 1.
Bind(m) ==
  /\ IF sock[path[m]] = NoManager
     THEN Become(m, {"starting"}, "bound") /\ sock' = [sock EXCEPT ![path[m]] = m]
     ELSE Become(m, {"starting"}, "dead") /\ UNCHANGED sock
  /\ UNCHANGED <<pc, path, shut, ownerAlive, ownerPid, adopted>>

InitService(m) ==
  /\ \/ Become(m, {"bound"}, "serving")
     \/ "init_error" \in Faults /\ Become(m, {"bound"}, "broken")
  /\ UNCHANGED <<pc, path, sock, shut, ownerAlive, ownerPid, adopted>>

\* The idle monitor decides to stop, unless a shutdown was requested.
IdleStop(m) ==
  /\ "idle" \in Faults
  /\ m \notin shut
  /\ Become(m, {"serving"}, "idling")
  /\ UNCHANGED <<pc, path, sock, shut, ownerAlive, ownerPid, adopted>>

\* Both ways out unlink the path, whoever listens there by now.
Unlinks(m, from, to) ==
  /\ Become(m, {from}, to)
  /\ sock' = [sock EXCEPT ![path[m]] = NoManager]
  /\ UNCHANGED <<pc, path, shut, ownerAlive, ownerPid, adopted>>

IdleUnlink(m) == Unlinks(m, "idling", "idled")

IdleExit(m) ==
  /\ Become(m, {"idled"}, "dead")
  /\ UNCHANGED <<pc, path, sock, shut, ownerAlive, ownerPid, adopted>>

Terminate(m) ==
  /\ "sigterm" \in Faults
  /\ Become(m, {"bound", "serving", "broken"}, "terminating")
  /\ UNCHANGED <<pc, path, sock, shut, ownerAlive, ownerPid, adopted>>

\* sys.exit runs the finalizer of the listener.
TerminateExit(m) == Unlinks(m, "terminating", "dead")

\* The PID it watches answers for nobody.
WatchedGone(m) == m \notin adopted /\ OwnerOf[m] \notin ownerPid

\* Mutant: a manager that was asked to shut down is no longer watched over.
WatchdogUntilShutdown(m) ==
  /\ WatchedGone(m)
  /\ m \notin shut
  /\ Become(m, Running, "dead")
  /\ UNCHANGED <<pc, path, sock, shut, ownerAlive, ownerPid, adopted>>

\* os._exit once the PID it watches is gone, without a clean-up.
Watchdog(m) ==
  /\ WatchedGone(m)
  /\ Become(m, Running, "dead")
  /\ UNCHANGED <<pc, path, sock, shut, ownerAlive, ownerPid, adopted>>

Crash(m) ==
  /\ "crash" \in Faults
  /\ Become(m, Running, "dead")
  /\ UNCHANGED <<pc, path, sock, shut, ownerAlive, ownerPid, adopted>>

Manager(m) ==
  \/ Bind(m) \/ InitService(m) \/ IdleUnlink(m) \/ IdleExit(m)
  \/ TerminateExit(m) \/ Watchdog(m)

Disturb(m) == IdleStop(m) \/ Terminate(m) \/ Crash(m)

\* A playbook ends once none of its callers is at work, or is killed at any time.
OwnerExit(o) ==
  /\ o \in ownerAlive
  /\ "owner_killed" \in Faults \/ \A w \in Callers : OwnerOf[w] = o => pc[w] \notin Busy
  /\ ownerAlive' = ownerAlive \ {o}
  /\ ownerPid' = ownerPid \ {o}
  /\ UNCHANGED <<pc, path, sock, proc, shut, adopted>>

\* Its PID answers for a while all the same: a zombie, or another process.
OwnerPidLingers(o) ==
  /\ "lingering_owner" \in Faults
  /\ o \notin ownerAlive
  /\ ownerPid' = IF o \in ownerPid THEN ownerPid \ {o} ELSE ownerPid \cup {o}
  /\ UNCHANGED <<pc, path, sock, proc, shut, ownerAlive, adopted>>

-----------------------------------------------------------------------------
Next ==
  \/ \E w \in Callers : Begin(w) \/ Caller(w) \/ WorkerDies(w) \/ Manager(w) \/ Disturb(w)
  \/ \E o \in Owners : OwnerExit(o) \/ OwnerPidLingers(o)

Spec == Init /\ [][Next]_vars

(* Callers and managers are OS processes whose waits are bounded.  Starting *)
(* a task, faults and the end of a playbook get no fairness.                *)
Fairness == \A w \in Callers : WF_vars(Caller(w)) /\ WF_vars(Manager(w))

FairSpec == Spec /\ Fairness
===============================================================================
