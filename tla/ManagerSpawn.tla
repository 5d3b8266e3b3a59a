----------------------------- MODULE ManagerSpawn -----------------------------
(***************************************************************************)
(* How the worker processes of Ansible find, or spawn, the persistent      *)
(* manager of one socket path: Connection._get_persistent_client           *)
(* (connection/http.py), the file operations it takes from ProcessManager  *)
(* (process_manager.py), the constructor of ManagerRPCClient               *)
(* (rpc_client.py), and the way a manager process comes up and goes away   *)
(* (manager_process.py).                                                   *)
(*                                                                         *)
(* A worker is one task, so it calls _get_persistent_client once.  All the *)
(* workers of the model compute the same socket path: the path is a hash   *)
(* of user, inventory host and credentials.  A manager is named by the     *)
(* process: its PID, its authkey and the inode of its listening socket     *)
(* are all that one name.                                                  *)
(*                                                                         *)
(* A playbook may be killed at any moment; its workers are processes of    *)
(* their own and go on, as children of PID 1 or of a subreaper.  A manager *)
(* is told at its launch which PID to watch: that of its launcher's        *)
(* parent, whoever that is by then.                                        *)
(***************************************************************************)
EXTENDS Naturals

CONSTANTS
  Workers,     \* worker processes, one task each
  Managers,    \* manager processes that may be launched
  Owners,      \* ansible-playbook processes
  OwnerOf,     \* the playbook that forked a worker
  Faults,      \* which disturbances the environment may cause
  NoManager,   \* no process: an absent file, nothing read yet
  NoWorker,    \* nobody
  EmptyMeta    \* a .meta file that is open for writing and still empty

FaultKinds ==
  {"crash", "idle", "sigterm", "slow_start", "slow_init", "init_error",
   "worker_death", "lingering_pid", "spawn_error", "meta_io", "owner_killed",
   "lingering_owner"}

ASSUME ConstantsAssumption ==
  /\ OwnerOf \in [Workers -> Owners]
  /\ Faults \subseteq FaultKinds
  /\ NoManager \notin Managers
  /\ EmptyMeta \notin Managers
  /\ EmptyMeta # NoManager
  /\ NoWorker \notin Workers

VARIABLES
  pc,          \* where each worker is in _get_persistent_client
  lock,        \* the worker that holds flock(<socket>.lock)
  sock,        \* the manager whose listening socket is linked at the path
  meta,        \* the manager the .meta file names
  seen,        \* the manager whose PID and authkey the worker has in hand
  proc,        \* life cycle of each manager process
  spawner,     \* the worker that launched a manager
  ownerAlive,  \* the playbooks still running
  ownerPid,    \* those whose PID answers: they run, or it has been given away
  adopted      \* managers that watch the process that adopted their launcher

vars == <<pc, lock, sock, meta, seen, proc, spawner, ownerAlive, ownerPid, adopted>>

-----------------------------------------------------------------------------
(* Control points of a worker.                                             *)

\* The look-up, which the code writes twice: without the lock, then under it.
LookUp == {"checkSock", "checkMeta", "probe", "kill", "readKey"}
\* The constructor of ManagerRPCClient.
Connecting == {"dial", "create"}
\* cleanup_old_socket after a stale or failed look-up.
Dropping == {"dropSock", "dropMeta"}
\* The part of the locked path that launches a manager.
Launching == {"clearSock", "clearMeta", "spawn", "await", "openMeta", "writeMeta"}
\* The finally clause, after a return or an exception.
Leaving == {"leave", "abort"}

Busy == LookUp \cup Connecting \cup Dropping \cup Launching \cup Leaving \cup {"lock"}
Finished == {"done", "failed", "gone"}
Points == {"ready", "connected"} \cup Busy \cup Finished

ProcStates ==
  {"unborn", "starting", "bound", "serving", "broken", "idling", "idled",
   "terminating", "dead", "lingering"}

\* The process listens: a connection to its socket is answered.
Accepting == {"bound", "serving", "broken", "idling", "idled", "terminating"}
Running == Accepting \cup {"starting"}

\* os.kill(pid, 0) succeeds: the process runs, is a zombie nobody has waited
\* for, or its PID has been given to another process.
PidAnswers(m) == proc[m] \in Running \cup {"lingering"}

OwnManager(w) == seen[w] # NoManager /\ spawner[seen[w]] = w

GoTo(w, from, to) ==
  /\ pc[w] = from
  /\ pc' = [pc EXCEPT ![w] = to]

\* Where a look-up that found no usable manager continues.
NotFound(w) == IF lock = w THEN "clearSock" ELSE "lock"

-----------------------------------------------------------------------------
Init ==
  /\ pc = [w \in Workers |-> "ready"]
  /\ lock = NoWorker
  /\ sock = NoManager
  /\ meta = NoManager
  /\ seen = [w \in Workers |-> NoManager]
  /\ proc = [m \in Managers |-> "unborn"]
  /\ spawner = [m \in Managers |-> NoWorker]
  /\ ownerAlive = Owners
  /\ ownerPid = Owners
  /\ adopted = {}

-----------------------------------------------------------------------------
(* The look-up.  One set of actions stands for the lock-free pass and for  *)
(* the re-check under the lock; they differ in what NotFound says.         *)

Begin(w) ==
  /\ OwnerOf[w] \in ownerAlive
  /\ GoTo(w, "ready", "checkSock")
  /\ UNCHANGED <<lock, sock, meta, seen, proc, spawner, ownerAlive, ownerPid, adopted>>

CheckSock(w) ==
  /\ GoTo(w, "checkSock", IF sock # NoManager THEN "checkMeta" ELSE NotFound(w))
  /\ UNCHANGED <<lock, sock, meta, seen, proc, spawner, ownerAlive, ownerPid, adopted>>

CheckMeta(w) ==
  /\ GoTo(w, "checkMeta", IF meta # NoManager THEN "probe" ELSE NotFound(w))
  /\ UNCHANGED <<lock, sock, meta, seen, proc, spawner, ownerAlive, ownerPid, adopted>>

\* Mutant: the PID is taken from a .meta file whatever it holds.
ProbeUnparsed(w) ==
  /\ GoTo(w, "probe", "kill")
  /\ seen' = [seen EXCEPT ![w] = meta]
  /\ UNCHANGED <<lock, sock, meta, proc, spawner, ownerAlive, ownerPid, adopted>>

\* is_socket_stale up to reading the PID: a missing file, or a .meta that is
\* not JSON yet, counts as live.
Probe(w) ==
  /\ \/ /\ sock # NoManager
        /\ meta \in Managers
        /\ GoTo(w, "probe", "kill")
        /\ seen' = [seen EXCEPT ![w] = meta]
     \/ /\ sock = NoManager \/ meta \notin Managers
        /\ GoTo(w, "probe", "readKey")
        /\ UNCHANGED seen
  /\ UNCHANGED <<lock, sock, meta, proc, spawner, ownerAlive, ownerPid, adopted>>

\* is_socket_stale from the signal-0 probe on.
Kill(w) ==
  /\ GoTo(w, "kill", IF PidAnswers(seen[w]) THEN "readKey" ELSE "dropSock")
  /\ UNCHANGED <<lock, sock, meta, seen, proc, spawner, ownerAlive, ownerPid, adopted>>

\* Reading the authkey.  A .meta that is gone or not JSON yet raises, and the
\* handler cleans up; a path that is no socket any more just falls through.
ReadKey(w) ==
  /\ \/ /\ meta \notin Managers
        /\ GoTo(w, "readKey", "dropSock")
        /\ UNCHANGED seen
     \/ /\ meta \in Managers
        /\ GoTo(w, "readKey", IF sock # NoManager THEN "dial" ELSE NotFound(w))
        /\ seen' = [seen EXCEPT ![w] = meta]
  /\ UNCHANGED <<lock, sock, meta, proc, spawner, ownerAlive, ownerPid, adopted>>

-----------------------------------------------------------------------------
(* The client.  Every proxy operation of multiprocessing dials the path    *)
(* anew, so the socket file must still be the same manager's.              *)

\* A connection to the path is answered by the process that linked it, and
\* passes the authkey challenge only at the manager the key belongs to.
Reaches(w) == sock = seen[w] /\ proc[seen[w]] \in Accepting

\* Mutant: the exception of a reused manager is not caught either.
ConnectFailedRaises(w) == "abort"

\* An exception in the constructor: a reused manager is cleaned up, a manager
\* just spawned makes the whole call raise.
ConnectFailed(w) == IF OwnManager(w) THEN "abort" ELSE "dropSock"

\* BaseManager.connect.
Dial(w) ==
  /\ GoTo(w, "dial", IF Reaches(w) THEN "create" ELSE ConnectFailed(w))
  /\ UNCHANGED <<lock, sock, meta, seen, proc, spawner, ownerAlive, ownerPid, adopted>>

\* get_platform_service, which waits in _get_service until the service is up.
CreateProxy(w) ==
  /\ GoTo(w, "create", IF lock = w THEN "leave" ELSE "connected")
  /\ Reaches(w)
  /\ proc[seen[w]] \in {"serving", "idling", "idled", "terminating"}
  /\ UNCHANGED <<lock, sock, meta, seen, proc, spawner, ownerAlive, ownerPid, adopted>>

\* The path lost its manager, the service could not be built, the process is
\* on its way out, or the service is not up within 60 s.
CreateFails(w) ==
  /\ GoTo(w, "create", ConnectFailed(w))
  /\ \/ ~Reaches(w)
     \/ proc[seen[w]] \in {"broken", "terminating"}
     \/ proc[seen[w]] = "bound" /\ "slow_init" \in Faults
  /\ UNCHANGED <<lock, sock, meta, seen, proc, spawner, ownerAlive, ownerPid, adopted>>

-----------------------------------------------------------------------------
(* cleanup_old_socket: two unlinks, of whatever is at the two paths.       *)

UnlinkSock(w, from, to) ==
  /\ GoTo(w, from, to)
  /\ sock' = NoManager
  /\ UNCHANGED <<lock, meta, seen, proc, spawner, ownerAlive, ownerPid, adopted>>

UnlinkMeta(w, from, to) ==
  /\ GoTo(w, from, to)
  /\ meta' = NoManager
  /\ UNCHANGED <<lock, sock, seen, proc, spawner, ownerAlive, ownerPid, adopted>>

DropSock(w) == UnlinkSock(w, "dropSock", "dropMeta")
DropMeta(w) == UnlinkMeta(w, "dropMeta", NotFound(w))

-----------------------------------------------------------------------------
(* The locked path.                                                        *)

\* Mutant: no re-check under the lock.
AcquireWithoutRecheck(w) ==
  /\ lock = NoWorker
  /\ GoTo(w, "lock", "clearSock")
  /\ lock' = w
  /\ UNCHANGED <<sock, meta, seen, proc, spawner, ownerAlive, ownerPid, adopted>>

\* Mutant: a lock request that does not wait.
AcquireWithoutWaiting(w) ==
  /\ GoTo(w, "lock", "checkSock")
  /\ lock' = w
  /\ UNCHANGED <<sock, meta, seen, proc, spawner, ownerAlive, ownerPid, adopted>>

Acquire(w) ==
  /\ lock = NoWorker
  /\ GoTo(w, "lock", "checkSock")
  /\ lock' = w
  /\ UNCHANGED <<sock, meta, seen, proc, spawner, ownerAlive, ownerPid, adopted>>

ClearSock(w) == UnlinkSock(w, "clearSock", "clearMeta")

\* Mutant: the clean-up before a launch forgets the .meta file.
ClearMetaForgotten(w) ==
  /\ GoTo(w, "clearMeta", "spawn")
  /\ UNCHANGED <<lock, sock, meta, seen, proc, spawner, ownerAlive, ownerPid, adopted>>

ClearMeta(w) == UnlinkMeta(w, "clearMeta", "spawn")

\* spawn_manager_process, with the PID that os.getppid() gives.
Spawn(w) ==
  \/ \E m \in Managers :
       /\ proc[m] = "unborn"
       /\ GoTo(w, "spawn", "await")
       /\ proc' = [proc EXCEPT ![m] = "starting"]
       /\ spawner' = [spawner EXCEPT ![m] = w]
       /\ seen' = [seen EXCEPT ![w] = m]
       /\ adopted' = IF OwnerOf[w] \in ownerAlive THEN adopted ELSE adopted \cup {m}
       /\ UNCHANGED <<lock, sock, meta, ownerAlive, ownerPid>>
  \/ /\ "spawn_error" \in Faults
     /\ GoTo(w, "spawn", "abort")
     /\ UNCHANGED <<lock, sock, meta, seen, proc, spawner, ownerAlive, ownerPid, adopted>>

\* wait_for_process_startup: any file at the path will do.
AwaitSock(w) ==
  /\ GoTo(w, "await", "openMeta")
  /\ sock # NoManager
  /\ UNCHANGED <<lock, sock, meta, seen, proc, spawner, ownerAlive, ownerPid, adopted>>

\* The path stays empty for 5 s; the launched process is left running.
AwaitTimeout(w) ==
  /\ GoTo(w, "await", "abort")
  /\ sock = NoManager
  /\ proc[seen[w]] # "starting" \/ "slow_start" \in Faults
  /\ UNCHANGED <<lock, sock, meta, seen, proc, spawner, ownerAlive, ownerPid, adopted>>

\* open(meta, "w") truncates or creates; a failure is logged and ignored.
OpenMeta(w) ==
  \/ /\ GoTo(w, "openMeta", "writeMeta")
     /\ meta' = EmptyMeta
     /\ UNCHANGED <<lock, sock, seen, proc, spawner, ownerAlive, ownerPid, adopted>>
  \/ /\ "meta_io" \in Faults
     /\ GoTo(w, "openMeta", "dial")
     /\ UNCHANGED <<lock, sock, meta, seen, proc, spawner, ownerAlive, ownerPid, adopted>>

\* The content reaches the file on close, if the file is still linked; a failure
\* is ignored as well, and leaves the file empty.
WriteMeta(w) ==
  /\ GoTo(w, "writeMeta", "dial")
  /\ \/ meta' = IF meta = EmptyMeta THEN seen[w] ELSE meta
     \/ "meta_io" \in Faults /\ meta' = meta
  /\ UNCHANGED <<lock, sock, seen, proc, spawner, ownerAlive, ownerPid, adopted>>

\* Mutant: the lock is released after a success only, not in a finally clause.
ReleaseOnSuccess(w) ==
  /\ \/ GoTo(w, "leave", "connected") /\ lock' = NoWorker
     \/ GoTo(w, "abort", "failed") /\ lock' = lock
  /\ UNCHANGED <<sock, meta, seen, proc, spawner, ownerAlive, ownerPid, adopted>>

\* Mutant: a return in the finally clause swallows the exception.
ReleaseSwallows(w) ==
  /\ \/ GoTo(w, "leave", "connected")
     \/ GoTo(w, "abort", "connected")
  /\ lock' = NoWorker
  /\ UNCHANGED <<sock, meta, seen, proc, spawner, ownerAlive, ownerPid, adopted>>

\* The finally clause.
Release(w) ==
  /\ \/ GoTo(w, "leave", "connected")
     \/ GoTo(w, "abort", "failed")
  /\ lock' = NoWorker
  /\ UNCHANGED <<sock, meta, seen, proc, spawner, ownerAlive, ownerPid, adopted>>

-----------------------------------------------------------------------------
\* The first call through the proxy dials the path once more.
FirstCall(w) ==
  /\ GoTo(w, "connected", IF Reaches(w) THEN "done" ELSE "failed")
  /\ UNCHANGED <<lock, sock, meta, seen, proc, spawner, ownerAlive, ownerPid, adopted>>

\* A worker is killed; the kernel drops its flock.
WorkerDies(w) ==
  /\ "worker_death" \in Faults
  /\ pc[w] \in Busy \cup {"connected"}
  /\ pc' = [pc EXCEPT ![w] = "gone"]
  /\ lock' = IF lock = w THEN NoWorker ELSE lock
  /\ UNCHANGED <<sock, meta, seen, proc, spawner, ownerAlive, ownerPid, adopted>>

Worker(w) ==
  \/ CheckSock(w) \/ CheckMeta(w) \/ Probe(w) \/ Kill(w) \/ ReadKey(w)
  \/ Dial(w) \/ CreateProxy(w) \/ CreateFails(w)
  \/ DropSock(w) \/ DropMeta(w)
  \/ Acquire(w) \/ ClearSock(w) \/ ClearMeta(w) \/ Spawn(w)
  \/ AwaitSock(w) \/ AwaitTimeout(w) \/ OpenMeta(w) \/ WriteMeta(w)
  \/ Release(w) \/ FirstCall(w)

-----------------------------------------------------------------------------
(* The manager process.                                                    *)

Become(m, from, to) ==
  /\ proc[m] \in from
  /\ proc' = [proc EXCEPT ![m] = to]

\* get_server binds the path; a file already there makes the process exit 1.
Bind(m) ==
  /\ Become(m, {"starting"}, IF sock = NoManager THEN "bound" ELSE "dead")
  /\ sock' = IF sock = NoManager THEN m ELSE sock
  /\ UNCHANGED <<pc, lock, meta, seen, spawner, ownerAlive, ownerPid, adopted>>

\* _init_service sets the service, or the error, and then the ready event.
InitService(m) ==
  /\ \/ Become(m, {"bound"}, "serving")
     \/ "init_error" \in Faults /\ Become(m, {"bound"}, "broken")
  /\ UNCHANGED <<pc, lock, sock, meta, seen, spawner, ownerAlive, ownerPid, adopted>>

\* The idle monitor decides to stop; without a service it never does.
IdleStop(m) ==
  /\ "idle" \in Faults
  /\ Become(m, {"serving"}, "idling")
  /\ UNCHANGED <<pc, lock, sock, meta, seen, spawner, ownerAlive, ownerPid, adopted>>

\* It then cleans up the path, whoever owns it by now, and exits.
IdleUnlinkSock(m) ==
  /\ Become(m, {"idling"}, "idled")
  /\ sock' = NoManager
  /\ UNCHANGED <<pc, lock, meta, seen, spawner, ownerAlive, ownerPid, adopted>>

IdleExit(m) ==
  /\ Become(m, {"idled"}, "dead")
  /\ meta' = NoManager
  /\ UNCHANGED <<pc, lock, sock, seen, spawner, ownerAlive, ownerPid, adopted>>

\* SIGTERM shuts the service down; sys.exit then runs the finalizer of the
\* listener, which unlinks the path and not the .meta file.
Terminate(m) ==
  /\ "sigterm" \in Faults
  /\ Become(m, {"bound", "serving", "broken"}, "terminating")
  /\ UNCHANGED <<pc, lock, sock, meta, seen, spawner, ownerAlive, ownerPid, adopted>>

TerminateExit(m) ==
  /\ Become(m, {"terminating"}, "dead")
  /\ sock' = NoManager
  /\ UNCHANGED <<pc, lock, meta, seen, spawner, ownerAlive, ownerPid, adopted>>

\* The PID a manager watches answers for nobody.  The process that adopted an
\* orphan does not exit, or belongs to another user: PermissionError counts as
\* running (manager_process.py:327-328).
WatchedGone(m) ==
  /\ spawner[m] # NoWorker
  /\ m \notin adopted
  /\ OwnerOf[spawner[m]] \notin ownerPid

\* Mutant: the watchdog gives up when there is no service to shut down.
WatchdogOnService(m) ==
  /\ WatchedGone(m)
  /\ Become(m, Running \ {"broken"}, "dead")
  /\ UNCHANGED <<pc, lock, sock, meta, seen, spawner, ownerAlive, ownerPid, adopted>>

\* The owner watchdog: os._exit once the PID it watches is gone, no clean-up.
Watchdog(m) ==
  /\ WatchedGone(m)
  /\ Become(m, Running, "dead")
  /\ UNCHANGED <<pc, lock, sock, meta, seen, spawner, ownerAlive, ownerPid, adopted>>

Crash(m) ==
  /\ "crash" \in Faults
  /\ Become(m, Running, "dead")
  /\ UNCHANGED <<pc, lock, sock, meta, seen, spawner, ownerAlive, ownerPid, adopted>>

\* A dead process stays a zombie, or its PID is taken, for a while.
PidLingers(m) ==
  /\ "lingering_pid" \in Faults
  /\ \/ Become(m, {"dead"}, "lingering")
     \/ Become(m, {"lingering"}, "dead")
  /\ UNCHANGED <<pc, lock, sock, meta, seen, spawner, ownerAlive, ownerPid, adopted>>

Manager(m) ==
  \/ Bind(m) \/ InitService(m) \/ IdleUnlinkSock(m) \/ IdleExit(m)
  \/ TerminateExit(m) \/ Watchdog(m)

Disturb(m) == IdleStop(m) \/ Terminate(m) \/ Crash(m) \/ PidLingers(m)

\* A playbook ends once none of its workers is in the middle of a task, or is
\* killed at any time.
OwnerExit(o) ==
  /\ o \in ownerAlive
  /\ \/ "owner_killed" \in Faults
     \/ \A w \in Workers : OwnerOf[w] = o => pc[w] \in {"ready"} \cup Finished
  /\ ownerAlive' = ownerAlive \ {o}
  /\ ownerPid' = ownerPid \ {o}
  /\ UNCHANGED <<pc, lock, sock, meta, seen, proc, spawner, adopted>>

\* Its PID answers for a while all the same: a zombie, or another process.
OwnerPidLingers(o) ==
  /\ "lingering_owner" \in Faults
  /\ o \notin ownerAlive
  /\ ownerPid' = IF o \in ownerPid THEN ownerPid \ {o} ELSE ownerPid \cup {o}
  /\ UNCHANGED <<pc, lock, sock, meta, seen, proc, spawner, ownerAlive, adopted>>

-----------------------------------------------------------------------------
Next ==
  \/ \E w \in Workers : Begin(w) \/ Worker(w) \/ WorkerDies(w)
  \/ \E m \in Managers : Manager(m) \/ Disturb(m)
  \/ \E o \in Owners : OwnerExit(o) \/ OwnerPidLingers(o)

Spec == Init /\ [][Next]_vars

(* A worker that runs keeps running, and so does a manager: both are OS    *)
(* processes whose waits are bounded (poll loops, 5 s, 60 s).  The lock is *)
(* free again and again while others queue on it, so taking it needs       *)
(* strong fairness: flock wakes its waiters in turn.  Starting a task,     *)
(* faults and the end of a playbook get no fairness.                       *)
Fairness ==
  /\ \A w \in Workers : WF_vars(Worker(w)) /\ SF_vars(Acquire(w))
  /\ \A m \in Managers : WF_vars(Manager(m))

FairSpec == Spec /\ Fairness

-----------------------------------------------------------------------------
(* Properties.                                                             *)

\* Every variable stays within its type.
TypeOK ==
  /\ pc \in [Workers -> Points]
  /\ lock \in Workers \cup {NoWorker}
  /\ sock \in Managers \cup {NoManager}
  /\ meta \in Managers \cup {NoManager, EmptyMeta}
  /\ seen \in [Workers -> Managers \cup {NoManager}]
  /\ proc \in [Managers -> ProcStates]
  /\ spawner \in [Managers -> Workers \cup {NoWorker}]
  /\ ownerAlive \subseteq Owners
  /\ ownerPid \subseteq Owners
  /\ adopted \subseteq Managers

\* A worker that raised or was killed before its task was done.
GaveUp(w) == pc[w] \in {"abort", "failed", "gone"}

\* The two files at the path describe the same process: the .meta file never
\* pairs one manager's PID and authkey with another manager's socket, unless
\* the worker that launched the listening one gave up on it (http.py launches
\* under the lock but a launch that timed out is left running and may bind
\* late, process_manager.py:306-326).
FilesAgree ==
  sock # NoManager /\ meta \in Managers /\ sock # meta => GaveUp(spawner[sock])

\* A manager that is up, whose two files are in place, and whose launcher got
\* its client from it.
Published(m) ==
  /\ m # NoManager
  /\ meta = m
  /\ proc[m] = "serving"
  /\ pc[spawner[m]] \in {"connected", "done"}

\* The worker that holds the lock never deletes the socket of a published
\* manager: the re-check under the lock (http.py:367-400) finds it and uses it,
\* whatever other workers do to the files without the lock in the meantime.
LockHolderSparesPublished ==
  \A w \in Workers :
    lock = w /\ pc[w] \in {"dropSock", "clearSock"} => ~Published(sock)

\* Action property: a manager is only ever launched by the worker that holds
\* the lock, and that worker keeps the lock over the launch (http.py:361-420).
LaunchUnderLock ==
  [][\A m \in Managers :
       spawner'[m] # spawner[m] => lock = spawner'[m] /\ lock' = lock]_vars

\* Every call of get_client comes to an end, whatever the others do: the lock
\* is given back on every path and every wait is bounded (http.py:361-456).
EveryCallEnds ==
  \A w \in Workers : pc[w] \in Busy ~> pc[w] \in {"connected"} \cup Finished

\* A manager launched while its playbook ran exits once the playbook is gone and
\* its PID stays free, whatever became of the worker that launched it and of the
\* files (manager_process.py:316-333).  One launched later, by a worker that
\* went on alone, watches another process and stays (http.py:422).
NoOrphans ==
  \A m \in Managers :
    (proc[m] \in Running /\ m \notin adopted /\ OwnerOf[spawner[m]] \notin ownerAlive)
      ~> (proc[m] \notin Running \/ OwnerOf[spawner[m]] \in ownerPid)

-----------------------------------------------------------------------------
(* Refinement of ManagerService.                                           *)

CallState(w) ==
  CASE pc[w] = "ready" -> "idle"
    [] pc[w] \in {"leave", "connected", "done"} -> "served"
    [] pc[w] \in {"failed", "gone"} -> "refused"
    [] OTHER -> "pending"

ManagerState(m) ==
  CASE proc[m] = "unborn" -> "none"
    [] proc[m] \in Running -> "running"
    [] OTHER -> "exited"

Service == INSTANCE ManagerService WITH
  call <- [w \in Workers |-> CallState(w)],
  turn <- lock,
  manager <- [m \in Managers |-> ManagerState(m)],
  launchedBy <- spawner,
  client <- [w \in Workers |->
               IF CallState(w) = "served" THEN seen[w] ELSE NoManager]

\* The protocol on files, keys and sockets keeps the promise ManagerService
\* makes to a task.
ImplementsService == Service!Spec

-----------------------------------------------------------------------------
(* What the plugin documents, and the code does not keep.                  *)

\* "exactly one worker spawns a new manager while the others block on the
\* lock, then find the running manager on the re-check and connect to it"
\* (http.py:355-357).
OneWorkerSpawns ==
  \A m, n \in Managers :
    spawner[m] # NoWorker /\ spawner[n] # NoWorker => m = n
===============================================================================
