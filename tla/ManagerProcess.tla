---------------------------- MODULE ManagerProcess ----------------------------
(***************************************************************************)
(* One manager process from the moment its socket is bound: the threads of *)
(* manager_process.main - service initialisation, idle monitor, owner      *)
(* watchdog, signal handler - and the RPC threads that run PlatformService *)
(* (platform_manager.py).  ManagerSpawn sees the same process from outside.*)
(*                                                                         *)
(* Time passes in ticks.  A thread whose sleep or wait is over moves       *)
(* before time does; everything else takes as long as it likes.            *)
(***************************************************************************)
EXTENDS Naturals

CONSTANTS
  Calls,          \* RPCs of clients, each made once
  IdleTimeout,    \* config.idle_timeout; 0 disables the idle monitor
  PollFloor,      \* 5 s, the shortest sleep of the idle monitor
  PollCap,        \* 60 s, its longest
  WatchInterval,  \* 3 s, the sleep of the owner watchdog
  InitWait,       \* 60 s, how long a shutdown waits for the service
  Horizon,        \* clocks stop counting here
  Uses            \* what clients and the environment may do

UseKinds == {"direct", "request", "shutdown", "sigterm", "init_error", "owner_exit"}

ASSUME ProcessAssumption ==
  /\ IdleTimeout \in Nat
  /\ PollFloor \in Nat \ {0}
  /\ PollCap \in Nat
  /\ WatchInterval \in Nat \ {0}
  /\ InitWait \in Nat \ {0}
  /\ Horizon \in Nat
  /\ Horizon > IdleTimeout + PollFloor + PollCap
  /\ Horizon > WatchInterval + InitWait
  /\ Uses \subseteq UseKinds

VARIABLES
  up,                 \* the process runs
  service,            \* the service container: none yet, ready or failed
  shutdownRequested,  \* PlatformService._shutdown_requested
  idleFor,            \* time since record_activity
  monitor, nap,       \* the idle monitor, and what is left of its sleep
  watcher, watchNap,  \* the owner watchdog, and what is left of its sleep or wait
  main, mainWait,     \* the main thread, and what is left of its wait
  ownerAlive,         \* the ansible-playbook process
  goneFor,            \* time since it ended
  call,               \* progress of each RPC
  authLock            \* the RPCs inside PlatformService._auth_lock, at most one

clocks == <<idleFor, nap, watchNap, mainWait, goneFor>>
threads == <<monitor, watcher, main>>
processVars == <<up, service, shutdownRequested, ownerAlive, call, authLock, clocks, threads>>

Smaller(a, b) == IF a < b THEN a ELSE b
Larger(a, b) == IF a < b THEN b ELSE a

\* _compute_poll_interval.
PollInterval ==
  IF IdleTimeout = 0 THEN PollCap
  ELSE Larger(PollFloor, Smaller(PollCap, IdleTimeout \div 10))

InFlight == {"running", "sent", "asked", "recovering", "reauth", "askedAgain"}
CallStates == InFlight \cup {"none", "returned", "lost"}

Init ==
  /\ up = TRUE
  /\ service = "none"
  /\ shutdownRequested = FALSE
  /\ idleFor = 0
  /\ monitor = IF IdleTimeout > 0 THEN "asleep" ELSE "off"
  /\ nap = PollInterval
  /\ watcher = "watching"
  /\ watchNap = WatchInterval
  /\ main = "serving"
  /\ mainWait = 0
  /\ ownerAlive = TRUE
  /\ goneFor = 0
  /\ call = [c \in Calls |-> "none"]
  /\ authLock = {}

-----------------------------------------------------------------------------
(* Time.                                                                   *)

Older(t) == IF t < Horizon THEN t + 1 ELSE t

Less(t) == IF t > 0 THEN t - 1 ELSE 0

\* Mutant: a shutdown waits for the service however long that takes.
ReadyOnly(wait) == service # "none"

\* _service_ready.wait is over.
ReadyOrTimedOut(wait) == service # "none" \/ wait = 0

\* No thread has anything to do before the next tick.
AllWait ==
  /\ monitor = "off" \/ (monitor = "asleep" /\ nap > 0)
  /\ IF watcher = "closing" THEN ~ReadyOrTimedOut(watchNap) ELSE watchNap > 0
  /\ main = "closing" => ~ReadyOrTimedOut(mainWait)

Tick ==
  /\ up
  /\ AllWait
  /\ idleFor' = IF service = "ready" THEN Older(idleFor) ELSE idleFor
  /\ nap' = IF monitor = "asleep" THEN Less(nap) ELSE nap
  /\ watchNap' = Less(watchNap)
  /\ mainWait' = Less(mainWait)
  /\ goneFor' = IF ownerAlive THEN 0 ELSE Older(goneFor)
  /\ UNCHANGED <<up, service, shutdownRequested, ownerAlive, call, authLock, threads>>

-----------------------------------------------------------------------------
(* The service.                                                            *)

\* Mutant: record_activity does not store the time.
RecordActivityForgotten == idleFor' = idleFor

RecordActivity == idleFor' = 0
NoActivity == idleFor' = idleFor

\* _init_service, in its thread; the ready event is set in both cases.
InitService ==
  /\ up
  /\ service = "none"
  /\ \/ service' = "ready"
     \/ "init_error" \in Uses /\ service' = "failed"
  /\ idleFor' = 0
  /\ UNCHANGED <<up, shutdownRequested, ownerAlive, call, authLock, nap, watchNap,
                 mainWait, goneFor, threads>>

\* What an RPC thread leaves alone.
RpcFrame ==
  UNCHANGED <<up, service, ownerAlive, nap, watchNap, mainWait, goneFor, threads>>

CallGoes(c, from, to) ==
  /\ up
  /\ call[c] \in from
  /\ call' = [call EXCEPT ![c] = to]
  /\ RpcFrame

\* execute, search_api or lookup_resource_id begins.
BeginCall(c) ==
  /\ service = "ready"
  /\ CallGoes(c, {"none"}, "running")
  /\ RecordActivity
  /\ UNCHANGED <<shutdownRequested, authLock>>

\* A request straight through the session: find, create, update, delete, lookups.
SendDirect(c) ==
  /\ "direct" \in Uses
  /\ CallGoes(c, {"running"}, "sent")
  /\ NoActivity
  /\ UNCHANGED <<shutdownRequested, authLock>>

\* A request through _make_request.
SendRequest(c) ==
  /\ "request" \in Uses
  /\ CallGoes(c, {"running"}, "asked")
  /\ RecordActivity
  /\ UNCHANGED <<shutdownRequested, authLock>>

\* The gateway answers, or the call raises on what it answers.
Answer(c) ==
  /\ \/ CallGoes(c, {"sent", "asked", "askedAgain"}, "running")
     \/ CallGoes(c, {"sent", "asked", "askedAgain"}, "returned")
  /\ NoActivity
  /\ UNCHANGED <<shutdownRequested, authLock>>

\* 401: _handle_auth_error.  Nothing ever stores a refresh token, so
\* _refresh_token returns False and re-authentication is next.  A second 401 of
\* the same attempt raises, but if the request times out after a recovery, the
\* next attempt may meet a 401 again; it records no activity first.
Unauthorized(c) ==
  /\ CallGoes(c, {"asked", "askedAgain"}, "recovering")
  /\ NoActivity
  /\ UNCHANGED <<shutdownRequested, authLock>>

\* Mutant: re-authentication without _auth_lock.
BeginAuthUnlocked(c) ==
  /\ CallGoes(c, {"recovering"}, "reauth")
  /\ authLock' = authLock \cup {c}
  /\ NoActivity
  /\ UNCHANGED shutdownRequested

BeginAuth(c) ==
  /\ authLock = {}
  /\ CallGoes(c, {"recovering"}, "reauth")
  /\ authLock' = {c}
  /\ NoActivity
  /\ UNCHANGED shutdownRequested

\* _authenticate succeeds and the request is sent once more, or it raises.
EndAuth(c) ==
  /\ \/ CallGoes(c, {"reauth"}, "askedAgain") /\ RecordActivity
     \/ CallGoes(c, {"reauth"}, "returned") /\ NoActivity
  /\ authLock' = {}
  /\ UNCHANGED shutdownRequested

Return(c) ==
  /\ CallGoes(c, {"running"}, "returned")
  /\ NoActivity
  /\ UNCHANGED <<shutdownRequested, authLock>>

\* The shutdown method, called through the proxy (ManagerRPCClient.shutdown_manager).
Shutdown ==
  /\ "shutdown" \in Uses
  /\ up
  /\ service = "ready"
  /\ ~shutdownRequested
  /\ shutdownRequested' = TRUE
  /\ NoActivity
  /\ RpcFrame
  /\ UNCHANGED <<call, authLock>>

Rpc(c) ==
  \/ SendDirect(c) \/ SendRequest(c) \/ Answer(c) \/ Unauthorized(c)
  \/ BeginAuth(c) \/ EndAuth(c) \/ Return(c)

-----------------------------------------------------------------------------
(* The ends of the process.                                                *)

\* os._exit and sys.exit take the RPC threads, all daemons, with them.
Exit ==
  /\ up' = FALSE
  /\ call' = [c \in Calls |-> IF call[c] \in InFlight THEN "lost" ELSE call[c]]
  /\ UNCHANGED <<service, ownerAlive, authLock, clocks>>

\* Mutant: the monitor compares with the wrong end of its interval.
ShouldExitForIdleLate == ~shutdownRequested /\ idleFor > IdleTimeout + PollInterval

ShouldExitForIdle == ~shutdownRequested /\ idleFor >= IdleTimeout

MonitorWakes ==
  /\ up
  /\ monitor = "asleep"
  /\ nap = 0
  /\ IF service = "ready" /\ ShouldExitForIdle
       THEN monitor' = "stopping" /\ nap' = nap
       ELSE nap' = PollInterval /\ UNCHANGED monitor
  /\ UNCHANGED <<up, service, shutdownRequested, ownerAlive, call, authLock,
                 idleFor, watchNap, mainWait, goneFor, watcher, main>>

MonitorShutsDown ==
  /\ up
  /\ monitor = "stopping"
  /\ monitor' = "closed"
  /\ shutdownRequested' = TRUE
  /\ UNCHANGED <<up, service, ownerAlive, call, authLock, clocks, watcher, main>>

\* server.shutdown needs an argument, so it raises and is ignored; then the
\* files go and the process ends.
MonitorExits ==
  /\ up
  /\ monitor = "closed"
  /\ Exit
  /\ UNCHANGED <<shutdownRequested, threads>>

\* _shutdown_service, as the watchdog and the signal handler call it.
ShutdownService == shutdownRequested' = (shutdownRequested \/ service = "ready")

WatcherWakes ==
  /\ up
  /\ watcher = "watching"
  /\ watchNap = 0
  /\ IF ownerAlive
       THEN watchNap' = WatchInterval /\ UNCHANGED watcher
       ELSE watchNap' = InitWait /\ watcher' = "closing"
  /\ UNCHANGED <<up, service, shutdownRequested, ownerAlive, call, authLock,
                 idleFor, nap, mainWait, goneFor, monitor, main>>

WatcherExits ==
  /\ up
  /\ watcher = "closing"
  /\ ReadyOrTimedOut(watchNap)
  /\ ShutdownService
  /\ Exit
  /\ UNCHANGED threads

\* SIGTERM or SIGINT: the handler runs in the main thread.
Terminate ==
  /\ "sigterm" \in Uses
  /\ up
  /\ main = "serving"
  /\ main' = "closing"
  /\ mainWait' = InitWait
  /\ UNCHANGED <<up, service, shutdownRequested, ownerAlive, call, authLock,
                 idleFor, nap, watchNap, goneFor, monitor, watcher>>

MainExits ==
  /\ up
  /\ main = "closing"
  /\ ReadyOrTimedOut(mainWait)
  /\ ShutdownService
  /\ Exit
  /\ UNCHANGED threads

\* The PID the manager watches stops answering: its playbook has ended, and the
\* PID is nobody else's.  A PID that goes on answering, as of another user's
\* process (PermissionError, manager_process.py:327-328), is ManagerSpawn's.
OwnerExits ==
  /\ "owner_exit" \in Uses
  /\ ownerAlive
  /\ ownerAlive' = FALSE
  /\ UNCHANGED <<up, service, shutdownRequested, call, authLock, clocks, threads>>

-----------------------------------------------------------------------------
Threads ==
  \/ MonitorWakes \/ MonitorShutsDown \/ MonitorExits
  \/ WatcherWakes \/ WatcherExits \/ MainExits

Next ==
  \/ Tick
  \/ InitService
  \/ Shutdown
  \/ Threads
  \/ Terminate
  \/ OwnerExits
  \/ \E c \in Calls : BeginCall(c) \/ Rpc(c)

Spec == Init /\ [][Next]_processVars

-----------------------------------------------------------------------------
(* Properties.                                                             *)

\* Every variable stays within its type; one RPC at a time re-authenticates.
TypeOK ==
  /\ up \in BOOLEAN
  /\ service \in {"none", "ready", "failed"}
  /\ shutdownRequested \in BOOLEAN
  /\ idleFor \in Nat
  /\ monitor \in {"off", "asleep", "stopping", "closed"}
  /\ nap \in Nat
  /\ watcher \in {"watching", "closing"}
  /\ watchNap \in Nat
  /\ main \in {"serving", "closing"}
  /\ mainWait \in Nat
  /\ ownerAlive \in BOOLEAN
  /\ goneFor \in Nat
  /\ call \in [Calls -> CallStates]
  /\ authLock \subseteq Calls
  /\ \A c, d \in authLock : c = d

\* "giving a worst-case overshoot of one poll interval": as long as nobody has
\* asked the service to shut down, a running manager has never been idle for
\* the timeout and a poll interval on top of it (manager_process.py:16-30,
\* 368-376; platform_manager.py:131-138).
OvershootBounded ==
  up /\ service = "ready" /\ ~shutdownRequested /\ IdleTimeout > 0 =>
    idleFor < IdleTimeout + PollInterval

\* A manager outlives its playbook by one watchdog interval and the wait for
\* a service that is still being built, whatever the other threads and the
\* clients do (manager_process.py:240-245, 303-336).
OrphanExitsInTime ==
  up => goneFor <= WatchInterval + InitWait
===============================================================================
