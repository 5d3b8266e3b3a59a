-------------------------- MODULE ManagerSpawnProofs --------------------------
(***************************************************************************)
(* Safety of ManagerSpawn, for any sets of workers, managers and playbooks *)
(* and any choice of faults; and that it implements ManagerService.        *)
(***************************************************************************)
EXTENDS ManagerSpawn, TLAPS

-----------------------------------------------------------------------------
(* The inductive invariant.                                                *)

\* The lock is held wherever files are written or processes launched.
Held == \A w \in Workers : pc[w] \in Launching \cup Leaving => lock = w

\* The lock holder is in the middle of its call.
HolderBusy == lock # NoWorker => pc[lock] \in Busy

\* A worker's own manager stays the one in its hands, and the worker keeps
\* the lock until it has a client of it or has given up.
AfterSpawn ==
  {"await", "openMeta", "writeMeta", "dial", "create", "leave", "abort",
   "connected", "done", "failed", "gone"}

Owned ==
  \A m \in Managers :
    spawner[m] # NoWorker =>
      /\ seen[spawner[m]] = m
      /\ pc[spawner[m]] \in AfterSpawn
      /\ pc[spawner[m]] \in Connecting => lock = spawner[m]

\* What a worker has in its hands while it waits for its manager.
Expecting ==
  \A w \in Workers :
    pc[w] \in {"await", "openMeta", "writeMeta"} =>
      seen[w] \in Managers /\ spawner[seen[w]] = w

\* A worker that talks to a manager talks to a manager that was launched.
InHand ==
  \A w \in Workers :
    pc[w] \in {"kill", "dial", "create", "leave", "connected", "done"} =>
      seen[w] \in Managers /\ spawner[seen[w]] # NoWorker

Born == \A m \in Managers : proc[m] = "unborn" <=> spawner[m] = NoWorker

\* No worker has a client of a manager of its own that is not up yet.
NotUpYet ==
  \A m \in Managers :
    /\ proc[m] = "starting" =>
         pc[spawner[m]] \in {"await", "openMeta", "writeMeta", "dial"}
           \/ GaveUp(spawner[m])
    /\ proc[m] = "bound" => pc[spawner[m]] \notin {"leave", "connected", "done"}

\* The files name managers that were launched.
Linked ==
  /\ sock # NoManager => proc[sock] \notin {"unborn", "starting"}
  /\ meta \in Managers => spawner[meta] # NoWorker

\* The .meta file between its removal under the lock and its next content.
MetaQuiet ==
  /\ \A w \in Workers : pc[w] = "spawn" => meta = NoManager
  /\ \A m \in Managers :
       spawner[m] # NoWorker
         /\ pc[spawner[m]] \in {"await", "openMeta", "writeMeta", "dial"} =>
       meta \in {NoManager, EmptyMeta, m}

\* After the path is cleared under the lock, only an abandoned manager can
\* appear there beside the one the lock holder launches.
SockQuiet ==
  \A w \in Workers :
    pc[w] \in {"clearMeta", "spawn", "await", "openMeta", "writeMeta"}
      /\ sock # NoManager /\ spawner[sock] # w =>
    GaveUp(spawner[sock])

SpawnInv ==
  /\ TypeOK
  /\ Held
  /\ HolderBusy
  /\ Owned
  /\ Expecting
  /\ InHand
  /\ Born
  /\ NotUpYet
  /\ Linked
  /\ MetaQuiet
  /\ SockQuiet
  /\ FilesAgree

\* What the lock holder's look-up knows of a published manager.
LookUpSound ==
  \A w \in Workers :
    lock = w =>
      /\ pc[w] \in {"dropSock", "dropMeta", "clearSock"} => ~Published(sock)
      /\ pc[w] \in {"kill", "dial", "create"} /\ Published(sock) => seen[w] = sock

-----------------------------------------------------------------------------
(* Type correctness.                                                       *)

\* No step leaves the types.
LEMMA TypeStep == TypeOK /\ [Next]_vars => TypeOK'
<1> USE ConstantsAssumption DEF TypeOK, Points, Busy, LookUp, Connecting, Dropping,
      Launching, Leaving, Finished, ProcStates, GoTo, NotFound
<1> SUFFICES ASSUME TypeOK, [Next]_vars
             PROVE  TypeOK'
  OBVIOUS
<1>1. ASSUME NEW w \in Workers, Begin(w) \/ WorkerDies(w)
      PROVE  TypeOK'
  BY <1>1 DEF Begin, WorkerDies
<1>2. ASSUME NEW w \in Workers,
             CheckSock(w) \/ CheckMeta(w) \/ Probe(w) \/ Kill(w) \/ ReadKey(w)
      PROVE  TypeOK'
  BY <1>2 DEF CheckSock, CheckMeta, Probe, Kill, ReadKey
<1>3. ASSUME NEW w \in Workers, Dial(w) \/ CreateProxy(w) \/ CreateFails(w)
      PROVE  TypeOK'
  BY <1>3 DEF Dial, CreateProxy, CreateFails, ConnectFailed
<1>4. ASSUME NEW w \in Workers,
             DropSock(w) \/ DropMeta(w) \/ ClearSock(w) \/ ClearMeta(w)
      PROVE  TypeOK'
  BY <1>4 DEF DropSock, DropMeta, ClearSock, ClearMeta, UnlinkSock, UnlinkMeta
<1>5. ASSUME NEW w \in Workers, Acquire(w) \/ Release(w) \/ FirstCall(w)
      PROVE  TypeOK'
  BY <1>5 DEF Acquire, Release, FirstCall
<1>6. ASSUME NEW w \in Workers, Spawn(w)
      PROVE  TypeOK'
  BY <1>6 DEF Spawn
<1>7. ASSUME NEW w \in Workers,
             AwaitSock(w) \/ AwaitTimeout(w) \/ OpenMeta(w) \/ WriteMeta(w)
      PROVE  TypeOK'
  BY <1>7 DEF AwaitSock, AwaitTimeout, OpenMeta, WriteMeta
<1>8. ASSUME NEW m \in Managers, Manager(m)
      PROVE  TypeOK'
  BY <1>8 DEF Manager, Bind, InitService, IdleUnlinkSock, IdleExit, TerminateExit,
       Watchdog, Become
<1>9. ASSUME NEW m \in Managers, Disturb(m)
      PROVE  TypeOK'
  BY <1>9 DEF Disturb, IdleStop, Terminate, Crash, PidLingers, Become
<1>10. ASSUME NEW o \in Owners, OwnerExit(o) \/ OwnerPidLingers(o)
       PROVE  TypeOK'
  BY <1>10 DEF OwnerExit, OwnerPidLingers
<1>11. CASE UNCHANGED vars
  BY <1>11 DEF vars
<1>12. QED
  BY <1>1, <1>2, <1>3, <1>4, <1>5, <1>6, <1>7, <1>8, <1>9, <1>10, <1>11
  DEF Next, Worker

\* Every variable stays within its type.
THEOREM TypeCorrect == Spec => []TypeOK
<1>1. Init => TypeOK
  BY ConstantsAssumption DEF Init, TypeOK, Points, ProcStates
<1>2. QED
  BY <1>1, TypeStep, PTL DEF Spec

\* Whoever writes files or launches holds the lock.
LEMMA HeldStep == SpawnInv /\ [Next]_vars => Held'
<1> USE ConstantsAssumption DEF TypeOK, GoTo, NotFound, Launching, Leaving,
      SpawnInv, Held, Connecting, Owned, Expecting, Born, AfterSpawn
<1> SUFFICES ASSUME SpawnInv, [Next]_vars
             PROVE  Held'
  OBVIOUS
<1>1. ASSUME NEW w \in Workers, Begin(w) \/ WorkerDies(w)
      PROVE  Held'
  BY <1>1 DEF Begin, WorkerDies
<1>2. ASSUME NEW w \in Workers, CheckSock(w) \/ CheckMeta(w) \/ Probe(w) \/ Kill(w) \/ ReadKey(w)
      PROVE  Held'
  BY <1>2 DEF CheckSock, CheckMeta, Probe, Kill, ReadKey
<1>3. ASSUME NEW w \in Workers, Dial(w) \/ CreateProxy(w) \/ CreateFails(w)
      PROVE  Held'
  BY <1>3 DEF Dial, CreateProxy, CreateFails, ConnectFailed, Reaches,
       OwnManager, Accepting
<1>4. ASSUME NEW w \in Workers, DropSock(w) \/ DropMeta(w) \/ ClearSock(w) \/ ClearMeta(w)
      PROVE  Held'
  BY <1>4 DEF DropSock, DropMeta, ClearSock, ClearMeta, UnlinkSock, UnlinkMeta
<1>5. ASSUME NEW w \in Workers, Acquire(w) \/ Release(w) \/ FirstCall(w)
      PROVE  Held'
  BY <1>5 DEF Acquire, Release, FirstCall
<1>6. ASSUME NEW w \in Workers, Spawn(w)
      PROVE  Held'
  BY <1>6 DEF Spawn
<1>7. ASSUME NEW w \in Workers, AwaitSock(w) \/ AwaitTimeout(w) \/ OpenMeta(w) \/ WriteMeta(w)
      PROVE  Held'
  BY <1>7 DEF AwaitSock, AwaitTimeout, OpenMeta, WriteMeta
<1>8. ASSUME NEW m \in Managers, Manager(m)
      PROVE  Held'
  BY <1>8 DEF Manager, Bind, InitService, IdleUnlinkSock, IdleExit,
       TerminateExit, Watchdog, Become, Running, Accepting
<1>9. ASSUME NEW m \in Managers, Disturb(m)
      PROVE  Held'
  BY <1>9 DEF Disturb, IdleStop, Terminate, Crash, PidLingers, Become, Running,
       Accepting
<1>10. ASSUME NEW o \in Owners, OwnerExit(o) \/ OwnerPidLingers(o)
      PROVE  Held'
  BY <1>10 DEF OwnerExit, OwnerPidLingers
<1>11. CASE UNCHANGED vars
  BY <1>11 DEF vars
<1>12. QED
  BY <1>1, <1>2, <1>3, <1>4, <1>5, <1>6, <1>7, <1>8, <1>9, <1>10, <1>11
  DEF Next, Worker

\* The lock is never left behind by a call that has ended.
LEMMA HolderBusyStep == SpawnInv /\ [Next]_vars => HolderBusy'
<1> USE ConstantsAssumption DEF TypeOK, GoTo, NotFound, Launching, Leaving,
      SpawnInv, Held, HolderBusy, Busy, LookUp, Connecting, Dropping
<1> SUFFICES ASSUME SpawnInv, [Next]_vars
             PROVE  HolderBusy'
  OBVIOUS
<1>1. ASSUME NEW w \in Workers, Begin(w) \/ WorkerDies(w)
      PROVE  HolderBusy'
  BY <1>1 DEF Begin, WorkerDies
<1>2. ASSUME NEW w \in Workers, CheckSock(w) \/ CheckMeta(w) \/ Probe(w) \/ Kill(w) \/ ReadKey(w)
      PROVE  HolderBusy'
  BY <1>2 DEF CheckSock, CheckMeta, Probe, Kill, ReadKey
<1>3. ASSUME NEW w \in Workers, Dial(w) \/ CreateProxy(w) \/ CreateFails(w)
      PROVE  HolderBusy'
  BY <1>3 DEF Dial, CreateProxy, CreateFails, ConnectFailed, Reaches,
       OwnManager, Accepting
<1>4. ASSUME NEW w \in Workers, DropSock(w) \/ DropMeta(w) \/ ClearSock(w) \/ ClearMeta(w)
      PROVE  HolderBusy'
  BY <1>4 DEF DropSock, DropMeta, ClearSock, ClearMeta, UnlinkSock, UnlinkMeta
<1>5. ASSUME NEW w \in Workers, Acquire(w) \/ Release(w) \/ FirstCall(w)
      PROVE  HolderBusy'
  BY <1>5 DEF Acquire, Release, FirstCall
<1>6. ASSUME NEW w \in Workers, Spawn(w)
      PROVE  HolderBusy'
  BY <1>6 DEF Spawn
<1>7. ASSUME NEW w \in Workers, AwaitSock(w) \/ AwaitTimeout(w) \/ OpenMeta(w) \/ WriteMeta(w)
      PROVE  HolderBusy'
  BY <1>7 DEF AwaitSock, AwaitTimeout, OpenMeta, WriteMeta
<1>8. ASSUME NEW m \in Managers, Manager(m)
      PROVE  HolderBusy'
  BY <1>8 DEF Manager, Bind, InitService, IdleUnlinkSock, IdleExit,
       TerminateExit, Watchdog, Become, Running, Accepting
<1>9. ASSUME NEW m \in Managers, Disturb(m)
      PROVE  HolderBusy'
  BY <1>9 DEF Disturb, IdleStop, Terminate, Crash, PidLingers, Become, Running,
       Accepting
<1>10. ASSUME NEW o \in Owners, OwnerExit(o) \/ OwnerPidLingers(o)
      PROVE  HolderBusy'
  BY <1>10 DEF OwnerExit, OwnerPidLingers
<1>11. CASE UNCHANGED vars
  BY <1>11 DEF vars
<1>12. QED
  BY <1>1, <1>2, <1>3, <1>4, <1>5, <1>6, <1>7, <1>8, <1>9, <1>10, <1>11
  DEF Next, Worker

\* A worker that launched a manager keeps it in hand, and keeps the lock until
\* it has a client of it or has given up.
LEMMA OwnedStep == SpawnInv /\ [Next]_vars => Owned'
<1> USE ConstantsAssumption DEF TypeOK, GoTo, NotFound, Launching, Leaving,
      SpawnInv, Held, Owned, Connecting, AfterSpawn, Busy, LookUp, Dropping,
      Born, Expecting
<1> SUFFICES ASSUME SpawnInv, [Next]_vars
             PROVE  Owned'
  OBVIOUS
<1>1. ASSUME NEW w \in Workers, Begin(w) \/ WorkerDies(w)
      PROVE  Owned'
  BY <1>1 DEF Begin, WorkerDies
<1>2. ASSUME NEW w \in Workers, CheckSock(w) \/ CheckMeta(w) \/ Probe(w) \/ Kill(w) \/ ReadKey(w)
      PROVE  Owned'
  BY <1>2 DEF CheckSock, CheckMeta, Probe, Kill, ReadKey
<1>3. ASSUME NEW w \in Workers, Dial(w) \/ CreateProxy(w) \/ CreateFails(w)
      PROVE  Owned'
  BY <1>3 DEF Dial, CreateProxy, CreateFails, ConnectFailed, Reaches,
       OwnManager, Accepting
<1>4. ASSUME NEW w \in Workers, DropSock(w) \/ DropMeta(w) \/ ClearSock(w) \/ ClearMeta(w)
      PROVE  Owned'
  BY <1>4 DEF DropSock, DropMeta, ClearSock, ClearMeta, UnlinkSock, UnlinkMeta
<1>5. ASSUME NEW w \in Workers, Acquire(w) \/ Release(w) \/ FirstCall(w)
      PROVE  Owned'
  BY <1>5 DEF Acquire, Release, FirstCall
<1>6. ASSUME NEW w \in Workers, Spawn(w)
      PROVE  Owned'
  BY <1>6 DEF Spawn
<1>7. ASSUME NEW w \in Workers, AwaitSock(w) \/ AwaitTimeout(w) \/ OpenMeta(w) \/ WriteMeta(w)
      PROVE  Owned'
  BY <1>7 DEF AwaitSock, AwaitTimeout, OpenMeta, WriteMeta
<1>8. ASSUME NEW m \in Managers, Manager(m)
      PROVE  Owned'
  BY <1>8 DEF Manager, Bind, InitService, IdleUnlinkSock, IdleExit,
       TerminateExit, Watchdog, Become, Running, Accepting
<1>9. ASSUME NEW m \in Managers, Disturb(m)
      PROVE  Owned'
  BY <1>9 DEF Disturb, IdleStop, Terminate, Crash, PidLingers, Become, Running,
       Accepting
<1>10. ASSUME NEW o \in Owners, OwnerExit(o) \/ OwnerPidLingers(o)
      PROVE  Owned'
  BY <1>10 DEF OwnerExit, OwnerPidLingers
<1>11. CASE UNCHANGED vars
  BY <1>11 DEF vars
<1>12. QED
  BY <1>1, <1>2, <1>3, <1>4, <1>5, <1>6, <1>7, <1>8, <1>9, <1>10, <1>11
  DEF Next, Worker

\* A worker waits for the manager it launched itself.
LEMMA ExpectingStep == SpawnInv /\ [Next]_vars => Expecting'
<1> USE ConstantsAssumption DEF TypeOK, GoTo, NotFound, Launching, Leaving,
      SpawnInv, Held, Owned, Expecting, Born, AfterSpawn
<1> SUFFICES ASSUME SpawnInv, [Next]_vars
             PROVE  Expecting'
  OBVIOUS
<1>1. ASSUME NEW w \in Workers, Begin(w) \/ WorkerDies(w)
      PROVE  Expecting'
  BY <1>1 DEF Begin, WorkerDies
<1>2. ASSUME NEW w \in Workers, CheckSock(w) \/ CheckMeta(w) \/ Probe(w) \/ Kill(w) \/ ReadKey(w)
      PROVE  Expecting'
  BY <1>2 DEF CheckSock, CheckMeta, Probe, Kill, ReadKey
<1>3. ASSUME NEW w \in Workers, Dial(w) \/ CreateProxy(w) \/ CreateFails(w)
      PROVE  Expecting'
  BY <1>3 DEF Dial, CreateProxy, CreateFails, ConnectFailed, Reaches,
       OwnManager, Accepting
<1>4. ASSUME NEW w \in Workers, DropSock(w) \/ DropMeta(w) \/ ClearSock(w) \/ ClearMeta(w)
      PROVE  Expecting'
  BY <1>4 DEF DropSock, DropMeta, ClearSock, ClearMeta, UnlinkSock, UnlinkMeta
<1>5. ASSUME NEW w \in Workers, Acquire(w) \/ Release(w) \/ FirstCall(w)
      PROVE  Expecting'
  BY <1>5 DEF Acquire, Release, FirstCall
<1>6. ASSUME NEW w \in Workers, Spawn(w)
      PROVE  Expecting'
  BY <1>6 DEF Spawn
<1>7. ASSUME NEW w \in Workers, AwaitSock(w) \/ AwaitTimeout(w) \/ OpenMeta(w) \/ WriteMeta(w)
      PROVE  Expecting'
  BY <1>7 DEF AwaitSock, AwaitTimeout, OpenMeta, WriteMeta
<1>8. ASSUME NEW m \in Managers, Manager(m)
      PROVE  Expecting'
  BY <1>8 DEF Manager, Bind, InitService, IdleUnlinkSock, IdleExit,
       TerminateExit, Watchdog, Become, Running, Accepting
<1>9. ASSUME NEW m \in Managers, Disturb(m)
      PROVE  Expecting'
  BY <1>9 DEF Disturb, IdleStop, Terminate, Crash, PidLingers, Become, Running,
       Accepting
<1>10. ASSUME NEW o \in Owners, OwnerExit(o) \/ OwnerPidLingers(o)
      PROVE  Expecting'
  BY <1>10 DEF OwnerExit, OwnerPidLingers
<1>11. CASE UNCHANGED vars
  BY <1>11 DEF vars
<1>12. QED
  BY <1>1, <1>2, <1>3, <1>4, <1>5, <1>6, <1>7, <1>8, <1>9, <1>10, <1>11
  DEF Next, Worker

\* A worker only ever talks to a manager that was launched.
LEMMA InHandStep == SpawnInv /\ [Next]_vars => InHand'
<1> USE ConstantsAssumption DEF TypeOK, GoTo, NotFound, Launching, Leaving,
      SpawnInv, Held, Owned, Expecting, InHand, Linked, Born, AfterSpawn
<1> SUFFICES ASSUME SpawnInv, [Next]_vars
             PROVE  InHand'
  OBVIOUS
<1>1. ASSUME NEW w \in Workers, Begin(w) \/ WorkerDies(w)
      PROVE  InHand'
  BY <1>1 DEF Begin, WorkerDies
<1>2. ASSUME NEW w \in Workers, CheckSock(w) \/ CheckMeta(w) \/ Probe(w) \/ Kill(w) \/ ReadKey(w)
      PROVE  InHand'
  BY <1>2 DEF CheckSock, CheckMeta, Probe, Kill, ReadKey
<1>3. ASSUME NEW w \in Workers, Dial(w) \/ CreateProxy(w) \/ CreateFails(w)
      PROVE  InHand'
  BY <1>3 DEF Dial, CreateProxy, CreateFails, ConnectFailed, Reaches,
       OwnManager, Accepting
<1>4. ASSUME NEW w \in Workers, DropSock(w) \/ DropMeta(w) \/ ClearSock(w) \/ ClearMeta(w)
      PROVE  InHand'
  BY <1>4 DEF DropSock, DropMeta, ClearSock, ClearMeta, UnlinkSock, UnlinkMeta
<1>5. ASSUME NEW w \in Workers, Acquire(w) \/ Release(w) \/ FirstCall(w)
      PROVE  InHand'
  BY <1>5 DEF Acquire, Release, FirstCall
<1>6. ASSUME NEW w \in Workers, Spawn(w)
      PROVE  InHand'
  BY <1>6 DEF Spawn
<1>7. ASSUME NEW w \in Workers, AwaitSock(w) \/ AwaitTimeout(w) \/ OpenMeta(w) \/ WriteMeta(w)
      PROVE  InHand'
  BY <1>7 DEF AwaitSock, AwaitTimeout, OpenMeta, WriteMeta
<1>8. ASSUME NEW m \in Managers, Manager(m)
      PROVE  InHand'
  BY <1>8 DEF Manager, Bind, InitService, IdleUnlinkSock, IdleExit,
       TerminateExit, Watchdog, Become, Running, Accepting
<1>9. ASSUME NEW m \in Managers, Disturb(m)
      PROVE  InHand'
  BY <1>9 DEF Disturb, IdleStop, Terminate, Crash, PidLingers, Become, Running,
       Accepting
<1>10. ASSUME NEW o \in Owners, OwnerExit(o) \/ OwnerPidLingers(o)
      PROVE  InHand'
  BY <1>10 DEF OwnerExit, OwnerPidLingers
<1>11. CASE UNCHANGED vars
  BY <1>11 DEF vars
<1>12. QED
  BY <1>1, <1>2, <1>3, <1>4, <1>5, <1>6, <1>7, <1>8, <1>9, <1>10, <1>11
  DEF Next, Worker

\* Processes and their launchers are recorded together.
LEMMA BornStep == SpawnInv /\ [Next]_vars => Born'
<1> USE ConstantsAssumption DEF TypeOK, GoTo, NotFound, Launching, Leaving,
      SpawnInv, Born
<1> SUFFICES ASSUME SpawnInv, [Next]_vars
             PROVE  Born'
  OBVIOUS
<1>1. ASSUME NEW w \in Workers, Begin(w) \/ WorkerDies(w)
      PROVE  Born'
  BY <1>1 DEF Begin, WorkerDies
<1>2. ASSUME NEW w \in Workers, CheckSock(w) \/ CheckMeta(w) \/ Probe(w) \/ Kill(w) \/ ReadKey(w)
      PROVE  Born'
  BY <1>2 DEF CheckSock, CheckMeta, Probe, Kill, ReadKey
<1>3. ASSUME NEW w \in Workers, Dial(w) \/ CreateProxy(w) \/ CreateFails(w)
      PROVE  Born'
  BY <1>3 DEF Dial, CreateProxy, CreateFails, ConnectFailed, Reaches,
       OwnManager, Accepting
<1>4. ASSUME NEW w \in Workers, DropSock(w) \/ DropMeta(w) \/ ClearSock(w) \/ ClearMeta(w)
      PROVE  Born'
  BY <1>4 DEF DropSock, DropMeta, ClearSock, ClearMeta, UnlinkSock, UnlinkMeta
<1>5. ASSUME NEW w \in Workers, Acquire(w) \/ Release(w) \/ FirstCall(w)
      PROVE  Born'
  BY <1>5 DEF Acquire, Release, FirstCall
<1>6. ASSUME NEW w \in Workers, Spawn(w)
      PROVE  Born'
  BY <1>6 DEF Spawn
<1>7. ASSUME NEW w \in Workers, AwaitSock(w) \/ AwaitTimeout(w) \/ OpenMeta(w) \/ WriteMeta(w)
      PROVE  Born'
  BY <1>7 DEF AwaitSock, AwaitTimeout, OpenMeta, WriteMeta
<1>8. ASSUME NEW m \in Managers, Manager(m)
      PROVE  Born'
  BY <1>8 DEF Manager, Bind, InitService, IdleUnlinkSock, IdleExit,
       TerminateExit, Watchdog, Become, Running, Accepting
<1>9. ASSUME NEW m \in Managers, Disturb(m)
      PROVE  Born'
  BY <1>9 DEF Disturb, IdleStop, Terminate, Crash, PidLingers, Become, Running,
       Accepting
<1>10. ASSUME NEW o \in Owners, OwnerExit(o) \/ OwnerPidLingers(o)
      PROVE  Born'
  BY <1>10 DEF OwnerExit, OwnerPidLingers
<1>11. CASE UNCHANGED vars
  BY <1>11 DEF vars
<1>12. QED
  BY <1>1, <1>2, <1>3, <1>4, <1>5, <1>6, <1>7, <1>8, <1>9, <1>10, <1>11
  DEF Next, Worker

\* A client of one's own manager means that the manager is up.
LEMMA NotUpYetStep == SpawnInv /\ [Next]_vars => NotUpYet'
<1> USE ConstantsAssumption DEF TypeOK, GoTo, NotFound, Launching, Leaving,
      SpawnInv, NotUpYet, GaveUp, Owned, Born, AfterSpawn, Connecting
<1> SUFFICES ASSUME SpawnInv, [Next]_vars
             PROVE  NotUpYet'
  OBVIOUS
<1>1. ASSUME NEW w \in Workers, Begin(w) \/ WorkerDies(w)
      PROVE  NotUpYet'
  BY <1>1 DEF Begin, WorkerDies
<1>2. ASSUME NEW w \in Workers, CheckSock(w) \/ CheckMeta(w) \/ Probe(w) \/ Kill(w) \/ ReadKey(w)
      PROVE  NotUpYet'
  BY <1>2 DEF CheckSock, CheckMeta, Probe, Kill, ReadKey
<1>3. ASSUME NEW w \in Workers, Dial(w) \/ CreateProxy(w) \/ CreateFails(w)
      PROVE  NotUpYet'
  BY <1>3 DEF Dial, CreateProxy, CreateFails, ConnectFailed, Reaches,
       OwnManager, Accepting
<1>4. ASSUME NEW w \in Workers, DropSock(w) \/ DropMeta(w) \/ ClearSock(w) \/ ClearMeta(w)
      PROVE  NotUpYet'
  BY <1>4 DEF DropSock, DropMeta, ClearSock, ClearMeta, UnlinkSock, UnlinkMeta
<1>5. ASSUME NEW w \in Workers, Acquire(w) \/ Release(w) \/ FirstCall(w)
      PROVE  NotUpYet'
  BY <1>5 DEF Acquire, Release, FirstCall
<1>6. ASSUME NEW w \in Workers, Spawn(w)
      PROVE  NotUpYet'
  BY <1>6 DEF Spawn
<1>7. ASSUME NEW w \in Workers, AwaitSock(w) \/ AwaitTimeout(w) \/ OpenMeta(w) \/ WriteMeta(w)
      PROVE  NotUpYet'
  BY <1>7 DEF AwaitSock, AwaitTimeout, OpenMeta, WriteMeta
<1>8. ASSUME NEW m \in Managers, Manager(m)
      PROVE  NotUpYet'
  BY <1>8 DEF Manager, Bind, InitService, IdleUnlinkSock, IdleExit,
       TerminateExit, Watchdog, Become, Running, Accepting
<1>9. ASSUME NEW m \in Managers, Disturb(m)
      PROVE  NotUpYet'
  BY <1>9 DEF Disturb, IdleStop, Terminate, Crash, PidLingers, Become, Running,
       Accepting
<1>10. ASSUME NEW o \in Owners, OwnerExit(o) \/ OwnerPidLingers(o)
      PROVE  NotUpYet'
  BY <1>10 DEF OwnerExit, OwnerPidLingers
<1>11. CASE UNCHANGED vars
  BY <1>11 DEF vars
<1>12. QED
  BY <1>1, <1>2, <1>3, <1>4, <1>5, <1>6, <1>7, <1>8, <1>9, <1>10, <1>11
  DEF Next, Worker

\* The files only name managers that were launched, and the socket one that
\* has bound it.
LEMMA LinkedStep == SpawnInv /\ [Next]_vars => Linked'
<1> USE ConstantsAssumption DEF TypeOK, GoTo, NotFound, Launching, Leaving,
      SpawnInv, Linked, Born, Expecting, Owned
<1> SUFFICES ASSUME SpawnInv, [Next]_vars
             PROVE  Linked'
  OBVIOUS
<1>1. ASSUME NEW w \in Workers, Begin(w) \/ WorkerDies(w)
      PROVE  Linked'
  BY <1>1 DEF Begin, WorkerDies
<1>2. ASSUME NEW w \in Workers, CheckSock(w) \/ CheckMeta(w) \/ Probe(w) \/ Kill(w) \/ ReadKey(w)
      PROVE  Linked'
  BY <1>2 DEF CheckSock, CheckMeta, Probe, Kill, ReadKey
<1>3. ASSUME NEW w \in Workers, Dial(w) \/ CreateProxy(w) \/ CreateFails(w)
      PROVE  Linked'
  BY <1>3 DEF Dial, CreateProxy, CreateFails, ConnectFailed, Reaches,
       OwnManager, Accepting
<1>4. ASSUME NEW w \in Workers, DropSock(w) \/ DropMeta(w) \/ ClearSock(w) \/ ClearMeta(w)
      PROVE  Linked'
  BY <1>4 DEF DropSock, DropMeta, ClearSock, ClearMeta, UnlinkSock, UnlinkMeta
<1>5. ASSUME NEW w \in Workers, Acquire(w) \/ Release(w) \/ FirstCall(w)
      PROVE  Linked'
  BY <1>5 DEF Acquire, Release, FirstCall
<1>6. ASSUME NEW w \in Workers, Spawn(w)
      PROVE  Linked'
  BY <1>6 DEF Spawn
<1>7. ASSUME NEW w \in Workers, AwaitSock(w) \/ AwaitTimeout(w) \/ OpenMeta(w) \/ WriteMeta(w)
      PROVE  Linked'
  BY <1>7 DEF AwaitSock, AwaitTimeout, OpenMeta, WriteMeta
<1>8. ASSUME NEW m \in Managers, Manager(m)
      PROVE  Linked'
  BY <1>8 DEF Manager, Bind, InitService, IdleUnlinkSock, IdleExit,
       TerminateExit, Watchdog, Become, Running, Accepting
<1>9. ASSUME NEW m \in Managers, Disturb(m)
      PROVE  Linked'
  BY <1>9 DEF Disturb, IdleStop, Terminate, Crash, PidLingers, Become, Running,
       Accepting
<1>10. ASSUME NEW o \in Owners, OwnerExit(o) \/ OwnerPidLingers(o)
      PROVE  Linked'
  BY <1>10 DEF OwnerExit, OwnerPidLingers
<1>11. CASE UNCHANGED vars
  BY <1>11 DEF vars
<1>12. QED
  BY <1>1, <1>2, <1>3, <1>4, <1>5, <1>6, <1>7, <1>8, <1>9, <1>10, <1>11
  DEF Next, Worker

\* Between its removal under the lock and the launcher's connection, nobody
\* else writes the .meta file.
LEMMA MetaQuietStep == SpawnInv /\ [Next]_vars => MetaQuiet'
<1> USE ConstantsAssumption DEF TypeOK, GoTo, NotFound, Launching, Leaving,
      SpawnInv, MetaQuiet, Held, Owned, Connecting, AfterSpawn, Expecting, Born,
      Linked
<1> SUFFICES ASSUME SpawnInv, [Next]_vars
             PROVE  MetaQuiet'
  OBVIOUS
<1>1. ASSUME NEW w \in Workers, Begin(w) \/ WorkerDies(w)
      PROVE  MetaQuiet'
  BY <1>1 DEF Begin, WorkerDies
<1>2. ASSUME NEW w \in Workers, CheckSock(w) \/ CheckMeta(w) \/ Probe(w) \/ Kill(w) \/ ReadKey(w)
      PROVE  MetaQuiet'
  BY <1>2 DEF CheckSock, CheckMeta, Probe, Kill, ReadKey
<1>3. ASSUME NEW w \in Workers, Dial(w) \/ CreateProxy(w) \/ CreateFails(w)
      PROVE  MetaQuiet'
  BY <1>3 DEF Dial, CreateProxy, CreateFails, ConnectFailed, Reaches,
       OwnManager, Accepting
<1>4. ASSUME NEW w \in Workers, DropSock(w) \/ DropMeta(w) \/ ClearSock(w) \/ ClearMeta(w)
      PROVE  MetaQuiet'
  BY <1>4 DEF DropSock, DropMeta, ClearSock, ClearMeta, UnlinkSock, UnlinkMeta
<1>5. ASSUME NEW w \in Workers, Acquire(w) \/ Release(w) \/ FirstCall(w)
      PROVE  MetaQuiet'
  BY <1>5 DEF Acquire, Release, FirstCall
<1>6. ASSUME NEW w \in Workers, Spawn(w)
      PROVE  MetaQuiet'
  BY <1>6 DEF Spawn
<1>7. ASSUME NEW w \in Workers, AwaitSock(w) \/ AwaitTimeout(w) \/ OpenMeta(w) \/ WriteMeta(w)
      PROVE  MetaQuiet'
  BY <1>7 DEF AwaitSock, AwaitTimeout, OpenMeta, WriteMeta
<1>8. ASSUME NEW m \in Managers, Manager(m)
      PROVE  MetaQuiet'
  BY <1>8 DEF Manager, Bind, InitService, IdleUnlinkSock, IdleExit,
       TerminateExit, Watchdog, Become, Running, Accepting
<1>9. ASSUME NEW m \in Managers, Disturb(m)
      PROVE  MetaQuiet'
  BY <1>9 DEF Disturb, IdleStop, Terminate, Crash, PidLingers, Become, Running,
       Accepting
<1>10. ASSUME NEW o \in Owners, OwnerExit(o) \/ OwnerPidLingers(o)
      PROVE  MetaQuiet'
  BY <1>10 DEF OwnerExit, OwnerPidLingers
<1>11. CASE UNCHANGED vars
  BY <1>11 DEF vars
<1>12. QED
  BY <1>1, <1>2, <1>3, <1>4, <1>5, <1>6, <1>7, <1>8, <1>9, <1>10, <1>11
  DEF Next, Worker

\* Once the path is cleared under the lock only an abandoned manager can
\* appear there beside the launcher's own.
LEMMA SockQuietStep == SpawnInv /\ [Next]_vars => SockQuiet'
<1> USE ConstantsAssumption DEF TypeOK, GoTo, NotFound, Launching, Leaving,
      SpawnInv, SockQuiet, Held, Owned, GaveUp, NotUpYet, Connecting,
      AfterSpawn, Born, Linked
<1> SUFFICES ASSUME SpawnInv, [Next]_vars
             PROVE  SockQuiet'
  OBVIOUS
<1>1. ASSUME NEW w \in Workers, Begin(w) \/ WorkerDies(w)
      PROVE  SockQuiet'
  BY <1>1 DEF Begin, WorkerDies
<1>2. ASSUME NEW w \in Workers, CheckSock(w) \/ CheckMeta(w) \/ Probe(w) \/ Kill(w) \/ ReadKey(w)
      PROVE  SockQuiet'
  BY <1>2 DEF CheckSock, CheckMeta, Probe, Kill, ReadKey
<1>3. ASSUME NEW w \in Workers, Dial(w) \/ CreateProxy(w) \/ CreateFails(w)
      PROVE  SockQuiet'
  BY <1>3 DEF Dial, CreateProxy, CreateFails, ConnectFailed, Reaches,
       OwnManager, Accepting
<1>4. ASSUME NEW w \in Workers, DropSock(w) \/ DropMeta(w) \/ ClearSock(w) \/ ClearMeta(w)
      PROVE  SockQuiet'
  BY <1>4 DEF DropSock, DropMeta, ClearSock, ClearMeta, UnlinkSock, UnlinkMeta
<1>5. ASSUME NEW w \in Workers, Acquire(w) \/ Release(w) \/ FirstCall(w)
      PROVE  SockQuiet'
  BY <1>5 DEF Acquire, Release, FirstCall
<1>6. ASSUME NEW w \in Workers, Spawn(w)
      PROVE  SockQuiet'
  BY <1>6 DEF Spawn
<1>7. ASSUME NEW w \in Workers, AwaitSock(w) \/ AwaitTimeout(w) \/ OpenMeta(w) \/ WriteMeta(w)
      PROVE  SockQuiet'
  BY <1>7 DEF AwaitSock, AwaitTimeout, OpenMeta, WriteMeta
<1>8. ASSUME NEW m \in Managers, Manager(m)
      PROVE  SockQuiet'
  BY <1>8 DEF Manager, Bind, InitService, IdleUnlinkSock, IdleExit,
       TerminateExit, Watchdog, Become, Running, Accepting
<1>9. ASSUME NEW m \in Managers, Disturb(m)
      PROVE  SockQuiet'
  BY <1>9 DEF Disturb, IdleStop, Terminate, Crash, PidLingers, Become, Running,
       Accepting
<1>10. ASSUME NEW o \in Owners, OwnerExit(o) \/ OwnerPidLingers(o)
      PROVE  SockQuiet'
  BY <1>10 DEF OwnerExit, OwnerPidLingers
<1>11. CASE UNCHANGED vars
  BY <1>11 DEF vars
<1>12. QED
  BY <1>1, <1>2, <1>3, <1>4, <1>5, <1>6, <1>7, <1>8, <1>9, <1>10, <1>11
  DEF Next, Worker

\* Given the rest of the invariant, the two files stay in agreement.
LEMMA FilesAgreeStep == SpawnInv /\ [Next]_vars => FilesAgree'
<1> USE ConstantsAssumption DEF TypeOK, GoTo, NotFound, Launching, Leaving,
      SpawnInv, FilesAgree, SockQuiet, MetaQuiet, Held, Owned, Expecting,
      GaveUp, NotUpYet, Connecting, AfterSpawn, Born, Linked
<1> SUFFICES ASSUME SpawnInv, [Next]_vars
             PROVE  FilesAgree'
  OBVIOUS
<1>1. ASSUME NEW w \in Workers, Begin(w) \/ WorkerDies(w)
      PROVE  FilesAgree'
  BY <1>1 DEF Begin, WorkerDies
<1>2. ASSUME NEW w \in Workers, CheckSock(w) \/ CheckMeta(w) \/ Probe(w) \/ Kill(w) \/ ReadKey(w)
      PROVE  FilesAgree'
  BY <1>2 DEF CheckSock, CheckMeta, Probe, Kill, ReadKey
<1>3. ASSUME NEW w \in Workers, Dial(w) \/ CreateProxy(w) \/ CreateFails(w)
      PROVE  FilesAgree'
  BY <1>3 DEF Dial, CreateProxy, CreateFails, ConnectFailed, Reaches,
       OwnManager, Accepting
<1>4. ASSUME NEW w \in Workers, DropSock(w) \/ DropMeta(w) \/ ClearSock(w) \/ ClearMeta(w)
      PROVE  FilesAgree'
  BY <1>4 DEF DropSock, DropMeta, ClearSock, ClearMeta, UnlinkSock, UnlinkMeta
<1>5. ASSUME NEW w \in Workers, Acquire(w) \/ Release(w) \/ FirstCall(w)
      PROVE  FilesAgree'
  BY <1>5 DEF Acquire, Release, FirstCall
<1>6. ASSUME NEW w \in Workers, Spawn(w)
      PROVE  FilesAgree'
  BY <1>6 DEF Spawn
<1>7. ASSUME NEW w \in Workers, AwaitSock(w) \/ AwaitTimeout(w) \/ OpenMeta(w) \/ WriteMeta(w)
      PROVE  FilesAgree'
  BY <1>7 DEF AwaitSock, AwaitTimeout, OpenMeta, WriteMeta
<1>8. ASSUME NEW m \in Managers, Manager(m)
      PROVE  FilesAgree'
  BY <1>8 DEF Manager, Bind, InitService, IdleUnlinkSock, IdleExit,
       TerminateExit, Watchdog, Become, Running, Accepting
<1>9. ASSUME NEW m \in Managers, Disturb(m)
      PROVE  FilesAgree'
  BY <1>9 DEF Disturb, IdleStop, Terminate, Crash, PidLingers, Become, Running,
       Accepting
<1>10. ASSUME NEW o \in Owners, OwnerExit(o) \/ OwnerPidLingers(o)
      PROVE  FilesAgree'
  BY <1>10 DEF OwnerExit, OwnerPidLingers
<1>11. CASE UNCHANGED vars
  BY <1>11 DEF vars
<1>12. QED
  BY <1>1, <1>2, <1>3, <1>4, <1>5, <1>6, <1>7, <1>8, <1>9, <1>10, <1>11
  DEF Next, Worker

-----------------------------------------------------------------------------
(* The theorems.                                                           *)

\* The invariant holds at the start.
LEMMA SpawnInvInit == Init => SpawnInv
<1> SUFFICES ASSUME Init
             PROVE  SpawnInv
  OBVIOUS
<1>1. TypeOK
  BY ConstantsAssumption DEF Init, TypeOK, Points, ProcStates
<1>2. Held /\ Owned /\ Expecting /\ InHand /\ Born
  BY DEF Init, Held, Launching, Leaving, Owned, Expecting, InHand, Born
<1>3. HolderBusy /\ NotUpYet /\ Linked /\ MetaQuiet /\ SockQuiet /\ FilesAgree
  BY ConstantsAssumption DEF Init, HolderBusy, NotUpYet, Linked, MetaQuiet, SockQuiet, FilesAgree
<1>4. QED
  BY <1>1, <1>2, <1>3 DEF SpawnInv

\* The invariant is inductive.
LEMMA SpawnInvStep == SpawnInv /\ [Next]_vars => SpawnInv'
BY TypeStep, HeldStep, HolderBusyStep, OwnedStep, ExpectingStep, InHandStep, BornStep, NotUpYetStep,
   LinkedStep, MetaQuietStep, SockQuietStep, FilesAgreeStep DEF SpawnInv

\* The files, the lock and the processes stay in step (SpawnInv is inductive).
THEOREM SpawnInvariant == Spec => []SpawnInv
BY SpawnInvInit, SpawnInvStep, PTL DEF Spec

\* The .meta file never pairs one manager's key with another manager's socket,
\* unless the launcher of the listening manager gave up on it.
THEOREM FilesAlwaysAgree == Spec => []FilesAgree
<1>1. SpawnInv => FilesAgree
  BY DEF SpawnInv
<1>2. QED
  BY <1>1, SpawnInvariant, PTL

\* While a worker holds the lock nobody else can publish a manager, so what its
\* look-up has learnt stays true until it acts on it.
LEMMA LookUpSoundStep == SpawnInv /\ LookUpSound /\ [Next]_vars => LookUpSound'
<1> USE ConstantsAssumption DEF TypeOK, GoTo, NotFound, Launching, Leaving,
      SpawnInv, LookUpSound, Published, Held, Owned, Connecting, AfterSpawn,
      Busy, LookUp, Dropping, NotUpYet, GaveUp, Born, Linked
<1> SUFFICES ASSUME SpawnInv, LookUpSound, [Next]_vars
             PROVE  LookUpSound'
  OBVIOUS
<1>1. ASSUME NEW w \in Workers, Begin(w) \/ WorkerDies(w)
      PROVE  LookUpSound'
  BY <1>1 DEF Begin, WorkerDies
<1>2. ASSUME NEW w \in Workers, CheckSock(w) \/ CheckMeta(w) \/ Probe(w) \/ Kill(w) \/ ReadKey(w)
      PROVE  LookUpSound'
  BY <1>2 DEF CheckSock, CheckMeta, Probe, Kill, ReadKey, PidAnswers, Running,
       Accepting
<1>3. ASSUME NEW w \in Workers, Dial(w) \/ CreateProxy(w) \/ CreateFails(w)
      PROVE  LookUpSound'
  BY <1>3 DEF Dial, CreateProxy, CreateFails, ConnectFailed, Reaches,
       OwnManager, Accepting
<1>4. ASSUME NEW w \in Workers, DropSock(w) \/ DropMeta(w) \/ ClearSock(w) \/ ClearMeta(w)
      PROVE  LookUpSound'
  BY <1>4 DEF DropSock, DropMeta, ClearSock, ClearMeta, UnlinkSock, UnlinkMeta
<1>5. ASSUME NEW w \in Workers, Acquire(w) \/ Release(w) \/ FirstCall(w)
      PROVE  LookUpSound'
  BY <1>5 DEF Acquire, Release, FirstCall
<1>6. ASSUME NEW w \in Workers, Spawn(w)
      PROVE  LookUpSound'
  BY <1>6 DEF Spawn
<1>7. ASSUME NEW w \in Workers, AwaitSock(w) \/ AwaitTimeout(w) \/ OpenMeta(w) \/ WriteMeta(w)
      PROVE  LookUpSound'
  BY <1>7 DEF AwaitSock, AwaitTimeout, OpenMeta, WriteMeta, SockQuiet, Expecting
<1>8. ASSUME NEW m \in Managers, Manager(m)
      PROVE  LookUpSound'
  BY <1>8 DEF Manager, Bind, InitService, IdleUnlinkSock, IdleExit,
       TerminateExit, Watchdog, Become, Running, Accepting
<1>9. ASSUME NEW m \in Managers, Disturb(m)
      PROVE  LookUpSound'
  BY <1>9 DEF Disturb, IdleStop, Terminate, Crash, PidLingers, Become, Running,
       Accepting
<1>10. ASSUME NEW o \in Owners, OwnerExit(o) \/ OwnerPidLingers(o)
      PROVE  LookUpSound'
  BY <1>10 DEF OwnerExit, OwnerPidLingers
<1>11. CASE UNCHANGED vars
  BY <1>11 DEF vars
<1>12. QED
  BY <1>1, <1>2, <1>3, <1>4, <1>5, <1>6, <1>7, <1>8, <1>9, <1>10, <1>11
  DEF Next, Worker

\* The lock holder never deletes the socket of a published manager.
THEOREM PublishedIsSpared == Spec => []LockHolderSparesPublished
<1>1. Init => LookUpSound
  BY ConstantsAssumption DEF Init, LookUpSound
<1>2. LookUpSound => LockHolderSparesPublished
  BY DEF LookUpSound, LockHolderSparesPublished
<1>3. QED
  BY <1>1, <1>2, SpawnInvariant, LookUpSoundStep, PTL DEF Spec

\* Managers are launched by the lock holder alone.
THEOREM LaunchesAreLocked == Spec => LaunchUnderLock
<1>1. SpawnInv /\ [Next]_vars =>
        [\A m \in Managers :
           spawner'[m] # spawner[m] => lock = spawner'[m] /\ lock' = lock]_vars
  <2> SUFFICES ASSUME SpawnInv, Next, NEW m \in Managers, spawner'[m] # spawner[m]
               PROVE  lock = spawner'[m] /\ lock' = lock
    OBVIOUS
  <2>1. PICK w \in Workers : Spawn(w)
    <3> USE DEF Next, Worker
    <3>1. ASSUME NEW w \in Workers, Begin(w) \/ WorkerDies(w) \/ Worker(w), ~Spawn(w)
          PROVE  spawner' = spawner
      BY <3>1 DEF Begin, WorkerDies, CheckSock, CheckMeta, Probe, Kill, ReadKey, Dial,
           CreateProxy, CreateFails, DropSock, DropMeta, ClearSock, ClearMeta,
           UnlinkSock, UnlinkMeta, Acquire, AwaitSock, AwaitTimeout, OpenMeta,
           WriteMeta, Release, FirstCall
    <3>2. ASSUME NEW n \in Managers, Manager(n) \/ Disturb(n)
          PROVE  spawner' = spawner
      BY <3>2 DEF Manager, Bind, InitService, IdleUnlinkSock, IdleExit, TerminateExit,
           Watchdog, Disturb, IdleStop, Terminate, Crash, PidLingers
    <3>3. ASSUME NEW o \in Owners, OwnerExit(o) \/ OwnerPidLingers(o)
          PROVE  spawner' = spawner
      BY <3>3 DEF OwnerExit, OwnerPidLingers
    <3>4. QED
      BY <3>1, <3>2, <3>3
  <2>2. lock = w
    BY <2>1 DEF Spawn, GoTo, SpawnInv, Held, Launching
  <2>3. QED
    BY <2>1, <2>2 DEF Spawn, SpawnInv, TypeOK
<1>2. QED
  BY <1>1, SpawnInvariant, PTL DEF Spec, LaunchUnderLock

-----------------------------------------------------------------------------
(* The refinement: under the mapping of ManagerSpawn every step of the     *)
(* protocol is a step of the promise, or leaves it unchanged.              *)

\* The mapped state, under short names.
Call == [w \in Workers |-> CallState(w)]
Life == [m \in Managers |-> ManagerState(m)]
Client == [w \in Workers |-> IF CallState(w) = "served" THEN seen[w] ELSE NoManager]
mapped == <<Call, lock, Life, spawner, Client>>

\* A step in which no worker's progress, as mapped, is touched.
LEMMA SameCalls ==
  ASSUME \A w \in Workers : CallState(w)' = CallState(w),
         \A w \in Workers : CallState(w) = "served" => seen'[w] = seen[w]
  PROVE  Call' = Call /\ Client' = Client
BY DEF Call, Client

\* A step in which one worker's progress changes.
LEMMA OneCall ==
  ASSUME NEW v \in Workers, NEW s, NEW c,
         \A w \in Workers \ {v} : CallState(w)' = CallState(w) /\ seen'[w] = seen[w],
         CallState(v)' = s,
         c = IF s = "served" THEN seen'[v] ELSE NoManager
  PROVE  /\ Call' = [Call EXCEPT ![v] = s]
         /\ Client' = [Client EXCEPT ![v] = c]
BY DEF Call, Client

\* Nobody has asked and nothing runs.
LEMMA ServiceInit == Init => Service!Init
<1> SUFFICES ASSUME Init
             PROVE  Service!Init
  OBVIOUS
<1>1. \A w \in Workers : CallState(w) = "idle"
  BY DEF Init, CallState
<1>2. \A m \in Managers : ManagerState(m) = "none"
  BY DEF Init, ManagerState, Running, Accepting
<1>3. QED
  BY <1>1, <1>2 DEF Init, Service!Init

\* What is to be shown of a step.
Simulated == Service!Next \/ UNCHANGED mapped

\* Every step of the protocol is a step of the promise or leaves it as it is.
LEMMA ServiceStep == SpawnInv /\ [Next]_vars => Simulated
<1> USE ConstantsAssumption DEF mapped, Simulated, SpawnInv, TypeOK, GoTo
<1> SUFFICES ASSUME SpawnInv, [Next]_vars
             PROVE  Simulated
  OBVIOUS
<1>1. ASSUME NEW w \in Workers, Begin(w)
      PROVE  Simulated
  <2>1. /\ Call' = [Call EXCEPT ![w] = "pending"]
        /\ Client' = [Client EXCEPT ![w] = NoManager]
    BY <1>1, OneCall DEF Begin, CallState
  <2>2. Client[w] = NoManager
    BY <1>1 DEF Begin, Client, CallState
  <2>3. Service!Request(w)
    BY <1>1, <2>1, <2>2
    DEF Begin, Service!Request, Call, Client, CallState, ManagerState
  <2>4. QED
    BY <2>3 DEF Service!Next
<1>2. ASSUME NEW w \in Workers,
             CheckSock(w) \/ CheckMeta(w) \/ Probe(w) \/ Kill(w) \/ ReadKey(w)
      PROVE  Simulated
  <2>1. Call' = Call /\ Client' = Client
    BY <1>2, SameCalls
    DEF CheckSock, CheckMeta, Probe, Kill, ReadKey, NotFound, CallState
  <2>2. QED
    BY <1>2, <2>1
    DEF CheckSock, CheckMeta, Probe, Kill, ReadKey, Life, ManagerState
<1>3. ASSUME NEW w \in Workers,
             \/ Dial(w) \/ CreateFails(w) \/ AwaitSock(w) \/ AwaitTimeout(w)
             \/ OpenMeta(w) \/ WriteMeta(w)
             \/ DropSock(w) \/ DropMeta(w) \/ ClearSock(w) \/ ClearMeta(w)
      PROVE  Simulated
  <2> USE DEF Dial, CreateFails, ConnectFailed, AwaitSock, AwaitTimeout, OpenMeta,
        WriteMeta, DropSock, DropMeta, ClearSock, ClearMeta, UnlinkSock, UnlinkMeta,
        NotFound
  <2>1. Call' = Call /\ Client' = Client
    BY <1>3, SameCalls DEF CallState
  <2>2. QED
    BY <1>3, <2>1 DEF Life, ManagerState
<1>4. ASSUME NEW w \in Workers, CreateProxy(w)
      PROVE  Simulated
  <2>1. seen[w] \in Managers /\ Life[seen[w]] = "running"
    BY <1>4 DEF CreateProxy, InHand, Life, ManagerState, Running, Accepting
  <2>2. /\ Call' = [Call EXCEPT ![w] = "served"]
        /\ Client' = [Client EXCEPT ![w] = seen[w]]
    BY <1>4, OneCall DEF CreateProxy, CallState
  <2>3. \E m \in Managers : Service!Serve(w, m)
    <3>1. PICK m \in Managers : m = seen[w]
      BY <2>1
    <3>2. CallState(w) = "pending"
      BY <1>4 DEF CreateProxy, CallState
    <3>3. Service!Serve(w, m)
      BY <1>4, <2>1, <2>2, <3>1, <3>2
      DEF CreateProxy, Service!Serve, Call, Client, Life, ManagerState
    <3>4. QED
      BY <3>3
  <2>4. QED
    BY <2>3 DEF Service!Next
<1>5. ASSUME NEW w \in Workers, Acquire(w)
      PROVE  Simulated
  <2>1. Call' = Call /\ Client' = Client
    BY <1>5, SameCalls DEF Acquire, CallState
  <2>2. Service!TakeTurn(w)
    BY <1>5, <2>1 DEF Acquire, Service!TakeTurn, Call, Client, CallState, ManagerState
  <2>3. QED
    BY <2>2 DEF Service!Next
<1>6. ASSUME NEW w \in Workers, Spawn(w)
      PROVE  Simulated
  <2>1. Call' = Call /\ Client' = Client
    BY <1>6, SameCalls DEF Spawn, CallState
  <2>2. CASE spawner' = spawner /\ proc' = proc
    BY <1>6, <2>1, <2>2 DEF Spawn, Life, ManagerState
  <2>3. ASSUME NEW m \in Managers, proc[m] = "unborn", pc[w] = "spawn",
               proc' = [proc EXCEPT ![m] = "starting"],
               spawner' = [spawner EXCEPT ![m] = w],
               lock' = lock
        PROVE  Simulated
    <3>1. lock = w
      BY <2>3 DEF Held, Launching
    <3>2. \A n \in Managers : spawner[n] # w
      BY <2>3 DEF Owned, AfterSpawn
    <3>3. \A n \in Managers \ {m} : ManagerState(n)' = ManagerState(n)
      BY <2>3 DEF ManagerState
    <3>4. ManagerState(m) = "none" /\ ManagerState(m)' = "running"
      BY <2>3 DEF ManagerState, Running, Accepting
    <3>5. Life' = [Life EXCEPT ![m] = "running"]
      BY <3>3, <3>4 DEF Life
    <3>6. CallState(w) = "pending"
      BY <2>3 DEF CallState
    <3>7. Service!Launch(w, m)
      BY <2>1, <2>3, <3>1, <3>2, <3>4, <3>5, <3>6
      DEF Service!Launch, Call, Client, Life
    <3>8. QED
      BY <3>7 DEF Service!Next
  <2>4. QED
    BY <1>6, <2>2, <2>3 DEF Spawn
<1>7. ASSUME NEW w \in Workers, Release(w)
      PROVE  Simulated
  <2>1. lock = w
    BY <1>7 DEF Release, Held, Leaving
  <2>2. CASE pc[w] = "leave"
    <3>1. Call' = Call /\ Client' = Client
      BY <1>7, <2>2, SameCalls DEF Release, CallState
    <3>2. Service!EndTurn(w)
      BY <1>7, <2>1, <2>2, <3>1
      DEF Release, Service!EndTurn, Call, Client, CallState, ManagerState
    <3>3. QED
      BY <3>2 DEF Service!Next
  <2>3. CASE pc[w] = "abort"
    <3>1. /\ Call' = [Call EXCEPT ![w] = "refused"]
          /\ Client' = [Client EXCEPT ![w] = NoManager]
      BY <1>7, <2>3, OneCall DEF Release, CallState
    <3>2. Service!Refuse(w)
      BY <1>7, <2>1, <2>3, <3>1
      DEF Release, Service!Refuse, Call, Client, CallState, ManagerState
    <3>3. QED
      BY <3>2 DEF Service!Next
  <2>4. QED
    BY <1>7, <2>2, <2>3 DEF Release
<1>8. ASSUME NEW w \in Workers, FirstCall(w) \/ WorkerDies(w)
      PROVE  Simulated
  <2>1. lock' = IF lock = w THEN NoWorker ELSE lock
    BY <1>8 DEF FirstCall, WorkerDies, HolderBusy, Busy, LookUp, Connecting, Dropping,
         Launching, Leaving
  <2>2. pc[w] \in Busy \cup {"connected"} /\ UNCHANGED <<seen, proc, spawner>>
    BY <1>8 DEF FirstCall, WorkerDies
  <2>3. CallState(w) \in {"pending", "served"}
    BY <2>2 DEF CallState, Busy, LookUp, Connecting, Dropping, Launching, Leaving
  <2>4. CASE pc'[w] = "done"
    <3>1. Call' = Call /\ Client' = Client
      BY <1>8, <2>4, SameCalls DEF FirstCall, WorkerDies, CallState
    <3>2. lock' = lock
      BY <1>8, <2>4 DEF FirstCall, WorkerDies
    <3>3. QED
      BY <2>2, <3>1, <3>2 DEF Life, ManagerState
  <2>5. CASE pc'[w] \in {"failed", "gone"}
    <3>1. /\ Call' = [Call EXCEPT ![w] = "refused"]
          /\ Client' = [Client EXCEPT ![w] = NoManager]
      BY <1>8, <2>2, <2>5, OneCall DEF FirstCall, WorkerDies, CallState
    <3>2. Service!Refuse(w)
      BY <2>1, <2>2, <2>3, <3>1
      DEF Service!Refuse, Call, Client, CallState, ManagerState
    <3>3. QED
      BY <3>2 DEF Service!Next
  <2>6. QED
    BY <1>8, <2>4, <2>5 DEF FirstCall, WorkerDies
<1>9. ASSUME NEW m \in Managers, Manager(m) \/ Disturb(m)
      PROVE  Simulated
  <2> USE DEF Manager, Bind, InitService, IdleUnlinkSock, IdleExit, TerminateExit,
        Watchdog, Disturb, IdleStop, Terminate, Crash, PidLingers, Become, Running,
        Accepting
  <2>1. UNCHANGED <<pc, lock, seen, spawner>>
    BY <1>9
  <2>2. Call' = Call /\ Client' = Client
    BY <2>1, SameCalls DEF CallState
  <2>3. CASE Life' = Life
    BY <2>1, <2>2, <2>3
  <2>4. CASE Life[m] = "running" /\ Life' = [Life EXCEPT ![m] = "exited"]
    <3>1. Service!Exit(m)
      BY <2>1, <2>2, <2>4
      DEF Service!Exit, Call, Client, Life, CallState, ManagerState
    <3>2. QED
      BY <3>1 DEF Service!Next
  <2>5. \A n \in Managers \ {m} : ManagerState(n)' = ManagerState(n)
    BY <1>9 DEF ManagerState
  <2>6. \/ ManagerState(m)' = ManagerState(m)
        \/ ManagerState(m) = "running" /\ ManagerState(m)' = "exited"
    BY <1>9 DEF ManagerState
  <2>7. QED
    BY <2>3, <2>4, <2>5, <2>6 DEF Life
<1>10. ASSUME NEW o \in Owners, OwnerExit(o) \/ OwnerPidLingers(o)
       PROVE  Simulated
  <2>1. Call' = Call /\ Client' = Client
    BY <1>10, SameCalls DEF OwnerExit, OwnerPidLingers, CallState
  <2>2. QED
    BY <1>10, <2>1 DEF OwnerExit, OwnerPidLingers, Life, ManagerState
<1>11. CASE UNCHANGED vars
  <2>1. Call' = Call /\ Client' = Client
    BY <1>11, SameCalls DEF vars, CallState
  <2>2. QED
    BY <1>11, <2>1 DEF vars, Life, ManagerState
<1>12. QED
  BY <1>1, <1>2, <1>3, <1>4, <1>5, <1>6, <1>7, <1>8, <1>9, <1>10, <1>11
  DEF Next, Worker

\* The protocol on files, keys and sockets implements ManagerService.
THEOREM SpawnImplementsService == Spec => ImplementsService
<1>1. Simulated => [Service!Next]_(Service!serviceVars)
  BY DEF Simulated, mapped, Call, Life, Client, Service!serviceVars
<1>2. QED
  BY <1>1, ServiceInit, ServiceStep, SpawnInvariant, PTL
  DEF Spec, ImplementsService, Service!Spec
===============================================================================
