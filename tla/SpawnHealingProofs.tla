--------------------------- MODULE SpawnHealingProofs ---------------------------
(***************************************************************************)
(* Whom the clean-up paths of the connection plugin protect, proved for    *)
(* any sets of workers and managers and any faults: a call that raises was *)
(* disturbed while it ran.                                                 *)
(***************************************************************************)
EXTENDS SpawnHealing, ManagerSpawnProofs

-----------------------------------------------------------------------------
(* The inductive invariant. *)

\* The manager that w has in hand listens at the path, with a service or one
\* to come.
Up(w) == sock = seen[w] /\ proc[seen[w]] \in {"bound", "serving"}

\* What the path, and the manager it launched, are like for a worker while all
\* goes well: from its clean-up of the path on, nothing is there but its own
\* manager.
OnTrack(w) ==
  /\ pc[w] \in {"clearMeta", "spawn"} => sock = NoManager
  /\ pc[w] = "await" => Up(w) \/ (sock = NoManager /\ proc[seen[w]] = "starting")
  /\ pc[w] \in {"openMeta", "writeMeta"} => Up(w)
  /\ pc[w] \in Connecting /\ OwnManager(w) => Up(w)
  /\ pc[w] # "abort"

UndisturbedOnTrack == \A w \in Workers : w \notin disturbed => OnTrack(w)

HealingInv == SpawnInv /\ UndisturbedOnTrack

\* Whoever is on its way stays there unless it is disturbed.
LEMMA OnTrackStep ==
  ASSUME SpawnInv, Next, NEW x \in Workers, OnTrack(x), ~Disturbs(x)
  PROVE  OnTrack(x)'
<1> USE ConstantsAssumption DEF SpawnInv, TypeOK, Owned, Expecting, InHand, Born, AfterSpawn,
      OnTrack, Up, OwnManager, Disturbs, FilesDisturbed, ManagerDisturbed, LimitHit,
      Connecting, NotFound, GoTo, Become, Running, Accepting
<1>1. ASSUME NEW w \in Workers,
             Begin(w) \/ WorkerDies(w)
      PROVE  OnTrack(x)'
  BY <1>1 DEF Begin, WorkerDies
<1>2. ASSUME NEW w \in Workers,
             CheckSock(w) \/ CheckMeta(w) \/ Probe(w) \/ Kill(w) \/ ReadKey(w)
      PROVE  OnTrack(x)'
  BY <1>2 DEF CheckSock, CheckMeta, Probe, Kill, ReadKey
<1>3. ASSUME NEW w \in Workers,
             Dial(w) \/ CreateProxy(w) \/ CreateFails(w)
      PROVE  OnTrack(x)'
  BY <1>3 DEF Dial, CreateProxy, CreateFails, ConnectFailed, Reaches
<1>4. ASSUME NEW w \in Workers,
             DropSock(w) \/ DropMeta(w) \/ ClearSock(w) \/ ClearMeta(w)
      PROVE  OnTrack(x)'
  BY <1>4 DEF DropSock, DropMeta, ClearSock, ClearMeta, UnlinkSock, UnlinkMeta
<1>5. ASSUME NEW w \in Workers,
             Acquire(w) \/ Release(w) \/ FirstCall(w)
      PROVE  OnTrack(x)'
  BY <1>5 DEF Acquire, Release, FirstCall
<1>6. ASSUME NEW w \in Workers,
             Spawn(w)
      PROVE  OnTrack(x)'
  BY <1>6 DEF Spawn
<1>7. ASSUME NEW w \in Workers,
             AwaitSock(w) \/ AwaitTimeout(w) \/ OpenMeta(w) \/ WriteMeta(w)
      PROVE  OnTrack(x)'
  BY <1>7 DEF AwaitSock, AwaitTimeout, OpenMeta, WriteMeta
<1>8. ASSUME NEW m \in Managers,
             Bind(m)
      PROVE  OnTrack(x)'
  BY <1>8 DEF Bind
<1>9. ASSUME NEW m \in Managers,
             Manager(m), ~Bind(m)
      PROVE  OnTrack(x)'
  BY <1>9 DEF Manager, InitService, IdleUnlinkSock, IdleExit, TerminateExit, Watchdog
<1>10. ASSUME NEW m \in Managers,
             Disturb(m)
      PROVE  OnTrack(x)'
  BY <1>10 DEF Disturb, IdleStop, Terminate, Crash, PidLingers
<1>11. ASSUME NEW o \in Owners, OwnerExit(o) \/ OwnerPidLingers(o)
       PROVE  OnTrack(x)'
  BY <1>11 DEF OwnerExit, OwnerPidLingers
<1>12. QED
  BY <1>1, <1>2, <1>3, <1>4, <1>5, <1>6, <1>7, <1>8, <1>9, <1>10, <1>11
  DEF Next, Worker

\* The history variable watches and never interferes.
LEMMA HealingIsSpawn ==
  /\ HealingInit => Init
  /\ [HealingNext]_healingVars => [Next]_vars
BY DEF HealingInit, HealingNext, healingVars

\* A worker that is not busy is at no point where a failure could make it raise.
LEMMA IdleStaysSafe ==
  ASSUME SpawnInv, Next, NEW x \in Workers, pc[x] \notin Busy
  PROVE  pc'[x] \notin Launching \cup Connecting \cup {"abort"}
<1> USE ConstantsAssumption DEF SpawnInv, TypeOK, Points, Busy, LookUp, Dropping, Leaving, Finished,
      Launching, Connecting, NotFound, GoTo, Become
<1>1. ASSUME NEW w \in Workers,
             Begin(w) \/ WorkerDies(w)
      PROVE  pc'[x] \notin Launching \cup Connecting \cup {"abort"}
  BY <1>1 DEF Begin, WorkerDies
<1>2. ASSUME NEW w \in Workers,
             CheckSock(w) \/ CheckMeta(w) \/ Probe(w) \/ Kill(w) \/ ReadKey(w)
      PROVE  pc'[x] \notin Launching \cup Connecting \cup {"abort"}
  BY <1>2 DEF CheckSock, CheckMeta, Probe, Kill, ReadKey
<1>3. ASSUME NEW w \in Workers,
             Dial(w) \/ CreateProxy(w) \/ CreateFails(w)
      PROVE  pc'[x] \notin Launching \cup Connecting \cup {"abort"}
  BY <1>3 DEF Dial, CreateProxy, CreateFails, ConnectFailed, Reaches
<1>4. ASSUME NEW w \in Workers,
             DropSock(w) \/ DropMeta(w) \/ ClearSock(w) \/ ClearMeta(w)
      PROVE  pc'[x] \notin Launching \cup Connecting \cup {"abort"}
  BY <1>4 DEF DropSock, DropMeta, ClearSock, ClearMeta, UnlinkSock, UnlinkMeta
<1>5. ASSUME NEW w \in Workers,
             Acquire(w) \/ Release(w) \/ FirstCall(w)
      PROVE  pc'[x] \notin Launching \cup Connecting \cup {"abort"}
  BY <1>5 DEF Acquire, Release, FirstCall
<1>6. ASSUME NEW w \in Workers,
             Spawn(w)
      PROVE  pc'[x] \notin Launching \cup Connecting \cup {"abort"}
  BY <1>6 DEF Spawn
<1>7. ASSUME NEW w \in Workers,
             AwaitSock(w) \/ AwaitTimeout(w) \/ OpenMeta(w) \/ WriteMeta(w)
      PROVE  pc'[x] \notin Launching \cup Connecting \cup {"abort"}
  BY <1>7 DEF AwaitSock, AwaitTimeout, OpenMeta, WriteMeta
<1>8. ASSUME NEW m \in Managers,
             Bind(m)
      PROVE  pc'[x] \notin Launching \cup Connecting \cup {"abort"}
  BY <1>8 DEF Bind
<1>9. ASSUME NEW m \in Managers,
             Manager(m), ~Bind(m)
      PROVE  pc'[x] \notin Launching \cup Connecting \cup {"abort"}
  BY <1>9 DEF Manager, InitService, IdleUnlinkSock, IdleExit, TerminateExit, Watchdog
<1>10. ASSUME NEW m \in Managers,
             Disturb(m)
      PROVE  pc'[x] \notin Launching \cup Connecting \cup {"abort"}
  BY <1>10 DEF Disturb, IdleStop, Terminate, Crash, PidLingers
<1>11. ASSUME NEW o \in Owners, OwnerExit(o) \/ OwnerPidLingers(o)
       PROVE  pc'[x] \notin Launching \cup Connecting \cup {"abort"}
  BY <1>11 DEF OwnerExit, OwnerPidLingers
<1>12. QED
  BY <1>1, <1>2, <1>3, <1>4, <1>5, <1>6, <1>7, <1>8, <1>9, <1>10, <1>11
  DEF Next, Worker

\* A call that nobody disturbs stays on its way.
LEMMA UndisturbedStep ==
  HealingInv /\ [HealingNext]_healingVars => UndisturbedOnTrack'
<1> SUFFICES ASSUME HealingInv, [HealingNext]_healingVars,
                    NEW x \in Workers, x \notin disturbed'
             PROVE  OnTrack(x)'
  BY DEF UndisturbedOnTrack
<1> USE DEF HealingInv, UndisturbedOnTrack
<1>1. CASE HealingNext /\ pc[x] \in Busy
  BY <1>1, OnTrackStep DEF HealingNext
<1>2. CASE HealingNext /\ pc[x] \notin Busy
  BY <1>2, IdleStaysSafe DEF HealingNext, OnTrack, Launching
<1>3. CASE UNCHANGED healingVars
  BY <1>3 DEF healingVars, vars, OnTrack, Up, OwnManager
<1>4. QED
  BY <1>1, <1>2, <1>3

\* A call of _get_persistent_client that raises was disturbed while it ran.
THEOREM LeftoversNeverRaise == HealingSpec => []OnlyDisturbedCallsRaise
<1>1. HealingInit => HealingInv
  <2> SUFFICES ASSUME HealingInit PROVE HealingInv
    OBVIOUS
  <2>1. SpawnInv
    BY HealingIsSpawn, SpawnInvInit
  <2>2. UndisturbedOnTrack
    BY DEF HealingInit, Init, UndisturbedOnTrack, OnTrack, Connecting
  <2>3. QED
    BY <2>1, <2>2 DEF HealingInv
<1>2. HealingInv /\ [HealingNext]_healingVars => HealingInv'
  BY HealingIsSpawn, SpawnInvStep, UndisturbedStep DEF HealingInv
<1>3. HealingInv => OnlyDisturbedCallsRaise
  BY DEF HealingInv, UndisturbedOnTrack, OnTrack, OnlyDisturbedCallsRaise
<1>4. QED
  BY <1>1, <1>2, <1>3, PTL DEF HealingSpec
===============================================================================
