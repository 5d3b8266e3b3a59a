------------------------- MODULE EphemeralHistoryProofs -------------------------
(***************************************************************************)
(* Proofs about direct mode, for any sets of callers, playbooks and paths, *)
(* any choice of paths and any faults: a caller fails only if it was       *)
(* disturbed at work, and of two callers with one path one is served.      *)
(***************************************************************************)
EXTENDS EphemeralHistory, TLAPS

-----------------------------------------------------------------------------
(* The inductive invariant. *)

\* No manager before its launch.
LaunchedLate ==
  \A w \in Callers : pc[w] \in {"ready", "clear", "spawn"} => proc[w] = "unborn"

\* A socket is linked at the path of the manager that bound it.
LinkedOwn ==
  \A p \in Paths : \A m \in Callers :
    sock[p] = m => path[m] = p /\ proc[m] \notin {"unborn", "starting"}

\* Nothing brings a leftover back to a path that was cleared.
Swept ==
  \A w \in Callers : pc[w] \notin {"ready", "clear", "gone"} => sock[path[w]] # Leftover

\* A manager that is of no use, or on its way out, had its trouble.
TroubleKnown ==
  \A w \in Callers :
    proc[w] \in {"broken", "idling", "idled", "terminating"} => w \in troubled

\* The manager of w listens at its path, with a service or one to come.
Up(w) == sock[path[w]] = w /\ proc[w] \in {"bound", "serving"}

\* Nothing is at the path of w, and w, or the manager it has launched, is about
\* to take it.
Vacant(w) == sock[path[w]] = NoManager

\* What the path and the manager of w are like while all goes well.
OnTrack(w) ==
  /\ pc[w] = "spawn" => Vacant(w)
  /\ pc[w] = "await" => Up(w) \/ (Vacant(w) /\ proc[w] = "starting")
  /\ pc[w] \in Dialling \cup {"using"} => Up(w)
  /\ pc[w] # "failed"

UndisturbedOnTrack == \A w \in Callers : w \notin disturbed => OnTrack(w)

\* Two callers that have one path to themselves, and no trouble of their own.
Rivals(v, w) ==
  /\ v # w /\ path[v] = path[w]
  /\ {v, w} \cap troubled = {}
  /\ pc[v] # "gone" /\ pc[w] # "gone"
  /\ \A u \in Callers \ {v, w} : path[u] = path[v] => pc[u] = "ready"

\* A manager that is late, because its caller took the rival's socket for its
\* own, never gets to bind: the rival's socket stays.
LateIsBlocked ==
  \A v, w \in Callers :
    Rivals(v, w) /\ proc[v] = "starting" /\ pc[v] # "await" => sock[path[v]] = w

OneOnTrack ==
  \A v, w \in Callers : Rivals(v, w) => OnTrack(v) \/ OnTrack(w)

DirectInv ==
  /\ TypeOK
  /\ LaunchedLate
  /\ LinkedOwn
  /\ Swept
  /\ TroubleKnown
  /\ UndisturbedOnTrack
  /\ LateIsBlocked
  /\ OneOnTrack

-----------------------------------------------------------------------------
(* Types. *)

\* No step leaves the types.
LEMMA TypeStep == TypeOK /\ [HistoryNext]_historyVars => TypeOK'
<1> USE EphemeralAssumption DEF TypeOK, Busy, Dialling, Finished, Running, Accepting, GoTo, Become
<1> SUFFICES ASSUME TypeOK, [HistoryNext]_historyVars
             PROVE  TypeOK'
  OBVIOUS
<1>1. CASE HistoryNext
  <2> DEFINE CoreOK ==
        /\ pc \in [Callers -> Busy \cup Finished \cup {"ready"}]
        /\ path \in [Callers -> Paths]
        /\ sock \in [Paths -> Callers \cup {NoManager, Leftover}]
        /\ proc \in [Callers -> Running \cup {"unborn", "dead"}]
        /\ shut \subseteq Lookups
        /\ ownerAlive \subseteq Owners /\ ownerPid \subseteq Owners
        /\ adopted \subseteq Callers
  <2>1. ASSUME NEW w \in Callers, Begin(w) \/ WorkerDies(w)
        PROVE  CoreOK'
    BY <2>1 DEF Begin, WorkerDies
  <2>2. ASSUME NEW w \in Callers, Clear(w) \/ Spawn(w)
        PROVE  CoreOK'
    BY <2>2 DEF Clear, Spawn
  <2>3. ASSUME NEW w \in Callers,
               AwaitSock(w) \/ AwaitTimeout(w) \/ DialFails(w) \/ Use(w) \/ Cleanup(w)
        PROVE  CoreOK'
    BY <2>3 DEF AwaitSock, AwaitTimeout, DialFails, Use, Cleanup
  <2>4. ASSUME NEW w \in Callers, Dial(w)
        PROVE  CoreOK'
    BY <2>4 DEF Dial, After
  <2>5. ASSUME NEW m \in Callers, Manager(m)
        PROVE  CoreOK'
    BY <2>5 DEF Manager, Bind, InitService, IdleUnlink, IdleExit, TerminateExit, Watchdog, Unlinks
  <2>6. ASSUME NEW m \in Callers, Disturb(m)
        PROVE  CoreOK'
    BY <2>6 DEF Disturb, IdleStop, Terminate, Crash
  <2>7. ASSUME NEW o \in Owners, OwnerExit(o) \/ OwnerPidLingers(o)
        PROVE  CoreOK'
    BY <2>7 DEF OwnerExit, OwnerPidLingers
  <2>8. CoreOK'
    BY <1>1, <2>1, <2>2, <2>3, <2>4, <2>5, <2>6, <2>7 DEF HistoryNext, Next, Caller
  <2>9. disturbed' \subseteq Callers /\ troubled' \subseteq Callers
    BY <1>1 DEF HistoryNext
  <2>10. QED
    BY <2>8, <2>9
<1>2. CASE UNCHANGED historyVars
  BY <1>2 DEF historyVars, vars
<1>3. QED
  BY <1>1, <1>2

\* The initial values are of their types.
LEMMA TypeInit == HistoryInit => TypeOK
BY EphemeralAssumption DEF HistoryInit, Init, TypeOK

\* Every variable stays within its type.
THEOREM TypeCorrect == HistorySpec => []TypeOK
BY TypeInit, TypeStep, PTL DEF HistorySpec

-----------------------------------------------------------------------------
(* What callers and managers are at, step by step. *)

\* A caller launches its manager after the clean-up and goes on to wait.
LEMMA LaunchedLateStep ==
  ASSUME TypeOK, LaunchedLate, Next
  PROVE  LaunchedLate'
<1> USE EphemeralAssumption DEF TypeOK, Busy, Dialling, Finished, Running, Accepting, GoTo, Become,
      LaunchedLate
<1>1. ASSUME NEW w \in Callers, Begin(w) \/ WorkerDies(w)
      PROVE  LaunchedLate'
  BY <1>1 DEF Begin, WorkerDies
<1>2. ASSUME NEW w \in Callers, Clear(w)
      PROVE  LaunchedLate'
  BY <1>2 DEF Clear
<1>3. ASSUME NEW w \in Callers, Spawn(w)
      PROVE  LaunchedLate'
  BY <1>3 DEF Spawn
<1>4. ASSUME NEW w \in Callers, AwaitSock(w) \/ AwaitTimeout(w)
      PROVE  LaunchedLate'
  BY <1>4 DEF AwaitSock, AwaitTimeout
<1>5. ASSUME NEW w \in Callers, Dial(w) \/ DialFails(w)
      PROVE  LaunchedLate'
  BY <1>5 DEF Dial, DialFails, Reaches, After
<1>6. ASSUME NEW w \in Callers, Use(w) \/ Cleanup(w)
      PROVE  LaunchedLate'
  BY <1>6 DEF Use, Cleanup
<1>7. ASSUME NEW m \in Callers, Bind(m)
      PROVE  LaunchedLate'
  BY <1>7 DEF Bind
<1>8. ASSUME NEW m \in Callers, Manager(m), ~Bind(m)
      PROVE  LaunchedLate'
  BY <1>8 DEF Manager, InitService, IdleUnlink, IdleExit, TerminateExit,
       Watchdog, Unlinks
<1>9. ASSUME NEW m \in Callers, Disturb(m)
      PROVE  LaunchedLate'
  BY <1>9 DEF Disturb, IdleStop, Terminate, Crash
<1>10. ASSUME NEW o \in Owners, OwnerExit(o) \/ OwnerPidLingers(o)
       PROVE  LaunchedLate'
  BY <1>10 DEF OwnerExit, OwnerPidLingers
<1>11. QED
  BY <1>1, <1>2, <1>3, <1>4, <1>5, <1>6, <1>7, <1>8, <1>9, <1>10 DEF Next, Caller, Manager

\* Only its own manager links a socket at a path.
LEMMA LinkedOwnStep ==
  ASSUME TypeOK, LaunchedLate, LinkedOwn, Next
  PROVE  LinkedOwn'
<1> USE EphemeralAssumption DEF TypeOK, Busy, Dialling, Finished, Running, Accepting, GoTo, Become,
      LaunchedLate, LinkedOwn
<1>1. ASSUME NEW w \in Callers, Begin(w) \/ WorkerDies(w)
      PROVE  LinkedOwn'
  BY <1>1 DEF Begin, WorkerDies
<1>2. ASSUME NEW w \in Callers, Clear(w)
      PROVE  LinkedOwn'
  BY <1>2 DEF Clear
<1>3. ASSUME NEW w \in Callers, Spawn(w)
      PROVE  LinkedOwn'
  BY <1>3 DEF Spawn
<1>4. ASSUME NEW w \in Callers, AwaitSock(w) \/ AwaitTimeout(w)
      PROVE  LinkedOwn'
  BY <1>4 DEF AwaitSock, AwaitTimeout
<1>5. ASSUME NEW w \in Callers, Dial(w) \/ DialFails(w)
      PROVE  LinkedOwn'
  BY <1>5 DEF Dial, DialFails, Reaches, After
<1>6. ASSUME NEW w \in Callers, Use(w) \/ Cleanup(w)
      PROVE  LinkedOwn'
  BY <1>6 DEF Use, Cleanup
<1>7. ASSUME NEW m \in Callers, Bind(m)
      PROVE  LinkedOwn'
  BY <1>7 DEF Bind
<1>8. ASSUME NEW m \in Callers, Manager(m), ~Bind(m)
      PROVE  LinkedOwn'
  BY <1>8 DEF Manager, InitService, IdleUnlink, IdleExit, TerminateExit,
       Watchdog, Unlinks
<1>9. ASSUME NEW m \in Callers, Disturb(m)
      PROVE  LinkedOwn'
  BY <1>9 DEF Disturb, IdleStop, Terminate, Crash
<1>10. ASSUME NEW o \in Owners, OwnerExit(o) \/ OwnerPidLingers(o)
       PROVE  LinkedOwn'
  BY <1>10 DEF OwnerExit, OwnerPidLingers
<1>11. QED
  BY <1>1, <1>2, <1>3, <1>4, <1>5, <1>6, <1>7, <1>8, <1>9, <1>10 DEF Next, Caller, Manager

\* A clean-up removes the leftover, and nobody leaves one at work.
LEMMA SweptStep ==
  ASSUME TypeOK, LinkedOwn, Swept, Next
  PROVE  Swept'
<1> USE EphemeralAssumption DEF TypeOK, Busy, Dialling, Finished, Running, Accepting, GoTo, Become,
      LinkedOwn, Swept
<1>1. ASSUME NEW w \in Callers, Begin(w) \/ WorkerDies(w)
      PROVE  Swept'
  BY <1>1 DEF Begin, WorkerDies
<1>2. ASSUME NEW w \in Callers, Clear(w)
      PROVE  Swept'
  BY <1>2 DEF Clear
<1>3. ASSUME NEW w \in Callers, Spawn(w)
      PROVE  Swept'
  BY <1>3 DEF Spawn
<1>4. ASSUME NEW w \in Callers, AwaitSock(w) \/ AwaitTimeout(w)
      PROVE  Swept'
  BY <1>4 DEF AwaitSock, AwaitTimeout
<1>5. ASSUME NEW w \in Callers, Dial(w) \/ DialFails(w)
      PROVE  Swept'
  BY <1>5 DEF Dial, DialFails, Reaches, After
<1>6. ASSUME NEW w \in Callers, Use(w) \/ Cleanup(w)
      PROVE  Swept'
  BY <1>6 DEF Use, Cleanup
<1>7. ASSUME NEW m \in Callers, Bind(m)
      PROVE  Swept'
  BY <1>7 DEF Bind
<1>8. ASSUME NEW m \in Callers, Manager(m), ~Bind(m)
      PROVE  Swept'
  BY <1>8 DEF Manager, InitService, IdleUnlink, IdleExit, TerminateExit,
       Watchdog, Unlinks
<1>9. ASSUME NEW m \in Callers, Disturb(m)
      PROVE  Swept'
  BY <1>9 DEF Disturb, IdleStop, Terminate, Crash
<1>10. ASSUME NEW o \in Owners, OwnerExit(o) \/ OwnerPidLingers(o)
       PROVE  Swept'
  BY <1>10 DEF OwnerExit, OwnerPidLingers
<1>11. QED
  BY <1>1, <1>2, <1>3, <1>4, <1>5, <1>6, <1>7, <1>8, <1>9, <1>10 DEF Next, Caller, Manager

\* A manager comes to a bad state by a trouble that the history records.
LEMMA TroubleKnownStep ==
  ASSUME TypeOK, TroubleKnown, HistoryNext
  PROVE  TroubleKnown'
<1> DEFINE Known == \A u \in Callers :
                      proc'[u] \in {"broken", "idling", "idled", "terminating"} =>
                        u \in troubled \/ Trouble(u)
<1> USE EphemeralAssumption DEF TypeOK, Busy, Dialling, Finished, Running, Accepting, GoTo, Become, TroubleKnown, Trouble
<1>0. Next
  BY DEF HistoryNext
<1>1. ASSUME NEW w \in Callers, Begin(w) \/ WorkerDies(w)
      PROVE  Known
  BY <1>1 DEF Begin, WorkerDies
<1>2. ASSUME NEW w \in Callers, Clear(w)
      PROVE  Known
  BY <1>2 DEF Clear
<1>3. ASSUME NEW w \in Callers, Spawn(w)
      PROVE  Known
  BY <1>3 DEF Spawn
<1>4. ASSUME NEW w \in Callers, AwaitSock(w) \/ AwaitTimeout(w)
      PROVE  Known
  BY <1>4 DEF AwaitSock, AwaitTimeout
<1>5. ASSUME NEW w \in Callers, Dial(w) \/ DialFails(w)
      PROVE  Known
  BY <1>5 DEF Dial, DialFails, Reaches, After
<1>6. ASSUME NEW w \in Callers, Use(w) \/ Cleanup(w)
      PROVE  Known
  BY <1>6 DEF Use, Cleanup
<1>7. ASSUME NEW m \in Callers, Bind(m)
      PROVE  Known
  BY <1>7 DEF Bind
<1>8. ASSUME NEW m \in Callers, Manager(m), ~Bind(m)
      PROVE  Known
  BY <1>8 DEF Manager, InitService, IdleUnlink, IdleExit, TerminateExit,
       Watchdog, Unlinks
<1>9. ASSUME NEW m \in Callers, Disturb(m)
      PROVE  Known
  BY <1>9 DEF Disturb, IdleStop, Terminate, Crash
<1>10. ASSUME NEW o \in Owners, OwnerExit(o) \/ OwnerPidLingers(o)
       PROVE  Known
  BY <1>10 DEF OwnerExit, OwnerPidLingers
<1>11. Known
  BY <1>0, <1>1, <1>2, <1>3, <1>4, <1>5, <1>6, <1>7, <1>8, <1>9, <1>10 DEF Next, Caller, Manager
<1>12. QED
  BY <1>11 DEF HistoryNext

\* Whoever is on its way, stays there, unless someone else changes the file at
\* its path or it has trouble of its own.
LEMMA OnTrackStep ==
  ASSUME TypeOK, LaunchedLate, LinkedOwn, Next,
         NEW x \in Callers, OnTrack(x), ~Trouble(x), ~FileDisturbed(x)
  PROVE  OnTrack(x)'
<1> USE EphemeralAssumption DEF TypeOK, Busy, Dialling, Finished, Running, Accepting, GoTo, Become,
      LaunchedLate, LinkedOwn, OnTrack, Up, Vacant, Trouble, FileDisturbed, Reaches
<1>1. ASSUME NEW w \in Callers, Begin(w) \/ WorkerDies(w)
      PROVE  OnTrack(x)'
  BY <1>1 DEF Begin, WorkerDies
<1>2. ASSUME NEW w \in Callers, Clear(w)
      PROVE  OnTrack(x)'
  BY <1>2 DEF Clear
<1>3. ASSUME NEW w \in Callers, Spawn(w)
      PROVE  OnTrack(x)'
  BY <1>3 DEF Spawn
<1>4. ASSUME NEW w \in Callers, AwaitSock(w) \/ AwaitTimeout(w)
      PROVE  OnTrack(x)'
  BY <1>4 DEF AwaitSock, AwaitTimeout
<1>5. ASSUME NEW w \in Callers, Dial(w) \/ DialFails(w)
      PROVE  OnTrack(x)'
  BY <1>5 DEF Dial, DialFails, Reaches, After
<1>6. ASSUME NEW w \in Callers, Use(w) \/ Cleanup(w)
      PROVE  OnTrack(x)'
  BY <1>6 DEF Use, Cleanup
<1>7. ASSUME NEW m \in Callers, Bind(m)
      PROVE  OnTrack(x)'
  BY <1>7 DEF Bind
<1>8. ASSUME NEW m \in Callers, Manager(m), ~Bind(m)
      PROVE  OnTrack(x)'
  BY <1>8 DEF Manager, InitService, IdleUnlink, IdleExit, TerminateExit,
       Watchdog, Unlinks
<1>9. ASSUME NEW m \in Callers, Disturb(m)
      PROVE  OnTrack(x)'
  BY <1>9 DEF Disturb, IdleStop, Terminate, Crash
<1>10. ASSUME NEW o \in Owners, OwnerExit(o) \/ OwnerPidLingers(o)
       PROVE  OnTrack(x)'
  BY <1>10 DEF OwnerExit, OwnerPidLingers
<1>11. QED
  BY <1>1, <1>2, <1>3, <1>4, <1>5, <1>6, <1>7, <1>8, <1>9, <1>10 DEF Next, Caller, Manager

-----------------------------------------------------------------------------
(* Two callers with one path. *)

\* Paths are computed once, the dead stay dead, and nobody gets ready again.
LEMMA Onward ==
  ASSUME TypeOK, Next
  PROVE  /\ path' = path
         /\ \A u \in Callers : pc[u] = "gone" => pc'[u] = "gone"
         /\ \A u \in Callers : pc'[u] = "ready" => pc[u] = "ready"
<1> DEFINE Goal == /\ path' = path
                   /\ \A u \in Callers : pc[u] = "gone" => pc'[u] = "gone"
                   /\ \A u \in Callers : pc'[u] = "ready" => pc[u] = "ready"
<1> USE EphemeralAssumption DEF TypeOK, Busy, Dialling, Finished, Running, Accepting, GoTo, Become
<1>1. ASSUME NEW w \in Callers, Begin(w) \/ WorkerDies(w)
      PROVE  Goal
  BY <1>1 DEF Begin, WorkerDies
<1>2. ASSUME NEW w \in Callers, Clear(w)
      PROVE  Goal
  BY <1>2 DEF Clear
<1>3. ASSUME NEW w \in Callers, Spawn(w)
      PROVE  Goal
  BY <1>3 DEF Spawn
<1>4. ASSUME NEW w \in Callers, AwaitSock(w) \/ AwaitTimeout(w)
      PROVE  Goal
  BY <1>4 DEF AwaitSock, AwaitTimeout
<1>5. ASSUME NEW w \in Callers, Dial(w) \/ DialFails(w)
      PROVE  Goal
  BY <1>5 DEF Dial, DialFails, Reaches, After
<1>6. ASSUME NEW w \in Callers, Use(w) \/ Cleanup(w)
      PROVE  Goal
  BY <1>6 DEF Use, Cleanup
<1>7. ASSUME NEW m \in Callers, Bind(m)
      PROVE  Goal
  BY <1>7 DEF Bind
<1>8. ASSUME NEW m \in Callers, Manager(m), ~Bind(m)
      PROVE  Goal
  BY <1>8 DEF Manager, InitService, IdleUnlink, IdleExit, TerminateExit,
       Watchdog, Unlinks
<1>9. ASSUME NEW m \in Callers, Disturb(m)
      PROVE  Goal
  BY <1>9 DEF Disturb, IdleStop, Terminate, Crash
<1>10. ASSUME NEW o \in Owners, OwnerExit(o) \/ OwnerPidLingers(o)
       PROVE  Goal
  BY <1>10 DEF OwnerExit, OwnerPidLingers
<1>11. QED
  BY <1>1, <1>2, <1>3, <1>4, <1>5, <1>6, <1>7, <1>8, <1>9, <1>10 DEF Next, Caller, Manager

\* Who moves a caller on, and who launches a manager.
LEMMA WhoMoves ==
  ASSUME TypeOK, Next, NEW x \in Callers
  PROVE  /\ pc[x] = "await" /\ pc'[x] # "await" =>
              AwaitSock(x) \/ AwaitTimeout(x) \/ pc'[x] = "gone"
         /\ proc[x] # "starting" /\ proc'[x] = "starting" => pc'[x] = "await"
         /\ pc[x] \in Finished => pc'[x] = pc[x]
         /\ pc[x] = "ready" => pc'[x] \in {"ready", "clear"}
<1> DEFINE Goal == /\ pc[x] = "await" /\ pc'[x] # "await" =>
                        AwaitSock(x) \/ AwaitTimeout(x) \/ pc'[x] = "gone"
                   /\ proc[x] # "starting" /\ proc'[x] = "starting" => pc'[x] = "await"
                   /\ pc[x] \in Finished => pc'[x] = pc[x]
                   /\ pc[x] = "ready" => pc'[x] \in {"ready", "clear"}
<1> USE EphemeralAssumption DEF TypeOK, Busy, Dialling, Finished, Running, Accepting, GoTo, Become
<1>1. ASSUME NEW w \in Callers, Begin(w) \/ WorkerDies(w)
      PROVE  Goal
  BY <1>1 DEF Begin, WorkerDies
<1>2. ASSUME NEW w \in Callers, Clear(w)
      PROVE  Goal
  BY <1>2 DEF Clear
<1>3. ASSUME NEW w \in Callers, Spawn(w)
      PROVE  Goal
  BY <1>3 DEF Spawn
<1>4. ASSUME NEW w \in Callers, AwaitSock(w) \/ AwaitTimeout(w)
      PROVE  Goal
  BY <1>4 DEF AwaitSock, AwaitTimeout
<1>5. ASSUME NEW w \in Callers, Dial(w) \/ DialFails(w)
      PROVE  Goal
  BY <1>5 DEF Dial, DialFails, Reaches, After
<1>6. ASSUME NEW w \in Callers, Use(w) \/ Cleanup(w)
      PROVE  Goal
  BY <1>6 DEF Use, Cleanup
<1>7. ASSUME NEW m \in Callers, Bind(m)
      PROVE  Goal
  BY <1>7 DEF Bind
<1>8. ASSUME NEW m \in Callers, Manager(m), ~Bind(m)
      PROVE  Goal
  BY <1>8 DEF Manager, InitService, IdleUnlink, IdleExit, TerminateExit,
       Watchdog, Unlinks
<1>9. ASSUME NEW m \in Callers, Disturb(m)
      PROVE  Goal
  BY <1>9 DEF Disturb, IdleStop, Terminate, Crash
<1>10. ASSUME NEW o \in Owners, OwnerExit(o) \/ OwnerPidLingers(o)
       PROVE  Goal
  BY <1>10 DEF OwnerExit, OwnerPidLingers
<1>11. QED
  BY <1>1, <1>2, <1>3, <1>4, <1>5, <1>6, <1>7, <1>8, <1>9, <1>10 DEF Next, Caller, Manager

\* Rivals have been rivals all along.
LEMMA RivalsBefore ==
  ASSUME TypeOK, HistoryNext, NEW v \in Callers, NEW w \in Callers, Rivals(v, w)'
  PROVE  Rivals(v, w) /\ ~Trouble(v) /\ ~Trouble(w) /\ path' = path
<1>1. ~Trouble(v) /\ ~Trouble(w) /\ {v, w} \cap troubled = {}
  BY DEF Rivals, HistoryNext
<1>2. QED
  BY <1>1, Onward DEF Rivals, HistoryNext

\* Who changes the file at a path.
LEMMA WhoTouches ==
  ASSUME TypeOK, Next, NEW p \in Paths, sock'[p] # sock[p]
  PROVE  \E u \in Callers :
           /\ path[u] = p
           /\ \/ Clear(u)
              \/ Bind(u) /\ sock[p] = NoManager
              \/ proc[u] \in {"idling", "terminating"}
<1> DEFINE Goal == \E u \in Callers :
                     /\ path[u] = p
                     /\ \/ Clear(u)
                        \/ Bind(u) /\ sock[p] = NoManager
                        \/ proc[u] \in {"idling", "terminating"}
<1> USE EphemeralAssumption DEF TypeOK, Busy, Dialling, Finished, Running, Accepting, GoTo, Become
<1>1. ASSUME NEW w \in Callers, Begin(w) \/ WorkerDies(w)
      PROVE  Goal
  BY <1>1 DEF Begin, WorkerDies
<1>2. ASSUME NEW w \in Callers, Clear(w)
      PROVE  Goal
  BY <1>2 DEF Clear
<1>3. ASSUME NEW w \in Callers, Spawn(w)
      PROVE  Goal
  BY <1>3 DEF Spawn
<1>4. ASSUME NEW w \in Callers, AwaitSock(w) \/ AwaitTimeout(w)
      PROVE  Goal
  BY <1>4 DEF AwaitSock, AwaitTimeout
<1>5. ASSUME NEW w \in Callers, Dial(w) \/ DialFails(w)
      PROVE  Goal
  BY <1>5 DEF Dial, DialFails, Reaches, After
<1>6. ASSUME NEW w \in Callers, Use(w) \/ Cleanup(w)
      PROVE  Goal
  BY <1>6 DEF Use, Cleanup
<1>7. ASSUME NEW m \in Callers, Bind(m)
      PROVE  Goal
  BY <1>7 DEF Bind
<1>8. ASSUME NEW m \in Callers, Manager(m), ~Bind(m)
      PROVE  Goal
  BY <1>8 DEF Manager, InitService, IdleUnlink, IdleExit, TerminateExit,
       Watchdog, Unlinks
<1>9. ASSUME NEW m \in Callers, Disturb(m)
      PROVE  Goal
  BY <1>9 DEF Disturb, IdleStop, Terminate, Crash
<1>10. ASSUME NEW o \in Owners, OwnerExit(o) \/ OwnerPidLingers(o)
       PROVE  Goal
  BY <1>10 DEF OwnerExit, OwnerPidLingers
<1>11. QED
  BY <1>1, <1>2, <1>3, <1>4, <1>5, <1>6, <1>7, <1>8, <1>9, <1>10 DEF Next, Caller, Manager

\* Of two rivals, one whose file changes owes it to the other.
LEMMA RivalTouches ==
  ASSUME TypeOK, LaunchedLate, TroubleKnown, Next, NEW v \in Callers, NEW w \in Callers,
         Rivals(v, w), sock'[path[v]] # sock[path[v]]
  PROVE  \E u \in {v, w} : Clear(u) \/ (Bind(u) /\ sock[path[v]] = NoManager)
<1>1. PICK u \in Callers :
        /\ path[u] = path[v]
        /\ \/ Clear(u)
           \/ Bind(u) /\ sock[path[v]] = NoManager
           \/ proc[u] \in {"idling", "terminating"}
  BY WhoTouches DEF TypeOK
<1>2. pc[u] # "ready"
  BY <1>1 DEF Clear, GoTo, Bind, Become, LaunchedLate
<1>3. u \in {v, w}
  BY <1>1, <1>2 DEF Rivals
<1>4. QED
  BY <1>1, <1>3 DEF Rivals, TroubleKnown

\* A rival that is late stays late.
LEMMA LateIsBlockedStep ==
  ASSUME TypeOK, LaunchedLate, LinkedOwn, Swept, TroubleKnown, LateIsBlocked, HistoryNext
  PROVE  LateIsBlocked'
<1> SUFFICES ASSUME NEW v \in Callers, NEW w \in Callers, Rivals(v, w)',
                    proc'[v] = "starting", pc'[v] # "await"
             PROVE  sock'[path'[v]] = w
  BY DEF LateIsBlocked
<1>0. Rivals(v, w) /\ ~Trouble(v) /\ ~Trouble(w) /\ path' = path /\ Next
  BY RivalsBefore DEF HistoryNext
<1>1. CASE proc[v] = "starting" /\ pc[v] # "await"
  <2>1. sock[path[v]] = w
    BY <1>0, <1>1 DEF LateIsBlocked
  <2>2. ~Clear(v) /\ ~Clear(w)
    BY <1>0, <1>1, <2>1 DEF Clear, GoTo, LaunchedLate, LinkedOwn, TypeOK
  <2>3. sock'[path[v]] = sock[path[v]]
    BY EphemeralAssumption, <1>0, <2>1, <2>2, RivalTouches
  <2>4. QED
    BY <1>0, <2>1, <2>3
<1>2. CASE proc[v] = "starting" /\ pc[v] = "await"
  <2>1. AwaitSock(v)
    <3>1. pc'[v] # "gone"
      BY DEF Rivals
    <3>2. ~AwaitTimeout(v)
      BY <1>0, <1>2 DEF AwaitTimeout, GoTo, Trouble, TypeOK
    <3>3. QED
      BY <1>0, <1>2, <3>1, <3>2, WhoMoves
  <2>2. sock[path[v]] \in Callers \ {v}
    BY <1>2, <2>1 DEF AwaitSock, Swept, LinkedOwn, TypeOK
  <2>3. sock[path[v]] = w
    BY <1>0, <2>2 DEF Rivals, LinkedOwn, LaunchedLate, TypeOK
  <2>4. QED
    BY <1>0, <2>1, <2>3 DEF AwaitSock
<1>3. CASE proc[v] # "starting"
  BY <1>0, <1>3, WhoMoves
<1>4. QED
  BY <1>1, <1>2, <1>3

\* A step that would put one rival off its way puts the other on it.
LEMMA OneOfTwoStays ==
  ASSUME DirectInv, HistoryNext, NEW v \in Callers, NEW w \in Callers,
         Rivals(v, w), ~Trouble(v), ~Trouble(w), path' = path, OnTrack(v)
  PROVE  OnTrack(v)' \/ OnTrack(w)'
<1> USE DEF DirectInv
<1>0. Next
  BY DEF HistoryNext
<1>1. CASE ~FileDisturbed(v)
  BY <1>0, <1>1, OnTrackStep
<1>2. CASE FileDisturbed(v)
  <2>1. PICK u \in {v, w} : Clear(u) \/ (Bind(u) /\ sock[path[v]] = NoManager)
    BY <1>0, <1>2, RivalTouches DEF FileDisturbed
  <2>2. u = w
    BY <1>2, <2>1 DEF FileDisturbed, Clear, Bind, GoTo, Become, TypeOK
  <2>3. CASE Clear(w)
    BY <2>3 DEF Clear, GoTo, TypeOK, OnTrack, Vacant, Dialling
  <2>4. CASE Bind(w) /\ sock[path[v]] = NoManager
    <3>1. Rivals(w, v) /\ path[w] = path[v]
      BY DEF Rivals
    <3>2. pc[w] = "await"
      BY EphemeralAssumption, <2>4, <3>1 DEF LateIsBlocked, Bind, Become
    <3>3. QED
      BY <2>4, <3>1, <3>2 DEF Bind, Become, TypeOK, OnTrack, Up, Dialling
  <2>5. QED
    BY <2>1, <2>2, <2>3, <2>4
<1>3. QED
  BY <1>1, <1>2

\* One of two rivals is on its way after every step.
LEMMA OneOnTrackStep ==
  ASSUME DirectInv, HistoryNext
  PROVE  OneOnTrack'
<1> SUFFICES ASSUME NEW v \in Callers, NEW w \in Callers, Rivals(v, w)'
             PROVE  OnTrack(v)' \/ OnTrack(w)'
  BY DEF OneOnTrack
<1>1. Rivals(v, w) /\ ~Trouble(v) /\ ~Trouble(w) /\ path' = path
  BY RivalsBefore DEF DirectInv
<1>2. Rivals(w, v)
  BY <1>1 DEF Rivals
<1>3. OnTrack(v) \/ OnTrack(w)
  BY <1>1 DEF DirectInv, OneOnTrack
<1>4. QED
  BY <1>1, <1>2, <1>3, OneOfTwoStays

\* A caller that nobody disturbs stays on its way.
LEMMA UndisturbedStep ==
  ASSUME DirectInv, HistoryNext
  PROVE  UndisturbedOnTrack'
<1> SUFFICES ASSUME NEW w \in Callers, w \notin disturbed'
             PROVE  OnTrack(w)'
  BY DEF UndisturbedOnTrack
<1>1. OnTrack(w) /\ Next
  BY DEF DirectInv, UndisturbedOnTrack, HistoryNext
<1>2. CASE pc[w] \in Busy
  BY <1>1, <1>2, OnTrackStep DEF HistoryNext, DirectInv
<1>3. CASE pc[w] \notin Busy
  BY <1>1, <1>3, WhoMoves DEF DirectInv, OnTrack, Busy, Dialling, TypeOK, Finished
<1>4. QED
  BY <1>2, <1>3

-----------------------------------------------------------------------------
(* The theorems. *)

\* The invariant holds at the start.
LEMMA DirectInvInit == HistoryInit => DirectInv
<1> SUFFICES ASSUME HistoryInit PROVE DirectInv
  OBVIOUS
<1>1. TypeOK
  BY TypeInit
<1>2. LaunchedLate /\ LinkedOwn /\ Swept /\ TroubleKnown /\ LateIsBlocked
  BY EphemeralAssumption DEF HistoryInit, Init, LaunchedLate, LinkedOwn, Swept,
     TroubleKnown, LateIsBlocked, Busy, Dialling
<1>3. UndisturbedOnTrack /\ OneOnTrack
  BY DEF HistoryInit, Init, UndisturbedOnTrack, OneOnTrack, OnTrack, Dialling
<1>4. QED
  BY <1>1, <1>2, <1>3 DEF DirectInv

\* The invariant is inductive.
LEMMA DirectInvStep == DirectInv /\ [HistoryNext]_historyVars => DirectInv'
<1> SUFFICES ASSUME DirectInv, [HistoryNext]_historyVars PROVE DirectInv'
  OBVIOUS
<1>1. CASE HistoryNext
  <2>1. TypeOK /\ Next
    BY <1>1 DEF DirectInv, HistoryNext
  <2>2. TypeOK'
    BY <1>1, <2>1, TypeStep
  <2>3. LaunchedLate' /\ LinkedOwn' /\ Swept'
    BY <2>1, LaunchedLateStep, LinkedOwnStep, SweptStep DEF DirectInv
  <2>4. TroubleKnown' /\ LateIsBlocked'
    BY <1>1, <2>1, TroubleKnownStep, LateIsBlockedStep DEF DirectInv
  <2>5. UndisturbedOnTrack' /\ OneOnTrack'
    BY <1>1, UndisturbedStep, OneOnTrackStep
  <2>6. QED
    BY <2>2, <2>3, <2>4, <2>5 DEF DirectInv
<1>2. CASE UNCHANGED historyVars
  BY <1>2 DEF historyVars, vars, DirectInv, TypeOK, LaunchedLate, LinkedOwn, Swept,
     TroubleKnown, UndisturbedOnTrack, LateIsBlocked, OneOnTrack, Rivals, OnTrack, Up, Vacant
<1>3. QED
  BY <1>1, <1>2

\* What lies at the paths, and how callers and managers are doing, stay in step.
THEOREM DirectInvariant == HistorySpec => []DirectInv
BY DirectInvInit, DirectInvStep, PTL DEF HistorySpec

\* A caller fails only if it was disturbed while at work, whatever was at its
\* path before.
THEOREM OnlyTheDisturbedFail == HistorySpec => []FailsOnlyIfDisturbed
<1>1. DirectInv => FailsOnlyIfDisturbed
  BY DEF DirectInv, UndisturbedOnTrack, OnTrack, FailsOnlyIfDisturbed
<1>2. QED
  BY <1>1, DirectInvariant, PTL

\* Two callers with one path may fail each other, but not both.
THEOREM OneOfTwoGetsThrough == HistorySpec => []OneOfTwoIsServed
<1>1. ASSUME DirectInv
      PROVE  OneOfTwoIsServed
  <2> SUFFICES ASSUME NEW v \in Callers, NEW w \in Callers,
                      v # w, path[v] = path[w],
                      {v, w} \cap troubled = {},
                      {pc[v], pc[w]} \subseteq {"done", "failed"},
                      \A u \in Callers \ {v, w} : path[u] = path[v] => pc[u] = "ready"
               PROVE  "done" \in {pc[v], pc[w]}
    BY DEF OneOfTwoIsServed
  <2>1. Rivals(v, w)
    BY DEF Rivals
  <2>2. OnTrack(v) \/ OnTrack(w)
    BY <1>1, <2>1 DEF DirectInv, OneOnTrack
  <2>3. QED
    BY <2>2 DEF OnTrack
<1>2. QED
  BY <1>1, DirectInvariant, PTL
===============================================================================
