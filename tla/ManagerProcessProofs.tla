------------------------- MODULE ManagerProcessProofs -------------------------
(***************************************************************************)
(* Proofs about one manager process: its types, the bound on how long an   *)
(* idle manager stays, the bound on how long it outlives its playbook, and *)
(* whom the idle exit may cut off, for every timeout, poll interval and    *)
(* number of RPCs.                                                         *)
(***************************************************************************)
EXTENDS IdleHistory, TLAPS

(* The idle monitor's bound is not inductive as it stands: it needs what   *)
(* the monitor is still going to sleep, and that the clock does not move   *)
(* once the monitor has decided.                                           *)

Counts == up /\ service = "ready" /\ ~shutdownRequested

IdleInv ==
  /\ nap <= PollInterval
  /\ monitor = "off" <=> IdleTimeout = 0
  /\ monitor = "closed" => shutdownRequested
  /\ Counts /\ monitor = "asleep" => idleFor + nap < IdleTimeout + PollInterval
  /\ Counts /\ monitor = "stopping" => idleFor < IdleTimeout + PollInterval

\* The same for the owner watchdog: the time since the playbook ended and the
\* time the watchdog still sleeps, or waits, add up to a constant.
OrphanInv ==
  /\ ownerAlive => goneFor = 0
  /\ watcher = "watching" => watchNap <= WatchInterval
  /\ watcher = "watching" /\ up => goneFor + watchNap <= WatchInterval
  /\ watcher = "closing" => ~ownerAlive
  /\ watcher = "closing" /\ up => goneFor + watchNap <= WatchInterval + InitWait

-----------------------------------------------------------------------------
(* The operators.                                                          *)

\* The sleep of the idle monitor is a number of ticks (_compute_poll_interval).
LEMMA PollIntervalNat == PollInterval \in Nat
BY ProcessAssumption DEF PollInterval, Larger, Smaller

\* A clock moves on by one tick at most and never past the horizon.
LEMMA OlderNat ==
  ASSUME NEW t \in Nat
  PROVE  Older(t) \in Nat /\ t <= Older(t) /\ Older(t) <= t + 1
BY ProcessAssumption DEF Older

\* A sleep that is not over gets one tick shorter.
LEMMA LessNat ==
  ASSUME NEW t \in Nat
  PROVE  Less(t) \in Nat /\ (t > 0 => Less(t) = t - 1) /\ (t = 0 => Less(t) = 0)
BY DEF Less

-----------------------------------------------------------------------------
(* Types.                                                                  *)

\* The initial values are of their types.
LEMMA TypeInit == Init => TypeOK
<1> SUFFICES ASSUME Init PROVE TypeOK
  OBVIOUS
<1>1. nap \in Nat /\ watchNap \in Nat
  BY ProcessAssumption, PollIntervalNat DEF Init
<1>2. call \in [Calls -> CallStates]
  BY DEF Init, CallStates
<1>3. monitor \in {"off", "asleep", "stopping", "closed"}
  BY DEF Init
<1>4. authLock \subseteq Calls /\ \A c, d \in authLock : c = d
  BY DEF Init
<1>. QED BY <1>1, <1>2, <1>3, <1>4 DEF Init, TypeOK

\* A step of one RPC keeps the types, at most one RPC in the lock.
LEMMA TypeCall ==
  ASSUME TypeOK, NEW c \in Calls, BeginCall(c) \/ Rpc(c)
  PROVE  TypeOK'
<1> USE DEF TypeOK, CallGoes, RpcFrame, RecordActivity, NoActivity, threads, CallStates,
            InFlight
<1>1. CASE BeginCall(c)
  BY <1>1 DEF BeginCall
<1>2. CASE SendDirect(c)
  BY <1>2 DEF SendDirect
<1>3. CASE SendRequest(c)
  BY <1>3 DEF SendRequest
<1>4. CASE Answer(c)
  BY <1>4 DEF Answer
<1>5. CASE Unauthorized(c)
  BY <1>5 DEF Unauthorized
<1>6. CASE BeginAuth(c)
  BY <1>6 DEF BeginAuth
<1>7. CASE EndAuth(c)
  <2>1. /\ idleFor' \in Nat
        /\ call' \in [Calls -> CallStates]
        /\ RpcFrame /\ UNCHANGED shutdownRequested
    <3>1. CASE CallGoes(c, {"reauth"}, "askedAgain") /\ RecordActivity
      BY <3>1, <1>7 DEF EndAuth
    <3>2. CASE CallGoes(c, {"reauth"}, "returned") /\ NoActivity
      BY <3>2, <1>7 DEF EndAuth
    <3>. QED BY <1>7, <3>1, <3>2 DEF EndAuth
  <2>2. authLock' = {}
    BY <1>7 DEF EndAuth
  <2>. QED BY <2>1, <2>2
<1>8. CASE Return(c)
  BY <1>8 DEF Return
<1>. QED BY <1>1, <1>2, <1>3, <1>4, <1>5, <1>6, <1>7, <1>8 DEF Rpc

\* The end of the process keeps the types.
LEMMA TypeExit ==
  ASSUME TypeOK, Exit
  PROVE  /\ up' \in BOOLEAN /\ service' \in {"none", "ready", "failed"}
         /\ idleFor' \in Nat /\ nap' \in Nat /\ watchNap' \in Nat
         /\ mainWait' \in Nat /\ goneFor' \in Nat /\ ownerAlive' \in BOOLEAN
         /\ call' \in [Calls -> CallStates]
         /\ authLock' \subseteq Calls /\ \A c, d \in authLock' : c = d
BY DEF TypeOK, Exit, clocks, CallStates

\* Every step keeps the types.
LEMMA TypeStep == TypeOK /\ [Next]_processVars => TypeOK'
<1> SUFFICES ASSUME TypeOK, [Next]_processVars PROVE TypeOK'
  OBVIOUS
<1> USE DEF TypeOK
<1>1. CASE Tick
  BY <1>1, OlderNat, LessNat DEF Tick, threads
<1>2. CASE InitService
  BY <1>2 DEF InitService, threads
<1>3. CASE Shutdown
  BY <1>3 DEF Shutdown, RpcFrame, NoActivity, threads
<1>4. CASE MonitorWakes
  BY <1>4, PollIntervalNat DEF MonitorWakes
<1>5. CASE MonitorShutsDown
  BY <1>5 DEF MonitorShutsDown, clocks
<1>6. CASE MonitorExits
  BY <1>6, TypeExit DEF MonitorExits, threads
<1>7. CASE WatcherWakes
  BY <1>7, ProcessAssumption DEF WatcherWakes
<1>8. CASE WatcherExits
  BY <1>8, TypeExit DEF WatcherExits, ShutdownService, threads
<1>9. CASE MainExits
  BY <1>9, TypeExit DEF MainExits, ShutdownService, threads
<1>10. CASE Terminate
  BY <1>10, ProcessAssumption DEF Terminate
<1>11. CASE OwnerExits
  BY <1>11 DEF OwnerExits, clocks, threads
<1>12. CASE \E c \in Calls : BeginCall(c) \/ Rpc(c)
  BY <1>12, TypeCall
<1>13. CASE UNCHANGED processVars
  BY <1>13 DEF processVars, clocks, threads
<1>. QED
  BY <1>1, <1>2, <1>3, <1>4, <1>5, <1>6, <1>7, <1>8, <1>9, <1>10, <1>11, <1>12, <1>13
     DEF Next, Threads

\* TypeOK holds in every state of every behaviour: the clocks are numbers, and
\* never two RPCs re-authenticate at a time (platform_manager.py:204-240).
THEOREM TypeCorrect == Spec => []TypeOK
<1>1. Init => TypeOK
  BY TypeInit
<1>2. TypeOK /\ [Next]_processVars => TypeOK'
  BY TypeStep
<1>. QED BY <1>1, <1>2, PTL DEF Spec

-----------------------------------------------------------------------------
(* The idle monitor.                                                       *)

\* A step of one RPC leaves the monitor alone; at most it resets the clock.
LEMMA IdleCall ==
  ASSUME TypeOK, IdleInv, NEW c \in Calls, BeginCall(c) \/ Rpc(c)
  PROVE  IdleInv'
<1>1. /\ idleFor' = idleFor \/ idleFor' = 0
      /\ UNCHANGED <<up, service, shutdownRequested, nap, monitor>>
  BY DEF BeginCall, Rpc, SendDirect, SendRequest, Answer, Unauthorized, BeginAuth,
         EndAuth, Return, CallGoes, RpcFrame, RecordActivity, NoActivity, threads
<1>2. PollInterval' = PollInterval
  BY DEF PollInterval, Larger, Smaller
<1>. QED
  BY <1>1, <1>2, ProcessAssumption, PollIntervalNat DEF IdleInv, Counts, TypeOK

\* Every step keeps the invariant of the idle monitor.
LEMMA IdleStep == TypeOK /\ IdleInv /\ [Next]_processVars => IdleInv'
<1> SUFFICES ASSUME TypeOK, IdleInv, [Next]_processVars PROVE IdleInv'
  OBVIOUS
<1> PollInterval' = PollInterval
  BY DEF PollInterval, Larger, Smaller
<1> PollInterval \in Nat
  BY PollIntervalNat
<1> USE ProcessAssumption DEF TypeOK, IdleInv, Counts
<1>1. CASE Tick
  <2>1. /\ monitor = "off" \/ (monitor = "asleep" /\ nap > 0)
        /\ monitor' = monitor /\ up' = up /\ service' = service
        /\ shutdownRequested' = shutdownRequested
        /\ nap' = IF monitor = "asleep" THEN Less(nap) ELSE nap
        /\ idleFor' \in Nat /\ idleFor' <= idleFor + 1
    BY <1>1, OlderNat DEF Tick, AllWait, threads
  <2>2. Less(nap) \in Nat /\ (nap > 0 => Less(nap) = nap - 1)
    BY LessNat
  <2>. QED BY <2>1, <2>2
<1>2. CASE InitService
  BY <1>2 DEF InitService, threads
<1>3. CASE Shutdown
  BY <1>3 DEF Shutdown, RpcFrame, NoActivity, threads
<1>4. CASE MonitorWakes
  BY <1>4 DEF MonitorWakes, ShouldExitForIdle
<1>5. CASE MonitorShutsDown
  BY <1>5 DEF MonitorShutsDown, clocks
<1>6. CASE MonitorExits
  BY <1>6 DEF MonitorExits, Exit, clocks, threads
<1>7. CASE WatcherWakes
  BY <1>7 DEF WatcherWakes
<1>8. CASE WatcherExits
  BY <1>8 DEF WatcherExits, ShutdownService, Exit, clocks, threads
<1>9. CASE MainExits
  BY <1>9 DEF MainExits, ShutdownService, Exit, clocks, threads
<1>10. CASE Terminate
  BY <1>10 DEF Terminate
<1>11. CASE OwnerExits
  BY <1>11 DEF OwnerExits, clocks, threads
<1>12. CASE \E c \in Calls : BeginCall(c) \/ Rpc(c)
  BY <1>12, IdleCall
<1>13. CASE UNCHANGED processVars
  BY <1>13 DEF processVars, clocks, threads
<1>. QED
  BY <1>1, <1>2, <1>3, <1>4, <1>5, <1>6, <1>7, <1>8, <1>9, <1>10, <1>11, <1>12, <1>13
     DEF Next, Threads

\* The poll interval bounds the overshoot of the idle timeout, whatever the
\* timeout, the floor and the cap are (manager_process.py:16-30, 361-383).
THEOREM OvershootIsBounded == Spec => []OvershootBounded
<1>1. Init => IdleInv
  BY ProcessAssumption, PollIntervalNat DEF Init, IdleInv, Counts
<1>2. IdleInv /\ TypeOK => OvershootBounded
  BY ProcessAssumption, PollIntervalNat DEF IdleInv, TypeOK, Counts, OvershootBounded
<1>. QED BY <1>1, <1>2, IdleStep, TypeCorrect, PTL DEF Spec

-----------------------------------------------------------------------------
(* The owner watchdog.                                                     *)

\* Every step keeps the invariant of the owner watchdog.
LEMMA OrphanStep == TypeOK /\ OrphanInv /\ [Next]_processVars => OrphanInv'
<1> SUFFICES ASSUME TypeOK, OrphanInv, [Next]_processVars PROVE OrphanInv'
  OBVIOUS
<1> USE ProcessAssumption DEF TypeOK, OrphanInv
<1>1. CASE Tick
  <2>1. /\ watcher' = watcher /\ up' = up /\ ownerAlive' = ownerAlive /\ up
        /\ watcher = "watching" => watchNap > 0
        /\ watcher = "closing" => watchNap # 0
        /\ watchNap' = Less(watchNap)
        /\ goneFor' = IF ownerAlive THEN 0 ELSE Older(goneFor)
    BY <1>1 DEF Tick, AllWait, ReadyOrTimedOut, threads
  <2>2. watchNap > 0 => watchNap' = watchNap - 1
    BY <2>1, LessNat
  <2>3. goneFor' \in Nat /\ goneFor' <= goneFor + 1
    BY <2>1, OlderNat
  <2>. QED BY <2>1, <2>2, <2>3
<1>2. CASE InitService
  BY <1>2 DEF InitService, threads
<1>3. CASE Shutdown
  BY <1>3 DEF Shutdown, RpcFrame, NoActivity, threads
<1>4. CASE MonitorWakes
  BY <1>4 DEF MonitorWakes
<1>5. CASE MonitorShutsDown
  BY <1>5 DEF MonitorShutsDown, clocks
<1>6. CASE MonitorExits
  BY <1>6 DEF MonitorExits, Exit, clocks, threads
<1>7. CASE WatcherWakes
  BY <1>7 DEF WatcherWakes
<1>8. CASE WatcherExits
  BY <1>8 DEF WatcherExits, ShutdownService, Exit, clocks, threads
<1>9. CASE MainExits
  BY <1>9 DEF MainExits, ShutdownService, Exit, clocks, threads
<1>10. CASE Terminate
  BY <1>10 DEF Terminate
<1>11. CASE OwnerExits
  BY <1>11 DEF OwnerExits, clocks, threads
<1>12. CASE \E c \in Calls : BeginCall(c) \/ Rpc(c)
  <2>1. UNCHANGED <<up, ownerAlive, watcher, watchNap, goneFor>>
    BY <1>12 DEF BeginCall, Rpc, SendDirect, SendRequest, Answer, Unauthorized,
                 BeginAuth, EndAuth, Return, CallGoes, RpcFrame, threads
  <2>. QED BY <2>1
<1>13. CASE UNCHANGED processVars
  BY <1>13 DEF processVars, clocks, threads
<1>. QED
  BY <1>1, <1>2, <1>3, <1>4, <1>5, <1>6, <1>7, <1>8, <1>9, <1>10, <1>11, <1>12, <1>13
     DEF Next, Threads

\* A manager outlives its playbook by a watchdog interval and the wait for its
\* service at most, for every interval and whatever clients do
\* (manager_process.py:240-245, 303-336).
THEOREM OrphansExitInTime == Spec => []OrphanExitsInTime
<1>1. Init => OrphanInv
  BY ProcessAssumption DEF Init, OrphanInv
<1>2. OrphanInv /\ TypeOK => OrphanExitsInTime
  BY ProcessAssumption DEF OrphanInv, TypeOK, OrphanExitsInTime
<1>. QED BY <1>1, <1>2, OrphanStep, TypeCorrect, PTL DEF Spec

-----------------------------------------------------------------------------
(* The history of the RPCs (IdleHistory).                                  *)

\* Past the decision to stop, no time passes (AllWait) and the RPCs in flight
\* are either late or silent; before it, no RPC in flight has recorded
\* activity after the process last did.
SilenceInv ==
  /\ silentFor \in [Calls -> Nat]
  /\ up => \A c \in Calls : call[c] # "lost"
  /\ up => \A c \in Calls : call[c] \in InFlight =>
       /\ service = "ready"
       /\ silentFor[c] >= idleFor
       /\ monitor \in {"stopping", "closed"} => c \in late \/ silentFor[c] >= IdleTimeout
  /\ OnlySilentCallsLost

-----------------------------------------------------------------------------
\* The history variables watch and never interfere.
LEMMA HistoryIsProcess ==
  /\ HistoryInit => Init
  /\ [HistoryNext]_historyVars => [Next]_processVars
BY DEF HistoryInit, HistoryNext, historyVars

\* Both clocks stop at the same horizon, so they keep their order.
LEMMA OlderMonotone ==
  ASSUME NEW s \in Nat, NEW t \in Nat, s <= t
  PROVE  Older(s) <= Older(t)
BY ProcessAssumption DEF Older

\* A step of one RPC moves that RPC, and the monitor's clock restarts exactly
\* when the RPC records activity.
LEMMA CallEffect ==
  ASSUME TypeOK, NEW c \in Calls, BeginCall(c) \/ Rpc(c)
  PROVE  /\ up /\ up' = up /\ service' = service /\ monitor' = monitor
         /\ call[c] \in InFlight \/ (call[c] = "none" /\ service = "ready")
         /\ \A d \in Calls : d # c => call'[d] = call[d]
         /\ call'[c] \in CallStates \ {"lost", "none"} /\ call'[c] # call[c]
         /\ idleFor' = IF Records(c) THEN 0 ELSE idleFor
<1> USE DEF TypeOK, CallGoes, RpcFrame, RecordActivity, NoActivity, threads, CallStates,
            InFlight, Records
<1>1. CASE BeginCall(c)
  BY <1>1 DEF BeginCall
<1>2. CASE SendDirect(c)
  BY <1>2 DEF SendDirect
<1>3. CASE SendRequest(c)
  BY <1>3 DEF SendRequest
<1>4. CASE Answer(c)
  BY <1>4 DEF Answer
<1>5. CASE Unauthorized(c)
  BY <1>5 DEF Unauthorized
<1>6. CASE BeginAuth(c)
  BY <1>6 DEF BeginAuth
<1>7. CASE EndAuth(c)
  <2>1. CASE CallGoes(c, {"reauth"}, "askedAgain") /\ RecordActivity
    BY <2>1
  <2>2. CASE CallGoes(c, {"reauth"}, "returned") /\ NoActivity
    BY <2>2
  <2>. QED BY <1>7, <2>1, <2>2 DEF EndAuth
<1>8. CASE Return(c)
  BY <1>8 DEF Return
<1>. QED BY <1>1, <1>2, <1>3, <1>4, <1>5, <1>6, <1>7, <1>8 DEF Rpc

\* An RPC that starts or goes on keeps the invariant: either it records
\* activity, and then its clock and the monitor's start again together, or it
\* leaves both alone.
LEMMA SilenceCall ==
  ASSUME TypeOK, SilenceInv, HistoryNext, NEW c \in Calls, BeginCall(c) \/ Rpc(c)
  PROVE  SilenceInv'
<1>1. ~Tick
  BY CallEffect DEF Tick
<1>2. /\ silentFor' = [d \in Calls |-> IF Records(d) THEN 0 ELSE silentFor[d]]
      /\ late' = late \cup {d \in Calls : monitor # "asleep" /\ Records(d)}
  BY <1>1 DEF HistoryNext
<1>3. silentFor' \in [Calls -> Nat]
  BY <1>2 DEF SilenceInv
<1>4. up' => \A d \in Calls : call'[d] # "lost"
  BY CallEffect DEF SilenceInv
<1>5. ASSUME NEW d \in Calls, call'[d] \in InFlight
      PROVE  /\ service' = "ready"
             /\ silentFor'[d] >= idleFor'
             /\ monitor' \in {"stopping", "closed"} =>
                  d \in late' \/ silentFor'[d] >= IdleTimeout
  <2>1. CASE Records(d)
    <3>1. d = c
      BY <2>1, CallEffect DEF Records
    <3>2. silentFor'[d] = 0 /\ idleFor' = 0
      BY <2>1, <1>2, <3>1, CallEffect
    <3>. QED
      BY <2>1, <1>2, <3>1, <3>2, CallEffect DEF SilenceInv
  <2>2. CASE ~Records(d)
    <3>1. silentFor'[d] = silentFor[d]
      BY <2>2, <1>2
    <3>2. idleFor' = idleFor \/ idleFor' = 0
      BY CallEffect
    <3>3. call[d] \in InFlight
      <4>1. CASE d = c
        BY <4>1, <2>2, CallEffect DEF Records
      <4>2. CASE d # c
        BY <4>2, <1>5, CallEffect
      <4>. QED BY <4>1, <4>2
    <3>. QED
      BY <1>2, <3>1, <3>2, <3>3, CallEffect DEF SilenceInv, TypeOK
  <2>. QED BY <2>1, <2>2
<1>6. OnlySilentCallsLost'
  BY <1>4, CallEffect DEF OnlySilentCallsLost
<1>. QED BY <1>3, <1>4, <1>5, <1>6 DEF SilenceInv

\* A step in which no RPC moves and no time passes leaves the clocks of the
\* RPCs alone.
LEMMA SilenceKept ==
  ASSUME HistoryNext, SilenceInv, ~Tick, call' = call
  PROVE  silentFor' = silentFor /\ late' = late
<1>1. \A c \in Calls : ~Records(c)
  BY DEF Records
<1>. QED BY <1>1 DEF HistoryNext, SilenceInv

\* The end of the process loses the RPCs in flight, and those are late or silent
\* if it is the idle monitor's.
LEMMA SilenceExit ==
  ASSUME TypeOK, SilenceInv, HistoryNext, up, Exit, UNCHANGED threads
  PROVE  SilenceInv'
<1>1. ~Tick /\ up' = FALSE /\ monitor' = monitor
      /\ call' = [c \in Calls |-> IF call[c] \in InFlight THEN "lost" ELSE call[c]]
  BY DEF Tick, Exit, threads
<1>2. \A c \in Calls : ~Records(c)
  BY <1>1 DEF Records, InFlight
<1>3. silentFor' = silentFor /\ late' = late
  BY <1>1, <1>2 DEF HistoryNext, SilenceInv
<1>4. OnlySilentCallsLost'
  BY <1>1, <1>3 DEF OnlySilentCallsLost, SilenceInv, InFlight
<1>. QED BY <1>1, <1>3, <1>4 DEF SilenceInv

\* A tick makes every clock older at once, and never happens once the monitor
\* has decided.
LEMMA SilenceTick ==
  ASSUME TypeOK, SilenceInv, HistoryNext, Tick
  PROVE  SilenceInv'
<1>1. /\ up /\ up' = up /\ service' = service /\ monitor' = monitor /\ call' = call
      /\ monitor \in {"off", "asleep"}
      /\ idleFor' = IF service = "ready" THEN Older(idleFor) ELSE idleFor
  BY DEF Tick, AllWait, threads
<1>2. /\ silentFor' = [c \in Calls |->
                         IF call[c] \in InFlight THEN Older(silentFor[c]) ELSE silentFor[c]]
      /\ late' \subseteq Calls \cup late
  BY <1>1 DEF HistoryNext, Records
<1>3. silentFor' \in [Calls -> Nat]
  BY <1>2, OlderNat DEF SilenceInv
<1>4. ASSUME NEW c \in Calls, call[c] \in InFlight
      PROVE  silentFor'[c] >= idleFor'
  BY <1>1, <1>2, <1>4, OlderMonotone DEF SilenceInv, TypeOK
<1>5. OnlySilentCallsLost'
  BY <1>1 DEF OnlySilentCallsLost
<1>. QED BY <1>1, <1>3, <1>4, <1>5 DEF SilenceInv

\* Every step keeps the invariant.
LEMMA SilenceStep == TypeOK /\ SilenceInv /\ [HistoryNext]_historyVars => SilenceInv'
<1> SUFFICES ASSUME TypeOK, SilenceInv, [HistoryNext]_historyVars PROVE SilenceInv'
  OBVIOUS
<1>1. CASE UNCHANGED historyVars
  BY <1>1 DEF historyVars, processVars, clocks, threads, SilenceInv, OnlySilentCallsLost
<1>2. CASE HistoryNext /\ Tick
  BY <1>2, SilenceTick
<1>3. CASE HistoryNext /\ ~Tick
  <2> USE <1>3
  <2>1. CASE InitService
    <3>1. call' = call /\ up' = up /\ monitor' = monitor /\ service = "none" /\ up
      BY <2>1 DEF InitService, threads
    <3>2. silentFor' = silentFor /\ late' = late
      BY <3>1, SilenceKept
    <3>. QED BY <3>1, <3>2 DEF SilenceInv, OnlySilentCallsLost
  <2>2. CASE Shutdown
    <3>1. UNCHANGED <<up, service, monitor, idleFor, call>>
      BY <2>2 DEF Shutdown, RpcFrame, NoActivity, threads
    <3>2. silentFor' = silentFor /\ late' = late
      BY <3>1, SilenceKept
    <3>. QED BY <3>1, <3>2 DEF SilenceInv, OnlySilentCallsLost
  <2>3. CASE MonitorWakes
    <3>1. /\ UNCHANGED <<up, service, idleFor, call>> /\ up /\ monitor = "asleep"
          /\ monitor' = monitor \/ (monitor' = "stopping" /\ idleFor >= IdleTimeout)
      BY <2>3 DEF MonitorWakes, ShouldExitForIdle
    <3>2. silentFor' = silentFor /\ late' = late
      BY <3>1, SilenceKept
    <3>. QED
      BY <3>1, <3>2, ProcessAssumption DEF SilenceInv, OnlySilentCallsLost, TypeOK
  <2>4. CASE MonitorShutsDown
    <3>1. /\ UNCHANGED <<up, service, idleFor, call>> /\ up
          /\ monitor = "stopping"
      BY <2>4 DEF MonitorShutsDown, clocks
    <3>2. silentFor' = silentFor /\ late' = late
      BY <3>1, SilenceKept
    <3>. QED BY <3>1, <3>2 DEF SilenceInv, OnlySilentCallsLost
  <2>5. CASE MonitorExits \/ WatcherExits \/ MainExits
    BY <2>5, SilenceExit DEF MonitorExits, WatcherExits, MainExits
  <2>6. CASE WatcherWakes \/ Terminate \/ OwnerExits
    <3>1. UNCHANGED <<up, service, monitor, idleFor, call>>
      BY <2>6 DEF WatcherWakes, Terminate, OwnerExits, clocks, threads
    <3>2. silentFor' = silentFor /\ late' = late
      BY <3>1, SilenceKept
    <3>. QED BY <3>1, <3>2 DEF SilenceInv, OnlySilentCallsLost
  <2>7. CASE \E c \in Calls : BeginCall(c) \/ Rpc(c)
    BY <2>7, SilenceCall
  <2>8. Next
    BY DEF HistoryNext
  <2>. QED
    BY <2>1, <2>2, <2>3, <2>4, <2>5, <2>6, <2>7, <2>8 DEF Next, Threads
<1>. QED BY <1>1, <1>2, <1>3

\* An idle exit cuts off only RPCs that recorded no activity for the whole
\* timeout or came after the decision (manager_process.py:375-406,
\* platform_manager.py:121-138).
THEOREM OnlySilentCallsAreLost == HistorySpec => []OnlySilentCallsLost
<1>1. HistoryInit => SilenceInv
  BY ProcessAssumption DEF HistoryInit, Init, SilenceInv, OnlySilentCallsLost, InFlight
<1>2. HistorySpec => Spec
  BY HistoryIsProcess, PTL DEF HistorySpec, Spec
<1>3. SilenceInv => OnlySilentCallsLost
  BY DEF SilenceInv
<1>. QED BY <1>1, <1>2, <1>3, SilenceStep, TypeCorrect, PTL DEF HistorySpec
===============================================================================
