----------------------------- MODULE IdleHistory -----------------------------
(***************************************************************************)
(* ManagerProcess with history variables that relate the idle monitor to   *)
(* the work it may cut off: when each RPC last recorded activity, and      *)
(* which RPCs recorded activity after the monitor had made up its mind.    *)
(***************************************************************************)
EXTENDS ManagerProcess

VARIABLES
  silentFor,  \* time since each RPC recorded activity
  late        \* RPCs that recorded activity once the monitor was stopping

historyVars == <<processVars, silentFor, late>>

Records(c) ==
  /\ call'[c] # call[c]
  /\ call[c] = "none" \/ call'[c] \in {"asked", "askedAgain"}

HistoryInit ==
  /\ Init
  /\ silentFor = [c \in Calls |-> 0]
  /\ late = {}

HistoryNext ==
  /\ Next
  /\ silentFor' = [c \in Calls |->
                     IF Records(c) THEN 0
                     ELSE IF Tick /\ call[c] \in InFlight THEN Older(silentFor[c])
                     ELSE silentFor[c]]
  /\ late' = late \cup {c \in Calls : monitor # "asleep" /\ Records(c)}

HistorySpec == HistoryInit /\ [][HistoryNext]_historyVars

\* An RPC that the idle exit cuts off had recorded nothing for the whole
\* timeout, or it came, or went on, between the monitor's decision and its
\* os._exit, which no lock covers (manager_process.py:375-406).
OnlySilentCallsLost ==
  \A c \in Calls :
    call[c] = "lost" /\ monitor = "closed" =>
      c \in late \/ silentFor[c] >= IdleTimeout
===============================================================================
