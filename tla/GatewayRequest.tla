---------------------------- MODULE GatewayRequest ----------------------------
(***************************************************************************)
(* One HTTP request of the manager: PlatformService._make_request with its *)
(* recovery from a 401 (platform_manager.py), inside the retry loop of     *)
(* retry_http_request (retry.py), with the errors of exceptions.py.        *)
(* Several RPC threads run it at once; they share _auth_lock.              *)
(*                                                                         *)
(* It is the request that ManagerProcess has between "asked" and the       *)
(* return to "running", step by step (ImplementsRpc).                      *)
(***************************************************************************)
EXTENDS Naturals

CONSTANTS
  Requests,     \* requests in progress, one RPC thread each
  MaxAttempts,  \* RetryConfig.max_attempts
  UsesToken,    \* an OAuth token is configured, rather than a password
  Nobody        \* no thread

ASSUME RequestAssumption ==
  /\ MaxAttempts \in Nat \ {0}
  /\ UsesToken \in BOOLEAN
  /\ Nobody \notin Requests

VARIABLES
  phase,    \* where the thread is
  attempt,  \* the loop variable of retry_http_request
  sends,    \* how often the request went out
  last,     \* what came of it the last time
  authLock  \* the thread in _auth_lock

requestVars == <<phase, attempt, sends, last, authLock>>

\* Answers by status (2xx and 3xx; 5xx, 408 and 429; 401; any other 4xx), and
\* exceptions of the requests library (Timeout; ConnectionError and SSLError;
\* those that are ValueErrors as well; the others).
Statuses == {"ok", "busy", "unauthorized", "refused"}
Faults == {"timeout", "unreachable", "invalid", "broken"}
Outcomes == Statuses \cup Faults

Phases == {"due", "recovering", "reauthDue", "reauth", "resend", "failing",
           "returned", "raised"}

GoTo(r, from, to) ==
  /\ phase[r] = from
  /\ phase' = [phase EXCEPT ![r] = to]

Init ==
  /\ phase = [r \in Requests |-> "due"]
  /\ attempt = [r \in Requests |-> 0]
  /\ sends = [r \in Requests |-> 0]
  /\ last = [r \in Requests |-> "none"]
  /\ authLock = Nobody

-----------------------------------------------------------------------------
(* _execute_with_retry, once per attempt.                                  *)

\* The session method, with its outcome.
Exchange(r, outcome) ==
  /\ sends' = [sends EXCEPT ![r] = @ + 1]
  /\ last' = [last EXCEPT ![r] = outcome]
  /\ UNCHANGED <<attempt, authLock>>

\* raise_for_status, or the session raised.
AfterSend(outcome) ==
  CASE outcome = "ok" -> "returned"
    [] outcome = "unauthorized" -> "recovering"
    [] OTHER -> "failing"

Send(r) ==
  \E outcome \in Outcomes :
    GoTo(r, "due", AfterSend(outcome)) /\ Exchange(r, outcome)

\* _refresh_token: nothing ever stores a refresh token, so it takes the lock
\* and gives up.  With a password it is not called.
Refresh(r) ==
  /\ UsesToken => authLock = Nobody
  /\ GoTo(r, "recovering", "reauthDue")
  /\ UNCHANGED <<attempt, sends, last, authLock>>

\* Mutant: re-authentication without _auth_lock.
BeginAuthUnlocked(r) ==
  /\ GoTo(r, "reauthDue", "reauth")
  /\ authLock' = r
  /\ UNCHANGED <<attempt, sends, last>>

BeginAuth(r) ==
  /\ authLock = Nobody
  /\ GoTo(r, "reauthDue", "reauth")
  /\ authLock' = r
  /\ UNCHANGED <<attempt, sends, last>>

\* Mutant: _authenticate gives the lock back at its end, not on an exception.
EndAuthKeepsLock(r) ==
  /\ \/ GoTo(r, "reauth", "resend") /\ authLock' = Nobody
     \/ GoTo(r, "reauth", "failing") /\ authLock' = authLock
  /\ UNCHANGED <<attempt, sends, last>>

\* _authenticate succeeds, or _re_authenticate returns False.
EndAuth(r) ==
  /\ \/ GoTo(r, "reauth", "resend")
     \/ GoTo(r, "reauth", "failing")
  /\ authLock' = Nobody
  /\ UNCHANGED <<attempt, sends, last>>

\* Mutant: after a recovery the answer is returned whatever it says.
ResendUnchecked(r) ==
  \E outcome \in Outcomes :
    GoTo(r, "resend", IF outcome \in Statuses \ {"unauthorized"}
                        THEN "returned" ELSE "failing") /\ Exchange(r, outcome)

\* The request once more; no second recovery.
Resend(r) ==
  \E outcome \in Outcomes :
    GoTo(r, "resend", IF outcome = "ok" THEN "returned" ELSE "failing")
      /\ Exchange(r, outcome)

-----------------------------------------------------------------------------
(* retry_http_request.                                                     *)

\* Both requests.Timeout and requests.ConnectionError have a clause of their
\* own.  An HTTPError - any status of 400 or more - has none, and neither has
\* the TypeError that AuthenticationError(status_code=...) raises: they are
\* classified as a PlatformError, which has no attribute "retryable".
Retryable(r) == last[r] \in {"timeout", "unreachable"}

\* Mutant: one attempt too many.
MoreAttemptsOffByOne(r) == attempt[r] < MaxAttempts

MoreAttempts(r) == attempt[r] < MaxAttempts - 1

Retry(r) ==
  /\ Retryable(r)
  /\ MoreAttempts(r)
  /\ GoTo(r, "failing", "due")
  /\ attempt' = [attempt EXCEPT ![r] = @ + 1]
  /\ UNCHANGED <<sends, last, authLock>>

Raise(r) ==
  /\ ~(Retryable(r) /\ MoreAttempts(r))
  /\ GoTo(r, "failing", "raised")
  /\ UNCHANGED <<attempt, sends, last, authLock>>

Request(r) ==
  \/ Send(r) \/ Refresh(r) \/ BeginAuth(r) \/ EndAuth(r) \/ Resend(r)
  \/ Retry(r) \/ Raise(r)

Next == \E r \in Requests : Request(r)

Spec == Init /\ [][Next]_requestVars

(* Every request has a timeout, so a thread always goes on; a lock handed  *)
(* over at every release serves each waiter in the end.                    *)
Fairness ==
  \A r \in Requests :
    /\ WF_requestVars(Request(r))
    /\ SF_requestVars(Refresh(r))
    /\ SF_requestVars(BeginAuth(r))

FairSpec == Spec /\ Fairness

-----------------------------------------------------------------------------
(* Properties.                                                             *)

\* Every variable stays within its type, and the lock is held exactly while a
\* thread re-authenticates.
TypeOK ==
  /\ phase \in [Requests -> Phases]
  /\ attempt \in [Requests -> Nat]
  /\ sends \in [Requests -> Nat]
  /\ last \in [Requests -> Outcomes \cup {"none"}]
  /\ authLock \in Requests \cup {Nobody}
  /\ \A r \in Requests : phase[r] = "reauth" <=> authLock = r

\* No request loads the gateway with more than two sends an attempt, whatever
\* mixture of time-outs and 401s it meets (retry.py:177-254,
\* platform_manager.py:175-198).
SendsBounded ==
  \A r \in Requests : sends[r] <= 2 * MaxAttempts

\* A caller gets a response only if the last thing the gateway said was yes: no
\* earlier attempt's answer, and no error status, is taken for the result
\* (platform_manager.py:177-200).
NoFalseSuccess ==
  \A r \in Requests : phase[r] = "returned" => last[r] = "ok"

\* Every request ends in a response or an exception, however the threads meet
\* at _auth_lock.
RequestEnds ==
  \A r \in Requests : <>(phase[r] \in {"returned", "raised"})

-----------------------------------------------------------------------------
(* The requests as ManagerProcess sees them.                               *)

\* The exception in hand ends the call, or the request is tried again.
Over(r) == ~(Retryable(r) /\ MoreAttempts(r))

\* A request that was sent more often than it has attempts behind it was sent
\* again after a recovery.
Behind(r) == IF phase[r] = "failing" THEN attempt[r] + 1 ELSE attempt[r]
Open(r) == IF sends[r] > Behind(r) THEN "askedAgain" ELSE "asked"

AsCall(r) ==
  CASE phase[r] = "due" -> Open(r)
    [] phase[r] = "failing" -> IF Over(r) THEN "returned" ELSE Open(r)
    [] phase[r] \in {"recovering", "reauthDue"} -> "recovering"
    [] phase[r] = "reauth" -> "reauth"
    [] phase[r] = "resend" -> "askedAgain"
    [] phase[r] = "returned" -> "running"
    [] phase[r] = "raised" -> "returned"

calls == [r \in Requests |-> AsCall(r)]
holders == IF authLock = Nobody THEN {} ELSE {authLock}

\* A process in which nothing else happens, and no time passes.
Process == INSTANCE ManagerProcess WITH
  Calls <- Requests, Uses <- {"request"},
  IdleTimeout <- 0, PollFloor <- 1, PollCap <- 0, WatchInterval <- 1, InitWait <- 1, Horizon <- 3,
  up <- TRUE, service <- "ready", shutdownRequested <- FALSE, idleFor <- 0,
  monitor <- "off", nap <- 0, watcher <- "watching", watchNap <- 0, main <- "serving", mainWait <- 0,
  ownerAlive <- TRUE, goneFor <- 0, call <- calls, authLock <- holders

\* The retry loop and the recovery, with all the attempts and exceptions they
\* are made of, do no more than ManagerProcess lets an RPC do: they begin where
\* it has "asked", and every step is one of its steps, or changes neither the
\* call nor the lock (platform_manager.py:161-200, 308-332; retry.py:177-254).
ImplementsRpc ==
  /\ calls = [r \in Requests |-> "asked"] /\ holders = {}
  /\ [][\E r \in Requests : Process!Rpc(r)]_<<calls, holders>>

-----------------------------------------------------------------------------
(* What the code documents, and does not keep.                             *)

\* "5xx server errors (retryable)", "429 rate limit errors (retryable)"
\* (retry.py:153-154): the caller sees one only after the last attempt.
ServerErrorsRetried ==
  \A r \in Requests :
    phase[r] = "raised" /\ last[r] = "busy" => attempt[r] = MaxAttempts - 1
===============================================================================
