------------------------- MODULE GatewayRequestProofs -------------------------
(***************************************************************************)
(* Proofs about the retry loop and the recovery from a 401, for every      *)
(* number of threads and attempts.                                         *)
(***************************************************************************)
EXTENDS GatewayRequest, TLAPS

\* What each attempt has sent by the time it is at each of its steps.
Load(r) ==
  /\ attempt[r] < MaxAttempts
  /\ phase[r] = "due" => sends[r] <= 2 * attempt[r]
  /\ phase[r] \in {"recovering", "reauthDue", "reauth", "resend"} =>
       sends[r] <= 2 * attempt[r] + 1
  /\ sends[r] <= 2 * attempt[r] + 2

LoadInv == \A r \in Requests : Load(r)

-----------------------------------------------------------------------------
\* The initial values are of their types, and nothing has been sent.
LEMMA RequestInit == Init => TypeOK /\ LoadInv /\ NoFalseSuccess
BY RequestAssumption
   DEF Init, TypeOK, LoadInv, Load, NoFalseSuccess, Phases, Outcomes

\* One step of one request keeps the types.
LEMMA TypeStep ==
  ASSUME TypeOK, NEW r \in Requests, Request(r)
  PROVE  TypeOK'
<1> USE RequestAssumption
    DEF TypeOK, GoTo, Phases, Outcomes, Statuses, Faults
<1>1. CASE Send(r)
  <2>1. PICK outcome \in Outcomes :
          GoTo(r, "due", AfterSend(outcome)) /\ Exchange(r, outcome)
    BY <1>1 DEF Send
  <2>2. AfterSend(outcome) \in {"returned", "recovering", "failing"}
    BY DEF AfterSend
  <2>3. phase' \in [Requests -> Phases]
    BY <2>1, <2>2
  <2>4. sends' \in [Requests -> Nat] /\ last' \in [Requests -> Outcomes \cup {"none"}]
    <3>1. sends[r] + 1 \in Nat
      OBVIOUS
    <3>. QED BY <2>1, <3>1 DEF Exchange
  <2>5. \A q \in Requests : phase'[q] = "reauth" <=> authLock = q
    BY <2>1, <2>2
  <2>. QED BY <2>1, <2>3, <2>4, <2>5 DEF Exchange
<1>2. CASE Refresh(r)
  BY <1>2 DEF Refresh
<1>3. CASE BeginAuth(r)
  BY <1>3 DEF BeginAuth
<1>4. CASE EndAuth(r)
  BY <1>4 DEF EndAuth
<1>5. CASE Resend(r)
  <2>1. PICK outcome \in Outcomes :
          /\ GoTo(r, "resend", IF outcome = "ok" THEN "returned" ELSE "failing")
          /\ Exchange(r, outcome)
    BY <1>5 DEF Resend
  <2>3. phase' \in [Requests -> Phases]
    BY <2>1
  <2>4. sends' \in [Requests -> Nat] /\ last' \in [Requests -> Outcomes \cup {"none"}]
    <3>1. sends[r] + 1 \in Nat
      OBVIOUS
    <3>. QED BY <2>1, <3>1 DEF Exchange
  <2>5. \A q \in Requests : phase'[q] = "reauth" <=> authLock = q
    BY <2>1
  <2>. QED BY <2>1, <2>3, <2>4, <2>5 DEF Exchange
<1>6. CASE Retry(r)
  <2>1. attempt' \in [Requests -> Nat]
    <3>1. attempt[r] + 1 \in Nat
      OBVIOUS
    <3>. QED BY <1>6, <3>1 DEF Retry
  <2>2. \A q \in Requests : phase'[q] = "reauth" <=> authLock = q
    BY <1>6 DEF Retry
  <2>. QED BY <1>6, <2>1, <2>2 DEF Retry
<1>7. CASE Raise(r)
  BY <1>7 DEF Raise
<1>. QED BY <1>1, <1>2, <1>3, <1>4, <1>5, <1>6, <1>7 DEF Request

\* One step of one request keeps the account of what was sent.
LEMMA LoadStep ==
  ASSUME TypeOK, LoadInv, NEW r \in Requests, Request(r)
  PROVE  LoadInv'
<1> SUFFICES ASSUME NEW q \in Requests PROVE Load(q)'
  BY DEF LoadInv
<1> Load(q)
  BY DEF LoadInv
<1> /\ attempt[q] \in Nat /\ sends[q] \in Nat /\ MaxAttempts \in Nat
    /\ phase \in [Requests -> Phases] /\ sends \in [Requests -> Nat]
    /\ attempt \in [Requests -> Nat]
  BY RequestAssumption DEF TypeOK
<1> USE DEF Load, GoTo
<1>1. CASE Send(r)
  <2>1. /\ phase[r] = "due" /\ phase'[r] \in {"returned", "recovering", "failing"}
        /\ attempt' = attempt /\ sends'[r] = sends[r] + 1
    BY <1>1 DEF Send, Exchange, AfterSend
  <2>2. q # r => phase'[q] = phase[q] /\ sends'[q] = sends[q]
    BY <1>1 DEF Send, Exchange
  <2>. QED BY <2>1, <2>2
<1>2. CASE Refresh(r)
  BY <1>2 DEF Refresh
<1>3. CASE BeginAuth(r)
  BY <1>3 DEF BeginAuth
<1>4. CASE EndAuth(r)
  BY <1>4 DEF EndAuth
<1>5. CASE Resend(r)
  <2>1. /\ phase[r] = "resend" /\ phase'[r] \in {"returned", "failing"}
        /\ attempt' = attempt /\ sends'[r] = sends[r] + 1
    BY <1>5 DEF Resend, Exchange
  <2>2. q # r => phase'[q] = phase[q] /\ sends'[q] = sends[q]
    BY <1>5 DEF Resend, Exchange
  <2>. QED BY <2>1, <2>2
<1>6. CASE Retry(r)
  <2>1. /\ attempt[r] < MaxAttempts - 1 /\ attempt'[r] = attempt[r] + 1
        /\ phase'[r] = "due" /\ sends' = sends
    BY <1>6 DEF Retry, MoreAttempts
  <2>2. q # r => phase'[q] = phase[q] /\ attempt'[q] = attempt[q]
    BY <1>6 DEF Retry
  <2>. QED BY <2>1, <2>2
<1>7. CASE Raise(r)
  BY <1>7 DEF Raise
<1>. QED BY <1>1, <1>2, <1>3, <1>4, <1>5, <1>6, <1>7 DEF Request

\* One step of one request returns nothing but a success.
LEMMA SuccessStep ==
  ASSUME TypeOK, NoFalseSuccess, NEW r \in Requests, Request(r)
  PROVE  NoFalseSuccess'
<1> USE DEF TypeOK, NoFalseSuccess, GoTo
<1>1. CASE Send(r)
  BY <1>1 DEF Send, Exchange, AfterSend
<1>2. CASE Refresh(r)
  BY <1>2 DEF Refresh
<1>3. CASE BeginAuth(r)
  BY <1>3 DEF BeginAuth
<1>4. CASE EndAuth(r)
  BY <1>4 DEF EndAuth
<1>5. CASE Resend(r)
  BY <1>5 DEF Resend, Exchange
<1>6. CASE Retry(r)
  BY <1>6 DEF Retry
<1>7. CASE Raise(r)
  BY <1>7 DEF Raise
<1>. QED BY <1>1, <1>2, <1>3, <1>4, <1>5, <1>6, <1>7 DEF Request

-----------------------------------------------------------------------------
\* The types hold always, and the lock has one holder, the thread that
\* re-authenticates (platform_manager.py:204-240).
THEOREM RequestTypes == Spec => []TypeOK
<1>1. TypeOK /\ [Next]_requestVars => TypeOK'
  BY TypeStep DEF Next, requestVars, TypeOK
<1>. QED BY <1>1, RequestInit, PTL DEF Spec

\* At most two sends an attempt, for every number of attempts (retry.py:177-254).
THEOREM LoadIsBounded == Spec => []SendsBounded
<1>1. TypeOK /\ LoadInv /\ [Next]_requestVars => LoadInv'
  BY LoadStep DEF Next, requestVars, LoadInv, Load
<1>2. TypeOK /\ LoadInv => SendsBounded
  <2> SUFFICES ASSUME TypeOK, LoadInv, NEW r \in Requests
               PROVE  sends[r] <= 2 * MaxAttempts
    BY DEF SendsBounded
  <2>1. attempt[r] \in Nat /\ sends[r] \in Nat /\ MaxAttempts \in Nat
    BY RequestAssumption DEF TypeOK
  <2>. QED BY <2>1 DEF LoadInv, Load
<1>. QED BY <1>1, <1>2, RequestInit, RequestTypes, PTL DEF Spec

\* Only a success is returned (platform_manager.py:177-200).
THEOREM OnlySuccessReturned == Spec => []NoFalseSuccess
<1>1. TypeOK /\ NoFalseSuccess /\ [Next]_requestVars => NoFalseSuccess'
  BY SuccessStep DEF Next, requestVars, NoFalseSuccess
<1>. QED BY <1>1, RequestInit, RequestTypes, PTL DEF Spec

-----------------------------------------------------------------------------
(* The request implements the RPC of ManagerProcess.                       *)

\* An attempt has gone out at least once by the time it has an answer, and
\* whoever recovers has met a 401.
Sent(r) ==
  /\ phase[r] = "due" => sends[r] >= attempt[r]
  /\ phase[r] # "due" => sends[r] >= attempt[r] + 1
  /\ phase[r] \in {"recovering", "reauthDue", "reauth"} => last[r] = "unauthorized"

SentInv == \A r \in Requests : Sent(r)

\* What the step of one request changes.
LEMMA OneRequest ==
  ASSUME TypeOK, NEW r \in Requests, Request(r)
  PROVE  \A q \in Requests : q # r =>
           /\ phase'[q] = phase[q] /\ attempt'[q] = attempt[q]
           /\ sends'[q] = sends[q] /\ last'[q] = last[q]
BY DEF Request, Send, Refresh, BeginAuth, EndAuth, Resend, Retry, Raise, GoTo, Exchange, TypeOK

\* Every step keeps count of what went out.
LEMMA SentStep ==
  ASSUME TypeOK, SentInv, NEW r \in Requests, Request(r)
  PROVE  SentInv'
<1>1. Sent(r) /\ attempt[r] \in Nat /\ sends[r] \in Nat
  BY DEF SentInv, TypeOK
<1>2. Sent(r)'
  <2> USE <1>1 DEF Sent, GoTo, TypeOK
  <2>1. CASE Send(r)
    <3>1. PICK outcome \in Outcomes : GoTo(r, "due", AfterSend(outcome)) /\ Exchange(r, outcome)
      BY <2>1 DEF Send
    <3>2. /\ phase[r] = "due" /\ phase'[r] = AfterSend(outcome) /\ attempt'[r] = attempt[r]
          /\ sends'[r] = sends[r] + 1 /\ last'[r] = outcome
      BY <3>1 DEF Exchange
    <3>3. /\ AfterSend(outcome) \in {"returned", "recovering", "failing"}
          /\ AfterSend(outcome) = "recovering" => outcome = "unauthorized"
      BY DEF AfterSend
    <3>. QED BY <3>2, <3>3
  <2>2. CASE Resend(r)
    BY <2>2 DEF Resend, Exchange
  <2>3. CASE Refresh(r) \/ BeginAuth(r) \/ EndAuth(r) \/ Raise(r)
    BY <2>3 DEF Refresh, BeginAuth, EndAuth, Raise
  <2>4. CASE Retry(r)
    BY <2>4 DEF Retry
  <2>. QED BY <2>1, <2>2, <2>3, <2>4 DEF Request
<1>3. \A q \in Requests : q # r => Sent(q)'
  BY OneRequest DEF SentInv, Sent
<1>. QED BY <1>2, <1>3 DEF SentInv

\* A step of one request moves its own call only.
LEMMA OneCall ==
  ASSUME TypeOK, NEW r \in Requests, Request(r)
  PROVE  calls' = [calls EXCEPT ![r] = AsCall(r)']
<1>1. \A q \in Requests : q # r => AsCall(q)' = AsCall(q)
  BY OneRequest DEF AsCall, Open, Behind, Over, Retryable, MoreAttempts
<1>. QED BY <1>1 DEF calls

\* The call goes as CallGoes of ManagerProcess lets it.
LEMMA Goes ==
  ASSUME TypeOK, NEW r \in Requests, Request(r), NEW from, AsCall(r) \in from
  PROVE  Process!CallGoes(r, from, AsCall(r)')
<1>1. calls[r] = AsCall(r)
  BY DEF calls
<1>. QED BY <1>1, OneCall DEF Process!CallGoes, Process!RpcFrame, Process!threads

\* Every step is a step of the RPC, or none.
LEMMA RpcStep ==
  ASSUME TypeOK, SentInv, NEW r \in Requests, Request(r)
  PROVE  Process!Rpc(r) \/ UNCHANGED <<calls, holders>>
<1>1. Sent(r) /\ attempt[r] \in Nat /\ sends[r] \in Nat /\ attempt[r] + 1 \in Nat /\ MaxAttempts \in Nat
  BY RequestAssumption DEF SentInv, TypeOK
<1>2. ASSUME AsCall(r)' = AsCall(r), authLock' = authLock
      PROVE  UNCHANGED <<calls, holders>>
  <2>1. calls' = calls
    BY <1>2, OneCall DEF calls
  <2>. QED BY <1>2, <2>1 DEF holders
<1>3. ASSUME authLock' = authLock
      PROVE  UNCHANGED holders
  BY <1>3 DEF holders
<1>4. ASSUME AsCall(r) \in {"asked", "askedAgain"}, AsCall(r)' \in {"running", "returned"},
             authLock' = authLock
      PROVE  Process!Rpc(r)
  <2>1. \/ Process!CallGoes(r, {"sent", "asked", "askedAgain"}, "running")
        \/ Process!CallGoes(r, {"sent", "asked", "askedAgain"}, "returned")
    BY <1>4, Goes
  <2>. QED BY <1>3, <1>4, <2>1 DEF Process!Rpc, Process!Answer, Process!NoActivity
<1>5. CASE Send(r)
  <2>1. PICK outcome \in Outcomes : GoTo(r, "due", AfterSend(outcome)) /\ Exchange(r, outcome)
    BY <1>5 DEF Send
  <2>2. /\ phase[r] = "due" /\ phase'[r] = AfterSend(outcome) /\ attempt' = attempt
        /\ sends'[r] = sends[r] + 1 /\ last'[r] = outcome /\ authLock' = authLock
    BY <2>1 DEF GoTo, Exchange, TypeOK
  <2>3. AsCall(r) = Open(r) /\ Open(r) \in {"asked", "askedAgain"}
    BY <2>2 DEF AsCall, Open
  <2>4. CASE AfterSend(outcome) = "returned"
    <3>1. AsCall(r)' = "running"
      BY <2>2, <2>4 DEF AsCall
    <3>. QED BY <1>4, <2>2, <2>3, <3>1
  <2>5. CASE AfterSend(outcome) = "recovering"
    <3>1. AsCall(r)' = "recovering"
      BY <2>2, <2>5 DEF AsCall
    <3>2. Process!CallGoes(r, {"asked", "askedAgain"}, "recovering")
      BY <2>3, <3>1, Goes
    <3>. QED BY <1>3, <2>2, <3>2 DEF Process!Rpc, Process!Unauthorized, Process!NoActivity
  <2>6. CASE AfterSend(outcome) = "failing"
    <3>1. phase'[r] = "failing"
      BY <2>2, <2>6
    <3>2. Open(r)' = Open(r)
      BY <1>1, <2>2, <3>1 DEF Open, Behind
    <3>3. AsCall(r)' = "returned" \/ AsCall(r)' = AsCall(r)
      BY <2>3, <3>1, <3>2 DEF AsCall
    <3>. QED BY <1>2, <1>4, <2>2, <2>3, <3>3
  <2>. QED BY <2>4, <2>5, <2>6 DEF AfterSend
<1>6. CASE Refresh(r)
  BY <1>2, <1>6 DEF Refresh, GoTo, AsCall, TypeOK
<1>7. CASE BeginAuth(r)
  <2>1. /\ AsCall(r) = "recovering" /\ AsCall(r)' = "reauth"
        /\ authLock = Nobody /\ authLock' = r
    BY <1>7 DEF BeginAuth, GoTo, AsCall, TypeOK
  <2>2. holders = {} /\ holders' = {r}
    BY <2>1, RequestAssumption DEF holders
  <2>3. Process!CallGoes(r, {"recovering"}, "reauth")
    BY <2>1, Goes
  <2>. QED BY <2>2, <2>3 DEF Process!Rpc, Process!BeginAuth, Process!NoActivity
<1>8. CASE EndAuth(r)
  <2>1. /\ phase[r] = "reauth" /\ phase'[r] \in {"resend", "failing"} /\ authLock' = Nobody
        /\ last' = last /\ attempt' = attempt
    BY <1>8 DEF EndAuth, GoTo, TypeOK
  <2>2. AsCall(r) = "reauth" /\ holders' = {}
    BY <2>1 DEF AsCall, holders
  <2>3. CASE phase'[r] = "resend"
    <3>1. Process!CallGoes(r, {"reauth"}, "askedAgain")
      <4>1. AsCall(r)' = "askedAgain"
        BY <2>3 DEF AsCall
      <4>. QED BY <2>2, <4>1, Goes
    <3>. QED BY <2>2, <3>1 DEF Process!Rpc, Process!EndAuth, Process!RecordActivity
  <2>4. CASE phase'[r] = "failing"
    <3>1. last'[r] = "unauthorized"
      BY <1>1, <2>1 DEF Sent
    <3>2. AsCall(r)' = "returned"
      BY <2>4, <3>1 DEF AsCall, Over, Retryable
    <3>3. Process!CallGoes(r, {"reauth"}, "returned")
      BY <2>2, <3>2, Goes
    <3>. QED BY <2>2, <3>3 DEF Process!Rpc, Process!EndAuth, Process!NoActivity
  <2>. QED BY <2>1, <2>3, <2>4
<1>9. CASE Resend(r)
  <2>1. /\ phase[r] = "resend" /\ phase'[r] \in {"returned", "failing"} /\ attempt' = attempt
        /\ sends'[r] = sends[r] + 1 /\ authLock' = authLock
    BY <1>9 DEF Resend, GoTo, Exchange, TypeOK
  <2>2. AsCall(r) = "askedAgain"
    BY <2>1 DEF AsCall
  <2>3. CASE phase'[r] = "returned"
    <3>1. AsCall(r)' = "running"
      BY <2>3 DEF AsCall
    <3>. QED BY <1>4, <2>1, <2>2, <3>1
  <2>4. CASE phase'[r] = "failing"
    <3>1. Open(r)' = "askedAgain"
      BY <1>1, <2>1, <2>4 DEF Open, Behind, Sent
    <3>2. AsCall(r)' = "returned" \/ AsCall(r)' = AsCall(r)
      BY <2>2, <2>4, <3>1 DEF AsCall
    <3>. QED BY <1>2, <1>4, <2>1, <2>2, <3>2
  <2>. QED BY <2>1, <2>3, <2>4
<1>10. CASE Retry(r)
  <2>1. /\ phase[r] = "failing" /\ phase'[r] = "due" /\ attempt'[r] = attempt[r] + 1
        /\ sends' = sends /\ authLock' = authLock /\ ~Over(r)
    BY <1>10 DEF Retry, GoTo, Over, TypeOK
  <2>2. Open(r)' = Open(r)
    BY <2>1 DEF Open, Behind
  <2>3. AsCall(r)' = AsCall(r)
    BY <2>1, <2>2 DEF AsCall
  <2>. QED BY <1>2, <2>1, <2>3
<1>11. CASE Raise(r)
  <2>1. /\ phase[r] = "failing" /\ phase'[r] = "raised" /\ authLock' = authLock /\ Over(r)
    BY <1>11 DEF Raise, GoTo, Over, TypeOK
  <2>2. AsCall(r)' = AsCall(r)
    BY <2>1 DEF AsCall
  <2>. QED BY <1>2, <2>1, <2>2
<1>. QED BY <1>5, <1>6, <1>7, <1>8, <1>9, <1>10, <1>11 DEF Request

\* For every number of threads and attempts: with all its retries and
\* recoveries, a request does what ManagerProcess lets an RPC do, and no more
\* (platform_manager.py:161-200, 308-332; retry.py:177-254).
THEOREM RequestsAreRpcs == Spec => ImplementsRpc
<1>1. Init => calls = [r \in Requests |-> "asked"] /\ holders = {} /\ SentInv
  <2> SUFFICES ASSUME Init PROVE calls = [r \in Requests |-> "asked"] /\ holders = {} /\ SentInv
    OBVIOUS
  <2>1. ASSUME NEW r \in Requests
        PROVE  phase[r] = "due" /\ attempt[r] = 0 /\ sends[r] = 0 /\ AsCall(r) = "asked"
    <3>1. phase[r] = "due" /\ attempt[r] = 0 /\ sends[r] = 0
      BY DEF Init
    <3>2. Behind(r) = 0 /\ ~(0 > 0)
      BY <3>1 DEF Behind
    <3>3. Open(r) = "asked"
      BY <3>1, <3>2 DEF Open
    <3>. QED BY <3>1, <3>3 DEF AsCall
  <2>. QED BY <2>1 DEF calls, holders, SentInv, Sent, Init
<1>2. TypeOK /\ SentInv /\ [Next]_requestVars => SentInv'
  BY SentStep DEF Next, requestVars, SentInv, Sent
<1>3. TypeOK /\ SentInv /\ [Next]_requestVars => [\E r \in Requests : Process!Rpc(r)]_<<calls, holders>>
  <2> SUFFICES ASSUME TypeOK, SentInv, [Next]_requestVars
               PROVE  (\E r \in Requests : Process!Rpc(r)) \/ UNCHANGED <<calls, holders>>
    OBVIOUS
  <2>1. CASE UNCHANGED requestVars
    BY <2>1 DEF requestVars, calls, holders, AsCall, Open, Behind, Over, Retryable, MoreAttempts
  <2>2. CASE Next
    BY <2>2, RpcStep DEF Next
  <2>. QED BY <2>1, <2>2
<1>. QED BY <1>1, <1>2, <1>3, RequestTypes, PTL DEF Spec, ImplementsRpc
===============================================================================
