------------------------------ MODULE ReadHistory ------------------------------
(***************************************************************************)
(* ServiceReads with history variables: which names organizations have had *)
(* since the service started and since each call began, which answers came *)
(* from the gateway, and what became of the list while a search read it.   *)
(***************************************************************************)
EXTENDS ServiceReads

CONSTANT MaxHeld  \* bound: names that organizations ever have, counted by organization

VARIABLES
  was,      \* <<name, id>> that held at some moment since the service began
  during,   \* the same, since a call began
  fetched,  \* the answers of a call that the gateway gave: their positions
  stayed,   \* ids that have been on the list since a call began
  shrunk,   \* an organization was removed since then
  grown     \* how many were added since then

historyVars == <<readVars, was, during, fetched, stayed, shrunk, grown>>

Held(orgs) == {<<orgs[i], i>> : i \in Live(orgs)}

HistoryInit ==
  /\ Init
  /\ was = Held(names)
  /\ during = [r \in Calls |-> {}]
  /\ fetched = [r \in Calls |-> {}]
  /\ stayed = [r \in Calls |-> {}]
  /\ shrunk = [r \in Calls |-> FALSE]
  /\ grown = [r \in Calls |-> 0]

\* What a history variable follows matters to these calls only.
LooksUp(r) == query[r].kind \in {"ids", "names", "resource"}
Searches(r) == query[r].kind = "search"

Running(r) == pc[r] \notin {"idle", "done", "raised"}

HistoryCall(r) ==
  /\ Call(r)
  /\ during' = [during EXCEPT ![r] = IF pc[r] = "idle" /\ LooksUp(r) THEN Held(names) ELSE @]
  /\ stayed' = [stayed EXCEPT ![r] = IF pc[r] = "idle" /\ Searches(r) THEN Live(names) ELSE @]
  /\ fetched' = [fetched EXCEPT ![r] = IF pc[r] = "store" THEN @ \cup {Len(got[r]) + 1} ELSE @]
  /\ UNCHANGED <<was, shrunk, grown>>

\* What happens after the last call has ended is not followed.
Pending == \E r \in Calls : pc[r] \notin {"done", "raised"}

HistoryGateway ==
  /\ Gateway
  /\ Pending
  /\ was' = was \cup Held(names')
  /\ Cardinality(was') <= MaxHeld
  /\ during' = [r \in Calls |-> IF Running(r) /\ LooksUp(r) THEN during[r] \cup Held(names') ELSE during[r]]
  /\ stayed' = [r \in Calls |-> IF Running(r) THEN stayed[r] \cap Live(names') ELSE stayed[r]]
  /\ shrunk' = [r \in Calls |-> shrunk[r] \/ (Running(r) /\ Searches(r) /\ ~(Live(names) \subseteq Live(names')))]
  /\ grown' = [r \in Calls |-> IF Running(r) /\ Searches(r) /\ Len(names') > Len(names) THEN grown[r] + 1 ELSE grown[r]]
  /\ UNCHANGED fetched

HistoryShutdown == Shutdown /\ Pending /\ UNCHANGED <<was, during, fetched, stayed, shrunk, grown>>

HistoryNext == (\E r \in Calls : HistoryCall(r)) \/ HistoryGateway \/ HistoryShutdown

HistorySpec == HistoryInit /\ [][HistoryNext]_historyVars

------------------------------------------------------------------------------
(* Properties. *)

\* Every variable stays within its type.
TypeOK ==
  /\ names \in Seq(Names \cup {Gone}) /\ Len(names) <= MaxOrgs
  /\ idCache \in [Names -> Ids \cup {NoId}]
  /\ nameCache \in [Ids -> Names \cup {Gone}]
  /\ fkCache \in [Names -> Ids \cup {NoId}]
  /\ shutdownRequested \in BOOLEAN
  /\ query \in [Calls -> AllQueries]
  /\ pc \in [Calls -> {"idle", "look", "ask", "store", "page", "turn", "done", "raised"}]
  /\ got \in [Calls -> Seq(Names \cup Ids)]
  /\ reply \in [Calls -> Names \cup Ids \cup {NoId}]
  /\ page \in [Calls -> Nat]
  /\ was \subseteq Names \X Ids
  /\ during \in [Calls -> SUBSET (Names \X Ids)]
  /\ fetched \in [Calls -> SUBSET Nat]
  /\ stayed \in [Calls -> SUBSET Nat]
  /\ shrunk \in [Calls -> BOOLEAN]
  /\ grown \in [Calls -> Nat]

\* What the k-th answer of a look-up says.
Claim(r, k) ==
  IF query[r].kind = "names" THEN <<got[r][k], query[r].items[k]>>
  ELSE <<query[r].items[k], got[r][k]>>

\* The look-ups answer item by item, in order, and never with the id or the name
\* of another organization: each answer, cached by whichever thread in
\* whichever direction (platform_manager.py:1062-1143), held at some moment
\* since the service began.  It may have stopped holding: nothing ever
\* invalidates the cache.
AnswersWereTrue ==
  \A r \in Calls : LooksUp(r) =>
    \A k \in DOMAIN got[r] : query[r].items[k] \in Names \/ query[r].kind = "names" => Claim(r, k) \in was

\* What a look-up did not find in the cache held while the look-up ran; it is
\* as good as the request itself (platform_manager.py:1068-1078, 1097-1106).
FetchedIsCurrent ==
  \A r \in Calls : LooksUp(r) =>
    \A k \in DOMAIN got[r] : k \in fetched[r] => Claim(r, k) \in during[r]

\* A search misses nothing that was there all along, unless something was
\* removed while it turned the pages and moved the rest up
\* (platform_manager.py:1174-1182).
SearchMissesNothing ==
  \A r \in Calls :
    Searches(r) /\ pc[r] = "done" /\ ~shrunk[r] =>
      stayed[r] \subseteq {got[r][k] : k \in DOMAIN got[r]}

\* A search never lists an organization twice, whatever happens to the list.
SearchRepeatsNothing ==
  \A r \in Calls : Searches(r) =>
    \A j, k \in DOMAIN got[r] : j < k => got[r][j] < got[r][k]

\* The cap is asked of the first page's count only (platform_manager.py:1172-1175),
\* so a search can return more than max_objects, where gateway_api.py:60-63 and
\* platform_manager.py:1157 promise an exception; but more by no more than what
\* was added while it ran.
OverrunIsGrowth ==
  \A r \in Calls :
    Searches(r) /\ pc[r] = "done" => Len(got[r]) <= MaxObjects + grown[r]
===============================================================================
