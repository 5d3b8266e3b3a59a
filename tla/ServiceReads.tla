----------------------------- MODULE ServiceReads -----------------------------
(***************************************************************************)
(* What the RPC threads of one PlatformService read from a gateway that    *)
(* others change meanwhile: the look-ups of organization names and ids     *)
(* through the service's cache (lookup_org_ids, lookup_org_names,          *)
(* lookup_resource_id) and the paged search of search_api                  *)
(* (manager/platform_manager.py).                                          *)
(*                                                                         *)
(* The service's threads share one dict, whose three families of keys      *)
(* (org_name:, org_id:, organizations:name:) are three functions here.  An *)
(* HTTP request is one step of the gateway; between its answer and the     *)
(* store into the cache other threads and the gateway go on.  An empty     *)
(* value, which lookup_resource_id answers with None, is left out.         *)
(***************************************************************************)
EXTENDS Naturals, Sequences, FiniteSets

CONSTANTS
  Calls,       \* RPCs, one server thread each
  Names,       \* names of organizations
  Gone,        \* no name: no organization, nothing cached
  Queries,     \* what the RPCs may ask for, together
  MaxOrgs,     \* organizations the gateway ever creates
  PageSize,    \* organizations on a page of the gateway's list
  MaxObjects   \* max_objects of a search

Ids == 1..MaxOrgs
NoId == 0

Kinds == {"ids", "names", "resource", "search", "list"}

\* A name stands for itself and an id for the name that consists of its digits.
AllQueries ==
  [kind : {"ids"}, items : Seq(Names) \ {<<>>}]
    \cup [kind : {"names"}, items : Seq(Ids) \ {<<>>}]
    \cup [kind : {"resource"}, items : {<<x>> : x \in Names \cup Ids}]
    \cup [kind : {"search", "list"}, items : {<<>>}]

ASSUME ReadsAssumption ==
  /\ Gone \notin Names
  /\ Names \cap Nat = {}
  /\ Queries \subseteq [Calls -> AllQueries]
  /\ MaxOrgs \in Nat \ {0}
  /\ PageSize \in Nat \ {0}
  /\ MaxObjects \in Nat

VARIABLES
  names,      \* the gateway: names of the organizations, in the order of ids
  idCache,    \* org_name:<name> -> id
  nameCache,  \* org_id:<id> -> name
  fkCache,    \* organizations:name:<name> -> id
  shutdownRequested,
  query,      \* what each RPC asks for
  pc,         \* what its thread does next
  got,        \* ids, names or data["results"], as far as it has come
  reply,      \* the answer of the gateway that it has in hand
  page        \* next_url: the next page of its search, 0 if there is none

readVars == <<names, idCache, nameCache, fkCache, shutdownRequested, query, pc, got, reply, page>>
caches == <<idCache, nameCache, fkCache, shutdownRequested>>

Live(orgs) == {i \in DOMAIN orgs : orgs[i] # Gone}
Called(n) == {i \in Live(names) : names[i] = n}

Init ==
  /\ names \in {<<>>} \cup {<<n>> : n \in Names}
  /\ idCache = [n \in Names |-> NoId]
  /\ nameCache = [i \in Ids |-> Gone]
  /\ fkCache = [n \in Names |-> NoId]
  /\ shutdownRequested = FALSE
  /\ query \in Queries
  /\ pc = [r \in Calls |-> "idle"]
  /\ got = [r \in Calls |-> <<>>]
  /\ reply = [r \in Calls |-> NoId]
  /\ page = [r \in Calls |-> 0]

Become(r, from, to) ==
  /\ pc[r] = from
  /\ pc' = [pc EXCEPT ![r] = to]

Begin(r) ==
  /\ Become(r, "idle", IF query[r].kind \in {"search", "list"} THEN "page" ELSE "look")
  /\ UNCHANGED <<names, caches, query, got, reply, page>>

\* An exception; what was read so far is lost with it.
Raise(r, from) ==
  /\ Become(r, from, "raised")
  /\ got' = [got EXCEPT ![r] = <<>>]
  /\ page' = [page EXCEPT ![r] = 0]
  /\ UNCHANGED <<names, caches, query, reply>>

------------------------------------------------------------------------------
(* Look-ups. *)

Item(r) == query[r].items[Len(got[r]) + 1]

\* The cache, or lookup_resource_id on a string of digits, has the answer.
Cached(r, answer) ==
  \/ query[r].kind = "ids" /\ answer = idCache[Item(r)] /\ answer # NoId
  \/ query[r].kind = "names" /\ answer = nameCache[Item(r)] /\ answer # Gone
  \/ query[r].kind = "resource" /\ Item(r) \in Names /\ answer = fkCache[Item(r)] /\ answer # NoId
  \/ query[r].kind = "resource" /\ Item(r) \in Ids /\ answer = Item(r)

\* One more answer, after which the response is not used again; the last one
\* ends the call.
Answer(r, from, answer) ==
  /\ Become(r, from, IF Len(got[r]) + 1 = Len(query[r].items) THEN "done" ELSE "look")
  /\ got' = [got EXCEPT ![r] = Append(@, answer)]
  /\ reply' = [reply EXCEPT ![r] = NoId]
  /\ UNCHANGED <<names, shutdownRequested, query, page>>

Hit(r) ==
  /\ pc[r] = "look"
  /\ \E answer \in Names \cup Ids : Cached(r, answer) /\ Answer(r, "look", answer)
  /\ UNCHANGED <<idCache, nameCache, fkCache>>

Miss(r) ==
  /\ Become(r, "look", "ask")
  /\ \A answer \in Names \cup Ids : ~Cached(r, answer)
  /\ UNCHANGED <<names, caches, query, got, reply, page>>

\* Mutant: the list is asked for without its filter.
AskUnfiltered(r) ==
  /\ Become(r, "ask", "store")
  /\ \E i \in Live(names) : reply' = [reply EXCEPT ![r] = IF query[r].kind = "names" THEN names[i] ELSE i]
  /\ UNCHANGED <<names, caches, query, got, page>>

\* The gateway answers the list by name, or the GET by id, as it is now.
Ask(r) ==
  /\ Become(r, "ask", "store")
  /\ IF query[r].kind = "names"
     THEN /\ Item(r) \in Live(names)
          /\ reply' = [reply EXCEPT ![r] = names[Item(r)]]
     ELSE \E i \in Called(Item(r)) : reply' = [reply EXCEPT ![r] = i]
  /\ UNCHANGED <<names, caches, query, got, page>>

\* Nothing of that name or id, or the request fails.
AskFails(r) == Raise(r, "ask")

\* Mutant: an id is stored under the last name of the list, not its own.
StoreIdUnderLast(r) ==
  idCache' = [idCache EXCEPT ![query[r].items[Len(query[r].items)]] = reply[r]]

StoreId(r) == idCache' = [idCache EXCEPT ![Item(r)] = reply[r]]

\* Mutant: the way back stores the name.
StoreNameTwice(r) ==
  /\ nameCache' = [nameCache EXCEPT ![Item(r)] = reply[r]]
  /\ idCache' = [idCache EXCEPT ![reply[r]] = reply[r]]

\* A name found by id is stored in both directions.
StoreName(r) ==
  /\ nameCache' = [nameCache EXCEPT ![Item(r)] = reply[r]]
  /\ idCache' = [idCache EXCEPT ![reply[r]] = Item(r)]

Store(r) ==
  /\ Answer(r, "store", reply[r])
  /\ \/ query[r].kind = "ids" /\ StoreId(r) /\ UNCHANGED <<nameCache, fkCache>>
     \/ query[r].kind = "names" /\ StoreName(r) /\ UNCHANGED fkCache
     \/ /\ query[r].kind = "resource"
        /\ fkCache' = [fkCache EXCEPT ![Item(r)] = reply[r]]
        /\ UNCHANGED <<idCache, nameCache>>

------------------------------------------------------------------------------
(* Searches. *)

\* The gateway's list, in the order of the ids, and a page of it.
Rank(i) == Cardinality({j \in Live(names) : j < i})
Listed == [k \in 1..Cardinality(Live(names)) |-> CHOOSE i \in Live(names) : Rank(i) = k - 1]
Page(k) == SubSeq(Listed, (k - 1) * PageSize + 1, IF k * PageSize < Len(Listed) THEN k * PageSize ELSE Len(Listed))
NextPage(k) == IF k * PageSize < Len(Listed) THEN k + 1 ELSE 0

\* Mutant: the cap is not looked at.
ExceedsNever == FALSE

\* data["count"] > max_objects, asked of the first page only.
Exceeds == Len(Listed) > MaxObjects

\* Mutant: a next_url that leads to the page after the next.
TurnSkipping(r, k) ==
  /\ page' = [page EXCEPT ![r] = IF NextPage(k) = 0 THEN 0 ELSE NextPage(k) + 1]
  /\ pc' = [pc EXCEPT ![r] = IF page'[r] = 0 THEN "done" ELSE "turn"]

\* On to the next page, if the gateway names one.
Turn(r, k) ==
  /\ page' = [page EXCEPT ![r] = NextPage(k)]
  /\ pc' = [pc EXCEPT ![r] = IF NextPage(k) = 0 THEN "done" ELSE "turn"]

FirstPage(r) ==
  /\ pc[r] = "page"
  /\ got' = [got EXCEPT ![r] = Page(1)]
  /\ \/ query[r].kind = "list" /\ pc' = [pc EXCEPT ![r] = "done"] /\ UNCHANGED page
     \/ query[r].kind = "search" /\ ~Exceeds /\ Turn(r, 1)
  /\ UNCHANGED <<names, caches, query, reply>>

TooMany(r) == query[r].kind = "search" /\ Exceeds /\ Raise(r, "page")

\* Mutant: what was read so far is appended instead of the next page.
FollowPageAgain(r) ==
  /\ pc[r] = "turn"
  /\ (page[r] - 1) * PageSize < Len(Listed)
  /\ got' = [got EXCEPT ![r] = @ \o @]
  /\ Turn(r, page[r])
  /\ UNCHANGED <<names, caches, query, reply>>

\* A page past the end, which a list that shrank can lead to, is a 404.
FollowPage(r) ==
  /\ pc[r] = "turn"
  /\ (page[r] - 1) * PageSize < Len(Listed)
  /\ got' = [got EXCEPT ![r] = @ \o Page(page[r])]
  /\ Turn(r, page[r])
  /\ UNCHANGED <<names, caches, query, reply>>

PageFails(r) == Raise(r, "page") \/ Raise(r, "turn")

------------------------------------------------------------------------------
(* The shutdown RPC clears the cache, under whatever runs: a look-up between *)
(* "cache_key in self.cache" and the read raises KeyError.                  *)
HasHit(r) == pc[r] = "look" /\ \E answer \in Names \cup Ids : Cached(r, answer) /\ Item(r) # answer

Shutdown ==
  /\ ~shutdownRequested
  /\ shutdownRequested' = TRUE
  /\ idCache' = [n \in Names |-> NoId]
  /\ nameCache' = [i \in Ids |-> Gone]
  /\ fkCache' = [n \in Names |-> NoId]
  /\ \E lost \in SUBSET {r \in Calls : HasHit(r)} :
       /\ pc' = [r \in Calls |-> IF r \in lost THEN "raised" ELSE pc[r]]
       /\ got' = [r \in Calls |-> IF r \in lost THEN <<>> ELSE got[r]]
  /\ UNCHANGED <<names, query, reply, page>>

\* Others create, rename and delete organizations; names are unique, and ids
\* are given in order and never again.
AddOrg(n) ==
  /\ Len(names) < MaxOrgs
  /\ Called(n) = {}
  /\ names' = Append(names, n)
  /\ UNCHANGED <<caches, query, pc, got, reply, page>>

RenameOrg(i, n) ==
  /\ i \in Live(names)
  /\ Called(n) = {}
  /\ names' = [names EXCEPT ![i] = n]
  /\ UNCHANGED <<caches, query, pc, got, reply, page>>

RemoveOrg(i) ==
  /\ i \in Live(names)
  /\ names' = [names EXCEPT ![i] = Gone]
  /\ UNCHANGED <<caches, query, pc, got, reply, page>>

Call(r) ==
  \/ Begin(r)
  \/ Hit(r) \/ Miss(r) \/ Ask(r) \/ AskFails(r) \/ Store(r)
  \/ FirstPage(r) \/ TooMany(r) \/ FollowPage(r) \/ PageFails(r)

Gateway == \E n \in Names : AddOrg(n) \/ \E i \in Ids : RenameOrg(i, n) \/ RemoveOrg(i)

Next == (\E r \in Calls : Call(r)) \/ Shutdown \/ Gateway

Spec == Init /\ [][Next]_readVars
===============================================================================
