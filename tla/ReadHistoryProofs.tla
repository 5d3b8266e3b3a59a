-------------------------- MODULE ReadHistoryProofs --------------------------
(***************************************************************************)
(* Proofs about the look-ups and their cache, and about the searches, for  *)
(* any number of RPCs, of organizations and of names in a list, and pages  *)
(* of any size.                                                            *)
(***************************************************************************)
EXTENDS ReadHistory, SequenceTheorems, FiniteSetTheorems, TLAPS

-----------------------------------------------------------------------------
(* The inductive invariant. *)

\* The types that look-ups need; what a search has read is left open.
Types ==
  /\ names \in Seq(Names \cup {Gone}) /\ Len(names) <= MaxOrgs
  /\ idCache \in [Names -> Ids \cup {NoId}]
  /\ nameCache \in [Ids -> Names \cup {Gone}]
  /\ fkCache \in [Names -> Ids \cup {NoId}]
  /\ query \in [Calls -> AllQueries]
  /\ pc \in [Calls -> {"idle", "look", "ask", "store", "page", "turn", "done", "raised"}]
  /\ got = [r \in Calls |-> got[r]]
  /\ \A r \in Calls : LooksUp(r) => got[r] \in Seq(Names \cup Ids)
  /\ reply \in [Calls -> Names \cup Ids \cup {NoId}]
  /\ was \subseteq Names \X Ids
  /\ during \in [Calls -> SUBSET (Names \X Ids)]
  /\ fetched \in [Calls -> SUBSET Nat]

\* How far a look-up is.
Progress(r) ==
  /\ LooksUp(r) => pc[r] \notin {"page", "turn"}
  /\ pc[r] \in {"look", "ask", "store"} => LooksUp(r) /\ Len(got[r]) < Len(query[r].items)
  /\ LooksUp(r) => Len(got[r]) <= Len(query[r].items)
  /\ pc[r] = "idle" => got[r] = <<>> /\ fetched[r] = {}
  /\ LooksUp(r) /\ pc[r] # "raised" => fetched[r] \subseteq 1..Len(got[r])
  /\ pc[r] \in {"ask", "store"} /\ query[r].kind = "resource" => Item(r) \in Names

ProgressInv == \A r \in Calls : Progress(r)

\* What the history says of the present.
Follows ==
  /\ Held(names) \subseteq was
  /\ \A r \in Calls : during[r] \subseteq was
  /\ \A r \in Calls : Running(r) /\ LooksUp(r) => Held(names) \subseteq during[r]

\* Every entry of the cache held once.
CacheTrue ==
  /\ \A n \in Names : idCache[n] # NoId => <<n, idCache[n]>> \in was
  /\ \A i \in Ids : nameCache[i] # Gone => <<nameCache[i], i>> \in was
  /\ \A n \in Names : fkCache[n] # NoId => <<n, fkCache[n]>> \in was

\* What the answer x says of the item the look-up is at.
Says(r, x) == IF query[r].kind = "names" THEN <<x, Item(r)>> ELSE <<Item(r), x>>

\* The response in hand held while the look-up ran.
ReplyTrue == \A r \in Calls : pc[r] = "store" => Says(r, reply[r]) \in during[r]

Invariant ==
  /\ Types
  /\ ProgressInv
  /\ Follows
  /\ CacheTrue
  /\ ReplyTrue
  /\ AnswersWereTrue
  /\ FetchedIsCurrent

-----------------------------------------------------------------------------
(* Lemmas about the queries and the gateway. *)

\* The items of a look-up are names or ids, by its kind.
LEMMA Items ==
  ASSUME Types, NEW r \in Calls, LooksUp(r)
  PROVE  /\ query[r].items \in Seq(Names \cup Ids)
         /\ Len(query[r].items) \in Nat /\ 0 < Len(query[r].items)
         /\ \A k \in 1..Len(query[r].items) :
              /\ query[r].items[k] \in Names \cup Ids
              /\ query[r].kind = "ids" => query[r].items[k] \in Names
              /\ query[r].kind = "names" => query[r].items[k] \in Ids
<1>1. query[r] \in AllQueries
  BY DEF Types
<1>2. CASE query[r].kind = "ids"
  <2>1. query[r].items \in Seq(Names) /\ query[r].items # <<>>
    BY <1>1, <1>2 DEF AllQueries
  <2>2. Len(query[r].items) # 0
    BY <2>1, EmptySeq
  <2>. QED BY <1>2, <2>1, <2>2
<1>3. CASE query[r].kind = "names"
  <2>1. query[r].items \in Seq(Ids) /\ query[r].items # <<>>
    BY <1>1, <1>3 DEF AllQueries
  <2>2. Len(query[r].items) # 0
    BY <2>1, EmptySeq
  <2>. QED BY <1>3, <2>1, <2>2
<1>4. CASE query[r].kind = "resource"
  <2>1. PICK x \in Names \cup Ids : query[r].items = <<x>>
    BY <1>1, <1>4 DEF AllQueries
  <2>. QED BY <1>4, <2>1
<1>. QED BY <1>2, <1>3, <1>4 DEF LooksUp

\* The organizations there are have ids and names.
LEMMA HeldTypes ==
  ASSUME names \in Seq(Names \cup {Gone}), Len(names) <= MaxOrgs
  PROVE  /\ Live(names) \subseteq Ids /\ Held(names) \subseteq Names \X Ids
         /\ \A i \in Live(names) : names[i] \in Names
<1>1. DOMAIN names = 1..Len(names) /\ Len(names) \in Nat /\ MaxOrgs \in Nat
  BY ReadsAssumption
<1>2. \A i \in Live(names) : i \in Ids /\ names[i] \in Names
  BY <1>1 DEF Live, Ids
<1>. QED BY <1>2 DEF Held

\* Whatever others do, the list stays a list of names.
LEMMA GatewayTypes ==
  ASSUME Types, Gateway
  PROVE  names' \in Seq(Names \cup {Gone}) /\ Len(names') <= MaxOrgs
<1>0. MaxOrgs \in Nat /\ Len(names) \in Nat /\ DOMAIN names = 1..Len(names)
  BY ReadsAssumption DEF Types
<1>1. ASSUME NEW n \in Names, AddOrg(n)
      PROVE  names' \in Seq(Names \cup {Gone}) /\ Len(names') <= MaxOrgs
  <2>1. names' = Append(names, n) /\ Len(names) < MaxOrgs
    BY <1>1 DEF AddOrg
  <2>2. names' \in Seq(Names \cup {Gone}) /\ Len(names') = Len(names) + 1
    BY <2>1, AppendProperties DEF Types
  <2>. QED BY <1>0, <2>1, <2>2
<1>2. ASSUME NEW i \in 1..Len(names), NEW n \in Names \cup {Gone}, names' = [names EXCEPT ![i] = n]
      PROVE  names' \in Seq(Names \cup {Gone}) /\ Len(names') <= MaxOrgs
  BY <1>2, ExceptSeq DEF Types
<1>3. ASSUME NEW n \in Names, NEW i \in Ids, RenameOrg(i, n)
      PROVE  names' \in Seq(Names \cup {Gone}) /\ Len(names') <= MaxOrgs
  <2>1. i \in 1..Len(names) /\ names' = [names EXCEPT ![i] = n]
    BY <1>0, <1>3 DEF RenameOrg, Live
  <2>. QED BY <1>2, <2>1
<1>4. ASSUME NEW i \in Ids, RemoveOrg(i)
      PROVE  names' \in Seq(Names \cup {Gone}) /\ Len(names') <= MaxOrgs
  <2>1. i \in 1..Len(names) /\ names' = [names EXCEPT ![i] = Gone]
    BY <1>0, <1>4 DEF RemoveOrg, Live
  <2>. QED BY <1>2, <2>1
<1>. QED BY <1>1, <1>3, <1>4 DEF Gateway

\* A gateway step changes nothing else.
LEMMA GatewayFrame ==
  ASSUME Gateway
  PROVE  UNCHANGED <<caches, query, pc, got, reply, page>>
BY DEF Gateway, AddOrg, RenameOrg, RemoveOrg

\* The claims look at what has been read and asked only.
LEMMA ClaimFrame ==
  ASSUME UNCHANGED query, NEW r \in Calls, got'[r] = got[r]
  PROVE  /\ LooksUp(r)' <=> LooksUp(r)
         /\ Item(r)' = Item(r)
         /\ \A k : Claim(r, k)' = Claim(r, k)
         /\ \A x : Says(r, x)' = Says(r, x)
BY DEF LooksUp, Item, Claim, Says

-----------------------------------------------------------------------------
(* A step of one call. *)

\* One call's step leaves the others alone.
LEMMA Others ==
  ASSUME Types, NEW r \in Calls, Call(r)
  PROVE  /\ UNCHANGED <<names, query, shutdownRequested>>
         /\ \A q \in Calls : q # r => pc'[q] = pc[q] /\ got'[q] = got[q] /\ reply'[q] = reply[q]
         /\ got' = [q \in Calls |-> got'[q]]
<1>1. CASE Begin(r)
  BY <1>1 DEF Begin, Become, Types, caches
<1>2. CASE Hit(r)
  BY <1>2 DEF Hit, Answer, Become, Types
<1>3. CASE Miss(r)
  BY <1>3 DEF Miss, Become, Types, caches
<1>4. CASE Ask(r)
  BY <1>4 DEF Ask, Become, Types, caches
<1>5. CASE AskFails(r)
  BY <1>5 DEF AskFails, Raise, Become, Types, caches
<1>6. CASE Store(r)
  BY <1>6 DEF Store, Answer, Become, Types
<1>7. CASE FirstPage(r)
  BY <1>7 DEF FirstPage, Turn, Types, caches
<1>8. CASE TooMany(r)
  BY <1>8 DEF TooMany, Raise, Become, Types, caches
<1>9. CASE FollowPage(r)
  BY <1>9 DEF FollowPage, Turn, Types, caches
<1>10. CASE PageFails(r)
  BY <1>10 DEF PageFails, Raise, Become, Types, caches
<1>. QED BY <1>1, <1>2, <1>3, <1>4, <1>5, <1>6, <1>7, <1>8, <1>9, <1>10 DEF Call

\* What the invariant says of one call.
Own(r) ==
  /\ Progress(r)
  /\ during[r] \subseteq was
  /\ Running(r) /\ LooksUp(r) => Held(names) \subseteq during[r]
  /\ pc[r] = "store" => Says(r, reply[r]) \in during[r]
  /\ LooksUp(r) => \A k \in DOMAIN got[r] :
       query[r].items[k] \in Names \/ query[r].kind = "names" => Claim(r, k) \in was
  /\ LooksUp(r) => \A k \in DOMAIN got[r] : k \in fetched[r] => Claim(r, k) \in during[r]

\* The invariant, call by call.
LEMMA ByCall ==
  Invariant <=> Types /\ Held(names) \subseteq was /\ CacheTrue /\ \A r \in Calls : Own(r)
BY DEF Invariant, ProgressInv, Follows, ReplyTrue, AnswersWereTrue, FetchedIsCurrent, Own

\* A step of one call keeps the invariant if it does for the call itself.
LEMMA OneCall ==
  ASSUME Invariant, NEW r \in Calls, HistoryCall(r), Types', CacheTrue', Own(r)'
  PROVE  Invariant'
<1>1. Types /\ Call(r) /\ UNCHANGED was
  BY DEF HistoryCall, Invariant
<1>2. UNCHANGED names /\ UNCHANGED query
  BY <1>1, Others
<1>3. Held(names)' \subseteq was'
  BY <1>1, <1>2, ByCall DEF Held, Live
<1>4. ASSUME NEW q \in Calls, q # r
      PROVE  Own(q)'
  <2>1. pc'[q] = pc[q] /\ got'[q] = got[q] /\ reply'[q] = reply[q]
    BY <1>1, <1>4, Others
  <2>2. during'[q] = during[q] /\ fetched'[q] = fetched[q]
    BY <1>1, <1>4 DEF HistoryCall, Types
  <2>3. /\ LooksUp(q)' <=> LooksUp(q)
        /\ Item(q)' = Item(q)
        /\ \A k : Claim(q, k)' = Claim(q, k)
        /\ Says(q, reply[q])' = Says(q, reply[q])
    BY <1>2, <2>1 DEF LooksUp, Item, Claim, Says
  <2>4. Running(q)' <=> Running(q)
    BY <2>1 DEF Running
  <2>5. Held(names)' = Held(names)
    BY <1>2 DEF Held, Live
  <2>6. Own(q)
    BY ByCall
  <2>7. Progress(q)'
    BY <1>2, <2>1, <2>2, <2>3, <2>6 DEF Own, Progress
  <2>. QED BY <1>1, <1>2, <2>1, <2>2, <2>3, <2>4, <2>5, <2>6, <2>7 DEF Own, Says
<1>. QED
  BY <1>3, <1>4
     DEF Invariant, ProgressInv, Follows, ReplyTrue, AnswersWereTrue, FetchedIsCurrent, Own

\* The answer of the cache is a name or an id, and true once.
LEMMA CachedTrue ==
  ASSUME Invariant, NEW r \in Calls, pc[r] = "look", NEW x \in Names \cup Ids, Cached(r, x)
  PROVE  Item(r) \in Names \/ query[r].kind = "names" => Says(r, x) \in was
<1>1. Types /\ Progress(r) /\ CacheTrue
  BY DEF Invariant, ProgressInv
<1>2. LooksUp(r) /\ Len(got[r]) + 1 \in 1..Len(query[r].items)
  <2>1. LooksUp(r) /\ Len(got[r]) < Len(query[r].items)
    BY <1>1 DEF Progress
  <2>2. Len(got[r]) \in Nat /\ Len(query[r].items) \in Nat
    BY <1>1, <2>1, Items DEF Types
  <2>. QED BY <2>1, <2>2
<1>3. /\ query[r].kind = "ids" => Item(r) \in Names
      /\ query[r].kind = "names" => Item(r) \in Ids
  BY <1>1, <1>2, Items DEF Item
<1>4. Names \cap Ids = {}
  BY ReadsAssumption DEF Ids
<1>. QED BY <1>1, <1>3, <1>4 DEF Cached, CacheTrue, Says

\* One more answer, that held while the call ran or came from the cache.
LEMMA AnswerKeeps ==
  ASSUME Invariant, NEW r \in Calls, NEW x \in Names \cup Ids, NEW from \in {"look", "store"},
         Answer(r, from, x), HistoryCall(r), Types',
         Item(r) \in Names \/ query[r].kind = "names" => Says(r, x) \in was,
         from = "store" => Says(r, x) \in during[r]
  PROVE  Own(r)'
<1>1. Types /\ Progress(r) /\ Own(r)
  BY ByCall DEF Own
<1>2. /\ LooksUp(r) /\ got[r] \in Seq(Names \cup Ids)
      /\ Len(got[r]) \in Nat /\ Len(query[r].items) \in Nat /\ Len(got[r]) < Len(query[r].items)
      /\ pc[r] = from
  BY <1>1, Items DEF Progress, Types, Answer, Become
<1>. PICK n \in Nat : n = Len(got[r]) + 1
  BY <1>2
<1>3. /\ got'[r] = Append(got[r], x)
      /\ UNCHANGED query /\ UNCHANGED names /\ UNCHANGED was
      /\ pc'[r] = IF n = Len(query[r].items) THEN "done" ELSE "look"
  BY <1>1, <1>2 DEF Answer, Become, Types, HistoryCall
<1>4. /\ Len(got'[r]) = n /\ got'[r][n] = x /\ DOMAIN got'[r] = 1..n
      /\ \A k \in 1..Len(got[r]) : got'[r][k] = got[r][k]
      /\ DOMAIN got[r] = 1..Len(got[r])
  BY <1>2, <1>3, AppendProperties
<1>5. /\ during'[r] = during[r]
      /\ fetched'[r] = IF from = "store" THEN fetched[r] \cup {n} ELSE fetched[r]
  BY <1>1, <1>2 DEF HistoryCall, Types
<1>6. LooksUp(r)' /\ Item(r) = query[r].items[n]
  BY <1>2, <1>3 DEF LooksUp, Item
<1>10. 1..n = 1..Len(got[r]) \cup {n} /\ n \notin 1..Len(got[r]) /\ n \in Nat /\ n <= Len(query[r].items)
  BY <1>2
<1>7. Claim(r, n)' = Says(r, x)
  BY <1>3, <1>4, <1>6 DEF Claim, Says
<1>8. \A k \in 1..Len(got[r]) : Claim(r, k)' = Claim(r, k)
  BY <1>3, <1>4 DEF Claim
<1>9. fetched[r] \subseteq 1..Len(got[r])
  BY <1>1, <1>2 DEF Progress
<1>11. Progress(r)'
  <2>1. fetched'[r] \subseteq 1..n
    BY <1>5, <1>9, <1>10
  <2>2. pc'[r] = "look" => n < Len(query[r].items)
    BY <1>2, <1>3, <1>10
  <2>3. pc'[r] \in {"done", "look"}
    BY <1>3
  <2>. QED BY <1>3, <1>4, <1>6, <1>10, <2>1, <2>2, <2>3 DEF Progress
<1>12. Running(r)
  BY <1>2 DEF Running
<1>13. /\ during'[r] \subseteq was'
       /\ Held(names)' \subseteq during'[r]
  BY <1>1, <1>2, <1>3, <1>5, <1>12 DEF Own, Held, Live
<1>14. ASSUME NEW k \in DOMAIN got'[r]
       PROVE  /\ query'[r].items[k] \in Names \/ query'[r].kind = "names" => Claim(r, k)' \in was'
              /\ k \in fetched'[r] => Claim(r, k)' \in during'[r]
  <2>1. CASE k = n
    <3>1. k \notin fetched[r]
      BY <1>9, <1>10, <2>1
    <3>2. Claim(r, k)' = Says(r, x) /\ query[r].items[k] = Item(r)
      BY <1>6, <1>7, <2>1
    <3>3. k \in fetched'[r] => from = "store"
      BY <1>5, <3>1
    <3>4. Says(r, x) \in during[r] => Claim(r, k)' \in during'[r]
      <4>1. during'[r] = during[r]
        BY <1>5
      <4>. QED BY <3>2, <4>1
    <3>. QED BY <1>3, <3>2, <3>3, <3>4
  <2>2. CASE k # n
    <3>1. k \in 1..Len(got[r])
      BY <1>4, <1>10, <2>2
    <3>2. /\ query[r].items[k] \in Names \/ query[r].kind = "names" => Claim(r, k) \in was
          /\ k \in fetched[r] => Claim(r, k) \in during[r]
      BY <1>1, <1>2, <1>4, <3>1 DEF Own
    <3>3. k \in fetched'[r] => k \in fetched[r]
      BY <1>5, <2>2
    <3>. QED BY <1>3, <1>5, <1>8, <3>1, <3>2, <3>3
  <2>. QED BY <2>1, <2>2
<1>15. pc'[r] # "store"
  BY <1>3
<1>. QED BY <1>11, <1>13, <1>14, <1>15 DEF Own

\* The item a look-up is at.
LEMMA ItemOf ==
  ASSUME NEW r \in Calls, Types, Progress(r), pc[r] \in {"look", "ask", "store"}
  PROVE  /\ LooksUp(r) /\ Item(r) \in Names \cup Ids
         /\ query[r].kind = "ids" => Item(r) \in Names
         /\ query[r].kind = "names" => Item(r) \in Ids
         /\ Names \cap Ids = {} /\ NoId \notin Names \cup Ids
<1>1. LooksUp(r) /\ Len(got[r]) < Len(query[r].items)
  BY DEF Progress
<1>2. Len(got[r]) + 1 \in 1..Len(query[r].items)
  <2>1. Len(got[r]) \in Nat /\ Len(query[r].items) \in Nat
    BY <1>1, Items DEF Types
  <2>. QED BY <1>1, <2>1
<1>3. Names \cap Ids = {} /\ NoId \notin Names \cup Ids
  BY ReadsAssumption DEF Ids, NoId
<1>. QED BY <1>1, <1>2, <1>3, Items DEF Item

\* The response is of the item's other type, and held while the call ran.
LEMMA ReplyTypes ==
  ASSUME Invariant, NEW r \in Calls, pc[r] = "store"
  PROVE  /\ query[r].kind \in {"ids", "resource"} => Item(r) \in Names /\ reply[r] \in Ids
         /\ query[r].kind = "names" => Item(r) \in Ids /\ reply[r] \in Names
         /\ LooksUp(r)
         /\ Says(r, reply[r]) \in during[r] /\ Says(r, reply[r]) \in was
<1>1. Types /\ Progress(r) /\ Own(r)
  BY ByCall DEF Own
<1>2. Says(r, reply[r]) \in during[r] /\ Says(r, reply[r]) \in was
  BY <1>1 DEF Own
<1>3. Says(r, reply[r]) \in Names \X Ids
  BY <1>1, <1>2 DEF Types
<1>4. LooksUp(r)
  BY <1>1 DEF Progress
<1>5. query[r].kind = "names" => <<reply[r], Item(r)>> \in Names \X Ids
  BY <1>3 DEF Says
<1>6. query[r].kind \in {"ids", "resource"} => <<Item(r), reply[r]>> \in Names \X Ids
  BY <1>3 DEF Says
<1>. QED BY <1>2, <1>4, <1>5, <1>6

\* What the step stores is true once.
LEMMA StoreKeeps ==
  ASSUME Invariant, NEW r \in Calls, Store(r), UNCHANGED was
  PROVE  /\ CacheTrue'
         /\ idCache' \in [Names -> Ids \cup {NoId}]
         /\ nameCache' \in [Ids -> Names \cup {Gone}]
         /\ fkCache' \in [Names -> Ids \cup {NoId}]
<1>1. pc[r] = "store" /\ Types /\ CacheTrue
  BY DEF Store, Answer, Become, Invariant
<1>2. CASE query[r].kind = "ids"
  <2>1. /\ Item(r) \in Names /\ reply[r] \in Ids /\ <<Item(r), reply[r]>> \in was
        /\ idCache' = [idCache EXCEPT ![Item(r)] = reply[r]] /\ UNCHANGED <<nameCache, fkCache>>
    BY <1>1, <1>2, ReplyTypes DEF Store, StoreId, Says
  <2>. QED BY <1>1, <2>1 DEF CacheTrue, Types
<1>3. CASE query[r].kind = "names"
  <2>1. /\ Item(r) \in Ids /\ reply[r] \in Names /\ <<reply[r], Item(r)>> \in was
        /\ nameCache' = [nameCache EXCEPT ![Item(r)] = reply[r]]
        /\ idCache' = [idCache EXCEPT ![reply[r]] = Item(r)] /\ UNCHANGED fkCache
    BY <1>1, <1>3, ReplyTypes DEF Store, StoreName, Says
  <2>. QED BY <1>1, <2>1 DEF CacheTrue, Types
<1>4. CASE query[r].kind = "resource"
  <2>1. /\ Item(r) \in Names /\ reply[r] \in Ids /\ <<Item(r), reply[r]>> \in was
        /\ fkCache' = [fkCache EXCEPT ![Item(r)] = reply[r]] /\ UNCHANGED <<idCache, nameCache>>
    BY <1>1, <1>4, ReplyTypes DEF Store, Says
  <2>. QED BY <1>1, <2>1 DEF CacheTrue, Types
<1>. QED BY <1>2, <1>3, <1>4 DEF Store

\* The caches of a call's step are of their types and true.
LEMMA CallCache ==
  ASSUME Invariant, NEW r \in Calls, Call(r), UNCHANGED was
  PROVE  /\ CacheTrue'
         /\ idCache' \in [Names -> Ids \cup {NoId}]
         /\ nameCache' \in [Ids -> Names \cup {Gone}]
         /\ fkCache' \in [Names -> Ids \cup {NoId}]
<1>1. CASE UNCHANGED <<idCache, nameCache, fkCache>>
  BY <1>1 DEF Invariant, CacheTrue, Types
<1>2. CASE Store(r)
  BY <1>2, StoreKeeps
<1>3. CASE Hit(r)
  BY <1>1, <1>3 DEF Hit
<1>4. CASE Begin(r) \/ Miss(r) \/ Ask(r) \/ AskFails(r)
  BY <1>1, <1>4 DEF Begin, Miss, Ask, AskFails, Raise, caches
<1>5. CASE FirstPage(r) \/ TooMany(r) \/ FollowPage(r) \/ PageFails(r)
  BY <1>1, <1>5 DEF FirstPage, TooMany, FollowPage, PageFails, Raise, caches
<1>. QED BY <1>2, <1>3, <1>4, <1>5 DEF Call

\* What a call's step does to the call itself: it searches or looks up.
LEMMA OwnTypes ==
  ASSUME Invariant, NEW r \in Calls, Call(r)
  PROVE  /\ pc' \in [Calls -> {"idle", "look", "ask", "store", "page", "turn", "done", "raised"}]
         /\ reply' \in [Calls -> Names \cup Ids \cup {NoId}]
         /\ LooksUp(r) => got'[r] \in Seq(Names \cup Ids)
<1>1. Types /\ Progress(r)
  BY DEF Invariant, ProgressInv
<1>2. CASE Begin(r)
  BY <1>1, <1>2 DEF Begin, Become, Types
<1>3. ASSUME NEW x \in Names \cup Ids, NEW from \in {"look", "store"}, Answer(r, from, x)
      PROVE  /\ pc' \in [Calls -> {"idle", "look", "ask", "store", "page", "turn", "done", "raised"}]
             /\ reply' \in [Calls -> Names \cup Ids \cup {NoId}]
             /\ LooksUp(r) => got'[r] \in Seq(Names \cup Ids)
  <2>1. pc' \in [Calls -> {"idle", "look", "ask", "store", "page", "turn", "done", "raised"}]
    BY <1>1, <1>3 DEF Answer, Become, Types
  <2>2. reply' \in [Calls -> Names \cup Ids \cup {NoId}] /\ got'[r] = Append(got[r], x)
    BY <1>1, <1>3 DEF Answer, Types
  <2>. QED BY <1>1, <2>1, <2>2, AppendProperties DEF Types
<1>4. CASE Hit(r)
  BY <1>3, <1>4 DEF Hit
<1>5. CASE Store(r)
  <2>1. pc[r] = "store" /\ Answer(r, "store", reply[r])
    BY <1>5 DEF Store, Answer, Become
  <2>2. reply[r] \in Names \cup Ids
    BY <2>1, ReplyTypes DEF LooksUp
  <2>. QED BY <1>3, <2>1, <2>2
<1>6. CASE Miss(r)
  BY <1>1, <1>6 DEF Miss, Become, Types
<1>7. CASE Ask(r)
  <2>1. Live(names) \subseteq Ids /\ \A i \in Live(names) : names[i] \in Names
    BY <1>1, HeldTypes DEF Types
  <2>2. PICK x \in Names \cup Ids : reply' = [reply EXCEPT ![r] = x]
    BY <1>7, <2>1, ItemOf, <1>1 DEF Ask, Called, Become
  <2>3. pc' \in [Calls -> {"idle", "look", "ask", "store", "page", "turn", "done", "raised"}]
    BY <1>1, <1>7 DEF Ask, Become, Types
  <2>4. got' = got
    BY <1>7 DEF Ask
  <2>. QED BY <1>1, <2>2, <2>3, <2>4 DEF Types
<1>8. ASSUME NEW from \in {"ask", "page", "turn"}, Raise(r, from)
      PROVE  /\ pc' \in [Calls -> {"idle", "look", "ask", "store", "page", "turn", "done", "raised"}]
             /\ reply' \in [Calls -> Names \cup Ids \cup {NoId}]
             /\ LooksUp(r) => got'[r] \in Seq(Names \cup Ids)
  BY <1>1, <1>8 DEF Raise, Become, Types
<1>9. CASE AskFails(r) \/ TooMany(r) \/ PageFails(r)
  BY <1>8, <1>9 DEF AskFails, TooMany, PageFails
<1>10. CASE FirstPage(r) \/ FollowPage(r)
  <2>1. ~LooksUp(r)
    BY <1>1, <1>10 DEF FirstPage, FollowPage, Progress
  <2>2. UNCHANGED reply /\ (\E s \in {"done", "turn"} : pc' = [pc EXCEPT ![r] = s])
    BY <1>10 DEF FirstPage, FollowPage, Turn
  <2>. QED BY <1>1, <2>1, <2>2 DEF Types
<1>. QED BY <1>2, <1>4, <1>5, <1>6, <1>7, <1>9, <1>10 DEF Call

\* A call's step keeps the types.
LEMMA CallTypes ==
  ASSUME Invariant, NEW r \in Calls, HistoryCall(r)
  PROVE  Types'
<1>1. Types /\ Call(r) /\ UNCHANGED was
  BY DEF Invariant, HistoryCall
<1>2. UNCHANGED names /\ UNCHANGED query /\ got' = [q \in Calls |-> got'[q]]
  BY <1>1, Others
<1>3. \A q \in Calls : LooksUp(q)' => got'[q] \in Seq(Names \cup Ids)
  BY <1>1, <1>2, Others, OwnTypes DEF Types, LooksUp
<1>4. during' \in [Calls -> SUBSET (Names \X Ids)]
  <2>1. Held(names) \subseteq Names \X Ids
    BY <1>1, HeldTypes DEF Types
  <2>. QED BY <1>1, <2>1 DEF HistoryCall, Types
<1>5. fetched' \in [Calls -> SUBSET Nat]
  <2>1. pc[r] = "store" => Len(got[r]) + 1 \in Nat
    BY <1>1, LenProperties DEF Types, Invariant, ProgressInv, Progress
  <2>2. fetched[r] \in SUBSET Nat
    BY <1>1 DEF Types
  <2>3. (IF pc[r] = "store" THEN fetched[r] \cup {Len(got[r]) + 1} ELSE fetched[r]) \in SUBSET Nat
    BY <2>1, <2>2
  <2>. QED BY <1>1, <2>3 DEF HistoryCall, Types
<1>. QED BY <1>1, <1>2, <1>3, <1>4, <1>5, CallCache, OwnTypes DEF Types

\* A step that neither reads nor stores an answer.
LEMMA QuietStep ==
  ASSUME Invariant, NEW r \in Calls, HistoryCall(r), pc[r] # "store",
         pc[r] # "idle", got'[r] = got[r] \/ (got'[r] = <<>> /\ pc'[r] = "raised"),
         LooksUp(r),
         pc'[r] \in {"look", "ask", "store", "raised"},
         pc'[r] \in {"look", "ask", "store"} => pc[r] \in {"look", "ask"},
         pc'[r] \in {"ask", "store"} /\ query[r].kind = "resource" => Item(r) \in Names,
         pc'[r] = "store" => Says(r, reply'[r]) \in during[r]
  PROVE  Own(r)'
<1>1. Types /\ Call(r) /\ UNCHANGED was /\ Own(r) /\ Progress(r)
  BY ByCall DEF HistoryCall, Own
<1>2. UNCHANGED names /\ UNCHANGED query
  BY <1>1, Others
<1>3. during'[r] = during[r] /\ fetched'[r] = fetched[r]
  BY <1>1 DEF HistoryCall, Types
<1>4. LooksUp(r)' /\ Held(names)' = Held(names)
  BY <1>2 DEF LooksUp, Held, Live
<1>5. CASE got'[r] = <<>> /\ pc'[r] = "raised"
  <2>1. Len(got'[r]) = 0 /\ DOMAIN got'[r] = {}
    BY <1>5
  <2>2. Len(query[r].items) \in Nat
    BY <1>1, Items
  <2>3. Progress(r)'
    BY <1>2, <1>5, <2>1, <2>2 DEF Progress
  <2>. QED BY <1>1, <1>2, <1>3, <1>5, <2>1, <2>3 DEF Own, Running
<1>6. CASE got'[r] = got[r] /\ pc'[r] # "raised"
  <2>1. Item(r)' = Item(r) /\ (\A k : Claim(r, k)' = Claim(r, k)) /\ Says(r, reply[r])' = Says(r, reply'[r])
    BY <1>2, <1>6 DEF Item, Claim, Says
  <2>2. Progress(r)'
    BY <1>1, <1>2, <1>3, <1>4, <1>6, <2>1 DEF Progress
  <2>3. Running(r)
    BY <1>6, <1>1 DEF Running
  <2>. QED BY <1>1, <1>2, <1>3, <1>4, <1>6, <2>1, <2>2, <2>3 DEF Own
<1>7. CASE got'[r] = got[r] /\ pc'[r] = "raised"
  <2>1. \A k : Claim(r, k)' = Claim(r, k)
    BY <1>2, <1>7 DEF Claim
  <2>2. Progress(r)'
    BY <1>1, <1>2, <1>4, <1>7 DEF Progress
  <2>. QED BY <1>1, <1>2, <1>3, <1>7, <2>1, <2>2 DEF Own, Running
<1>. QED BY <1>5, <1>6, <1>7

\* A call's step keeps the invariant.
LEMMA CallKeeps ==
  ASSUME Invariant, NEW r \in Calls, HistoryCall(r)
  PROVE  Invariant'
<1>1. Types /\ Call(r) /\ UNCHANGED was /\ Own(r) /\ Progress(r) /\ Types' /\ CacheTrue'
  BY ByCall, CallTypes, CallCache DEF HistoryCall, Own
<1>2. UNCHANGED names /\ UNCHANGED query /\ (LooksUp(r)' <=> LooksUp(r))
  BY <1>1, Others DEF LooksUp
<1>3. SUFFICES Own(r)'
  BY <1>1, OneCall
<1>4. CASE Begin(r)
  <2>1. /\ pc[r] = "idle" /\ got'[r] = <<>> /\ fetched'[r] = {}
        /\ pc'[r] = IF LooksUp(r) THEN "look" ELSE "page"
        /\ during'[r] = IF LooksUp(r) THEN Held(names) ELSE during[r]
    <3>1. query[r].kind \in {"ids", "names", "resource", "search", "list"}
      BY <1>1 DEF Types, AllQueries
    <3>. QED BY <1>1, <1>4, <3>1 DEF Begin, Become, HistoryCall, Types, Progress, LooksUp
  <2>2. Len(got'[r]) = 0 /\ DOMAIN got'[r] = {} /\ Held(names)' = Held(names)
    BY <1>2, <2>1 DEF Held, Live
  <2>3. LooksUp(r) => 0 < Len(query[r].items) /\ Len(query[r].items) \in Nat
    BY <1>1, Items
  <2>4. Progress(r)'
    BY <1>2, <2>1, <2>2, <2>3 DEF Progress
  <2>5. Held(names) \subseteq was
    BY ByCall
  <2>. QED BY <1>1, <1>2, <2>1, <2>2, <2>4, <2>5 DEF Own
<1>5. CASE Hit(r)
  <2>1. PICK x \in Names \cup Ids : pc[r] = "look" /\ Cached(r, x) /\ Answer(r, "look", x)
    BY <1>5 DEF Hit
  <2>2. Item(r) \in Names \/ query[r].kind = "names" => Says(r, x) \in was
    BY <2>1, CachedTrue
  <2>. QED BY <1>1, <2>1, <2>2, AnswerKeeps
<1>6. CASE Store(r)
  <2>1. pc[r] = "store" /\ Answer(r, "store", reply[r])
    BY <1>6 DEF Store, Answer, Become
  <2>2. reply[r] \in Names \cup Ids /\ Says(r, reply[r]) \in during[r] /\ Says(r, reply[r]) \in was
    BY <2>1, ReplyTypes DEF LooksUp
  <2>. QED BY <1>1, <2>1, <2>2, AnswerKeeps
<1>7. CASE Miss(r)
  <2>1. pc[r] = "look" /\ pc'[r] = "ask" /\ got'[r] = got[r]
        /\ \A x \in Names \cup Ids : ~Cached(r, x)
    BY <1>1, <1>7 DEF Miss, Become, Types
  <2>2. LooksUp(r) /\ (query[r].kind = "resource" => Item(r) \in Names)
    BY <1>1, <2>1, ItemOf DEF Cached
  <2>3. /\ pc[r] \notin {"store", "idle"}
        /\ pc'[r] \in {"look", "ask", "store", "raised"} /\ pc'[r] # "store"
        /\ pc[r] \in {"look", "ask"}
    BY <2>1
  <2>. QED BY <2>1, <2>2, <2>3, QuietStep
<1>8. CASE Ask(r)
  <2>1. pc[r] = "ask" /\ pc'[r] = "store" /\ got'[r] = got[r]
    BY <1>1, <1>8 DEF Ask, Become, Types
  <2>2. LooksUp(r) /\ (query[r].kind = "resource" => Item(r) \in Names) /\ Running(r)
    BY <1>1, <2>1 DEF Progress, Running
  <2>3. Says(r, reply'[r]) \in Held(names)
    <3>1. CASE query[r].kind = "names"
      <4>1. Item(r) \in Live(names) /\ reply'[r] = names[Item(r)]
        BY <1>1, <1>8, <3>1 DEF Ask, Types
      <4>. QED BY <3>1, <4>1 DEF Says, Held
    <3>2. CASE query[r].kind # "names"
      <4>1. PICK i \in Live(names) : names[i] = Item(r) /\ reply' = [reply EXCEPT ![r] = i]
        BY <1>8, <3>2 DEF Ask, Called
      <4>2. reply'[r] = i
        BY <1>1, <4>1 DEF Types
      <4>. QED BY <3>2, <4>1, <4>2 DEF Says, Held
    <3>. QED BY <3>1, <3>2
  <2>4. Says(r, reply'[r]) \in during[r]
    BY <1>1, <2>2, <2>3 DEF Own
  <2>5. /\ pc[r] \notin {"store", "idle"}
        /\ pc'[r] \in {"look", "ask", "store", "raised"}
        /\ pc[r] \in {"look", "ask"}
    BY <2>1
  <2>. QED BY <2>1, <2>2, <2>4, <2>5, QuietStep
<1>9. CASE AskFails(r)
  <2>1. pc[r] = "ask" /\ pc'[r] = "raised" /\ got'[r] = <<>>
    BY <1>1, <1>9 DEF AskFails, Raise, Become, Types
  <2>. QED BY <1>1, <2>1, QuietStep DEF Progress
<1>10. CASE FirstPage(r) \/ TooMany(r) \/ FollowPage(r) \/ PageFails(r)
  <2>1. pc[r] \in {"page", "turn"} /\ pc'[r] \in {"done", "turn", "raised"}
    BY <1>1, <1>10 DEF FirstPage, TooMany, FollowPage, PageFails, Turn, Raise, Become, Types
  <2>2. ~LooksUp(r) /\ ~LooksUp(r)' /\ during'[r] = during[r]
    BY <1>1, <1>2, <2>1 DEF Progress, HistoryCall, Types
  <2>. QED BY <1>1, <2>1, <2>2 DEF Own, Progress
<1>. QED BY <1>1, <1>4, <1>5, <1>6, <1>7, <1>8, <1>9, <1>10 DEF Call

-----------------------------------------------------------------------------
(* The gateway, a shutdown, and the theorems. *)

\* What others do to the organizations makes more of the answers true, not less.
LEMMA GatewayKeeps ==
  ASSUME Invariant, HistoryGateway
  PROVE  Invariant'
<1>1. /\ Types /\ Gateway /\ fetched' = fetched
      /\ was' = was \cup Held(names')
      /\ during' = [r \in Calls |-> IF Running(r) /\ LooksUp(r) THEN during[r] \cup Held(names') ELSE during[r]]
  BY DEF HistoryGateway, Invariant
<1>2. /\ UNCHANGED <<idCache, nameCache, fkCache>> /\ UNCHANGED query /\ UNCHANGED pc
      /\ UNCHANGED got /\ UNCHANGED reply
  BY <1>1, GatewayFrame DEF caches
<1>3. names' \in Seq(Names \cup {Gone}) /\ Len(names') <= MaxOrgs
  BY <1>1, GatewayTypes
<1>4. Held(names') \subseteq Names \X Ids
  <2>1. ASSUME NEW orgs \in Seq(Names \cup {Gone}), Len(orgs) <= MaxOrgs
        PROVE  Held(orgs) \subseteq Names \X Ids
    <3>1. DOMAIN orgs = 1..Len(orgs) /\ Len(orgs) \in Nat /\ MaxOrgs \in Nat
      BY <2>1, ReadsAssumption
    <3>. QED BY <2>1, <3>1 DEF Held, Live, Ids
  <2>. QED BY <1>3, <2>1
<1>5. Types'
  <2>1. \A r \in Calls : LooksUp(r)' => got'[r] \in Seq(Names \cup Ids)
    BY <1>1, <1>2 DEF Types, LooksUp
  <2>. QED BY <1>1, <1>2, <1>3, <1>4, <2>1 DEF Types
<1>6. CacheTrue'
  BY <1>1, <1>2 DEF Invariant, CacheTrue
<1>7. ASSUME NEW r \in Calls
      PROVE  Own(r)'
  <2>1. Own(r) /\ Held(names) \subseteq was
    BY ByCall
  <2>2. /\ (LooksUp(r)' <=> LooksUp(r)) /\ (Running(r)' <=> Running(r)) /\ Item(r)' = Item(r)
        /\ (\A k : Claim(r, k)' = Claim(r, k)) /\ Says(r, reply[r])' = Says(r, reply[r])
    BY <1>2 DEF LooksUp, Running, Item, Claim, Says
  <2>3. Progress(r)'
    BY <1>1, <1>2, <2>1, <2>2 DEF Own, Progress
  <2>4. /\ during[r] \subseteq during'[r] /\ during'[r] \subseteq was' /\ was \subseteq was'
        /\ Running(r) /\ LooksUp(r) => Held(names') \subseteq during'[r]
    BY <1>1, <2>1 DEF Own
  <2>. QED BY <1>1, <1>2, <2>1, <2>2, <2>3, <2>4 DEF Own
<1>8. Held(names)' \subseteq was'
  <2>1. Held(names)' = Held(names')
    BY DEF Held, Live
  <2>. QED BY <1>1, <2>1
<1>. QED
  BY <1>5, <1>6, <1>7, <1>8
     DEF Invariant, ProgressInv, Follows, ReplyTrue, AnswersWereTrue, FetchedIsCurrent, Own

\* A shutdown empties the cache, and what look-ups it raises have read.
LEMMA ShutdownKeeps ==
  ASSUME Invariant, HistoryShutdown
  PROVE  Invariant'
<1>1. /\ Types /\ Shutdown
      /\ UNCHANGED was /\ UNCHANGED during /\ UNCHANGED fetched /\ UNCHANGED names
      /\ UNCHANGED query /\ UNCHANGED reply
  BY DEF HistoryShutdown, Shutdown, Invariant
<1>2. PICK lost \in SUBSET {r \in Calls : HasHit(r)} :
        /\ pc' = [r \in Calls |-> IF r \in lost THEN "raised" ELSE pc[r]]
        /\ got' = [r \in Calls |-> IF r \in lost THEN <<>> ELSE got[r]]
  BY <1>1 DEF Shutdown
<1>3. /\ idCache' = [n \in Names |-> NoId] /\ nameCache' = [i \in Ids |-> Gone]
      /\ fkCache' = [n \in Names |-> NoId]
  BY <1>1 DEF Shutdown
<1>4. Types'
  <2>1. \A r \in Calls : LooksUp(r)' => got'[r] \in Seq(Names \cup Ids)
    BY <1>1, <1>2 DEF Types, LooksUp
  <2>. QED BY <1>1, <1>2, <1>3, <2>1 DEF Types
<1>5. CacheTrue'
  BY <1>3 DEF CacheTrue
<1>6. Held(names)' \subseteq was'
  BY <1>1 DEF Held, Live, Invariant, Follows
<1>7. ASSUME NEW r \in Calls
      PROVE  Own(r)'
  <2>1. Own(r) /\ (LooksUp(r)' <=> LooksUp(r)) /\ Held(names)' = Held(names)
    BY <1>1, ByCall DEF LooksUp, Held, Live
  <2>2. CASE r \in lost
    <3>1. pc'[r] = "raised" /\ got'[r] = <<>> /\ Len(got'[r]) = 0 /\ DOMAIN got'[r] = {}
      BY <1>2, <2>2
    <3>2. LooksUp(r) => Len(query[r].items) \in Nat
      BY <1>1, Items
    <3>3. Progress(r)'
      BY <1>1, <2>1, <3>1, <3>2 DEF Progress
    <3>. QED BY <1>1, <2>1, <3>1, <3>3 DEF Own, Running
  <2>3. CASE r \notin lost
    <3>1. pc'[r] = pc[r] /\ got'[r] = got[r]
      BY <1>2, <2>3
    <3>2. /\ (Running(r)' <=> Running(r)) /\ Item(r)' = Item(r)
          /\ (\A k : Claim(r, k)' = Claim(r, k)) /\ Says(r, reply[r])' = Says(r, reply[r])
      BY <1>1, <3>1 DEF Running, Item, Claim, Says
    <3>3. Progress(r)'
      BY <1>1, <2>1, <3>1, <3>2 DEF Own, Progress
    <3>. QED BY <1>1, <2>1, <3>1, <3>2, <3>3 DEF Own
  <2>. QED BY <2>2, <2>3
<1>. QED
  BY <1>4, <1>5, <1>6, <1>7
     DEF Invariant, ProgressInv, Follows, ReplyTrue, AnswersWereTrue, FetchedIsCurrent, Own

\* Initially nothing is cached and nobody has asked.
LEMMA InvariantInit == HistoryInit => Invariant
<1> SUFFICES ASSUME HistoryInit PROVE Invariant
  OBVIOUS
<1>1. names \in Seq(Names \cup {Gone}) /\ Len(names) <= MaxOrgs
  <2>1. 1 <= MaxOrgs /\ MaxOrgs \in Nat
    BY ReadsAssumption
  <2>2. CASE names = <<>>
    BY <2>1, <2>2
  <2>3. ASSUME NEW n \in Names, names = <<n>>
        PROVE  names \in Seq(Names \cup {Gone}) /\ Len(names) <= MaxOrgs
    <3>1. names \in Seq(Names \cup {Gone}) /\ Len(names) = 1
      BY <2>3
    <3>. QED BY <2>1, <3>1
  <2>. QED BY <2>2, <2>3 DEF HistoryInit, Init
<1>2. /\ query \in [Calls -> AllQueries]
      /\ \A r \in Calls : pc[r] = "idle" /\ got[r] = <<>> /\ during[r] = {} /\ fetched[r] = {}
      /\ \A r \in Calls : reply[r] = NoId
      /\ was = Held(names)
  BY ReadsAssumption DEF HistoryInit, Init
<1>3. Held(names) \subseteq Names \X Ids
  BY <1>1, HeldTypes
<1>4. Types
  <2>1. \A r \in Calls : got[r] \in Seq(Names \cup Ids)
    BY <1>2, EmptySeq
  <2>. QED BY <1>1, <1>2, <1>3, <2>1 DEF HistoryInit, Init, Types, Ids
<1>5. CacheTrue
  BY DEF HistoryInit, Init, CacheTrue
<1>6. ASSUME NEW r \in Calls
      PROVE  Own(r)
  <2>1. DOMAIN got[r] = {} /\ Len(got[r]) = 0
    BY <1>2
  <2>2. LooksUp(r) => Len(query[r].items) \in Nat
    BY <1>4, Items
  <2>3. Progress(r)
    BY <1>2, <2>1, <2>2 DEF Progress
  <2>. QED BY <1>2, <2>1, <2>3 DEF Own, Running
<1>. QED BY <1>2, <1>4, <1>5, <1>6, ByCall

\* Every step keeps the invariant.
LEMMA InvariantStep == Invariant /\ [HistoryNext]_historyVars => Invariant'
<1> SUFFICES ASSUME Invariant, [HistoryNext]_historyVars PROVE Invariant'
  OBVIOUS
<1>1. CASE UNCHANGED historyVars
  BY <1>1
     DEF historyVars, readVars, Invariant, Types, ProgressInv, Progress, Follows, CacheTrue,
         ReplyTrue, Says, AnswersWereTrue, FetchedIsCurrent, Claim, LooksUp, Running, Item, Held, Live
<1>. QED BY <1>1, CallKeeps, GatewayKeeps, ShutdownKeeps DEF HistoryNext

\* For any number of RPCs and whatever others do to the organizations: a
\* look-up answers item by item what held at some moment since the service
\* began (platform_manager.py:1052-1143).
THEOREM AnswersAreTrue == HistorySpec => []AnswersWereTrue
<1>1. Invariant => AnswersWereTrue
  BY DEF Invariant
<1>. QED BY <1>1, InvariantInit, InvariantStep, PTL DEF HistorySpec

\* For any number of RPCs: what a look-up did not find in the cache held while
\* it ran (platform_manager.py:1068-1106).
THEOREM FetchedAnswersAreCurrent == HistorySpec => []FetchedIsCurrent
<1>1. Invariant => FetchedIsCurrent
  BY DEF Invariant
<1>. QED BY <1>1, InvariantInit, InvariantStep, PTL DEF HistorySpec

-----------------------------------------------------------------------------
(* The gateway's list: the organizations there are, sorted.                *)

Orgs == Cardinality(Live(names))

\* There are finitely many organizations.
LEMMA LiveFinite ==
  ASSUME NEW orgs \in Seq(Names \cup {Gone})
  PROVE  /\ Live(orgs) \subseteq 1..Len(orgs)
         /\ IsFiniteSet(Live(orgs))
         /\ Cardinality(Live(orgs)) \in Nat
<1>1. Len(orgs) \in Nat /\ Live(orgs) \subseteq 1..Len(orgs)
  BY DEF Live
<1>2. IsFiniteSet(1..Len(orgs))
  BY <1>1, FS_Interval
<1>3. IsFiniteSet(Live(orgs))
  BY <1>1, <1>2, FS_Subset
<1>. QED BY <1>1, <1>3, FS_CardinalityType

\* An element left out makes a set smaller.
LEMMA Smaller ==
  ASSUME NEW S, IsFiniteSet(S), NEW T \in SUBSET S, NEW x \in S, x \notin T
  PROVE  /\ IsFiniteSet(T) /\ Cardinality(T) \in Nat /\ Cardinality(S) \in Nat
         /\ Cardinality(T) < Cardinality(S)
<1>1. IsFiniteSet(T) /\ Cardinality(T) <= Cardinality(S) /\ Cardinality(S) # Cardinality(T)
  BY FS_Subset
<1>2. Cardinality(T) \in Nat /\ Cardinality(S) \in Nat
  BY <1>1, FS_CardinalityType
<1>. QED BY <1>1, <1>2

\* Ranks are in the order of ids.
LEMMA RankOrder ==
  ASSUME names \in Seq(Names \cup {Gone})
  PROVE  /\ \A i \in Live(names) : Rank(i) \in Nat /\ Rank(i) < Orgs
         /\ \A i, j \in Live(names) : i < j => Rank(i) < Rank(j)
<1>1. Live(names) \subseteq Nat /\ IsFiniteSet(Live(names))
  BY LiveFinite
<1>2. ASSUME NEW i \in Live(names)
      PROVE  Rank(i) \in Nat /\ Rank(i) < Orgs
  <2>1. i \notin {j \in Live(names) : j < i}
    BY <1>1
  <2>. QED BY <1>1, <2>1, Smaller DEF Rank, Orgs
<1>3. ASSUME NEW i \in Live(names), NEW j \in Live(names), i < j
      PROVE  Rank(i) < Rank(j)
  <2>1. /\ {k \in Live(names) : k < i} \subseteq {k \in Live(names) : k < j}
        /\ i \in {k \in Live(names) : k < j} /\ i \notin {k \in Live(names) : k < i}
    BY <1>1, <1>3
  <2>2. IsFiniteSet({k \in Live(names) : k < j})
    BY <1>1, FS_Subset
  <2>. QED BY <2>1, <2>2, Smaller DEF Rank
<1>. QED BY <1>2, <1>3

\* The list has every organization once, at the place that its rank says:
\* distinct ranks below their number leave none out.
LEMMA ListedSorted ==
  ASSUME names \in Seq(Names \cup {Gone})
  PROVE  /\ Orgs \in Nat /\ Len(Listed) = Orgs /\ DOMAIN Listed = 1..Orgs
         /\ \A k \in 1..Orgs : Listed[k] \in Live(names) /\ Rank(Listed[k]) = k - 1
         /\ \A i \in Live(names) : Rank(i) + 1 \in 1..Orgs /\ Listed[Rank(i) + 1] = i
<1>1. Live(names) \subseteq Nat /\ IsFiniteSet(Live(names)) /\ Orgs \in Nat
  BY LiveFinite DEF Orgs
<1> DEFINE rank == [i \in Live(names) |-> Rank(i)]
<1>2. rank \in Injection(Live(names), 0..(Orgs - 1))
  <2>1. rank \in [Live(names) -> 0..(Orgs - 1)]
    BY <1>1, RankOrder
  <2>2. \A i, j \in Live(names) : Rank(i) = Rank(j) => i = j
    BY <1>1, RankOrder
  <2>. QED BY <2>1, <2>2 DEF Injection, IsInjective
<1>3. IsFiniteSet(0..(Orgs - 1)) /\ Cardinality(0..(Orgs - 1)) = Orgs
  BY <1>1, FS_Interval
<1>4. rank \in Surjection(Live(names), 0..(Orgs - 1))
  BY <1>2, <1>3, FS_Injection DEF Orgs
<1>5. \A k \in 1..Orgs : \E i \in Live(names) : Rank(i) = k - 1
  <2>1. \A k \in 1..Orgs : k - 1 \in 0..(Orgs - 1)
    BY <1>1
  <2>2. \A p \in 0..(Orgs - 1) : \E i \in Live(names) : rank[i] = p
    BY <1>4 DEF Surjection
  <2>. QED BY <2>1, <2>2
<1>6. \A k \in 1..Orgs : Listed[k] \in Live(names) /\ Rank(Listed[k]) = k - 1
  BY <1>5 DEF Listed, Orgs
<1>7. DOMAIN Listed = 1..Orgs /\ Len(Listed) = Orgs
  <2>1. Listed \in Seq(Live(names))
    BY <1>1, <1>6 DEF Listed, Orgs
  <2>. QED BY <1>1, <2>1 DEF Listed, Orgs
<1>8. \A i, j \in Live(names) : Rank(i) = Rank(j) => i = j
  BY <1>1, RankOrder
<1>9. ASSUME NEW i \in Live(names)
      PROVE  Rank(i) + 1 \in 1..Orgs /\ Listed[Rank(i) + 1] = i
  <2>1. PICK k \in 1..Orgs : k = Rank(i) + 1 /\ k - 1 = Rank(i)
    BY <1>1, RankOrder
  <2>2. Listed[k] \in Live(names) /\ Rank(Listed[k]) = Rank(i)
    BY <1>6, <2>1
  <2>. QED BY <1>8, <2>1, <2>2
<1>. QED BY <1>1, <1>6, <1>7, <1>9

-----------------------------------------------------------------------------
(* The next page of a search.                                              *)

Sorted(s) == \A j, k \in DOMAIN s : j < k => s[j] < s[k]
Contains(s, i) == \E k \in DOMAIN s : s[k] = i
Within(s, m) == \A k \in DOMAIN s : s[k] <= m

\* What the gateway lists from the place m on comes after all of s.
Before(s, m) == \A i \in Live(names) : Rank(i) >= m => \A k \in DOMAIN s : s[k] < i

\* s is what a search has read of the first m places.
ReadTo(s, m) == s \in Seq(Ids) /\ Sorted(s) /\ Len(s) = m /\ Within(s, Len(names)) /\ Before(s, m)

\* s has what is on the list from the place first to the place end.
Covers(s, first, end) == \A i \in Live(names) : first <= Rank(i) /\ Rank(i) < end => Contains(s, i)

\* The number of organizations on the first k pages, if they are full.
Full(k) == k * PageSize

\* One more page.
LEMMA FullNat ==
  ASSUME NEW k \in Nat \ {0}
  PROVE  Full(k - 1) \in Nat /\ Full(k) \in Nat /\ Full(k) = Full(k - 1) + PageSize
         /\ Full(0) = 0
BY ReadsAssumption DEF Full

\* A page holds the organizations of its ranks.
LEMMA PageHolds ==
  ASSUME Types, NEW k \in Nat \ {0}, k = 1 \/ Full(k - 1) < Orgs,
         NEW end \in Nat, end = (IF Full(k) < Orgs THEN Full(k) ELSE Orgs)
  PROVE  /\ Full(k - 1) <= end /\ end <= Orgs /\ Orgs \in Nat
         /\ Page(k) \in Seq(Ids) /\ Len(Page(k)) = end - Full(k - 1)
         /\ \A j \in 1..(end - Full(k - 1)) : Page(k)[j] = Listed[Full(k - 1) + j]
<1>1. Full(k - 1) \in Nat /\ Full(k) \in Nat /\ Full(k) = Full(k - 1) + PageSize /\ PageSize \in Nat \ {0}
  BY FullNat, ReadsAssumption
<1>2. names \in Seq(Names \cup {Gone}) /\ Live(names) \subseteq Ids
  BY HeldTypes DEF Types
<1>3. Orgs \in Nat /\ Len(Listed) = Orgs /\ \A j \in 1..Orgs : Listed[j] \in Ids
  BY <1>2, ListedSorted
<1>4. k = 1 => Full(k - 1) = 0
  BY FullNat
<1>5. Full(k - 1) <= end /\ end <= Orgs
  BY <1>1, <1>3, <1>4
<1>. DEFINE first == Full(k - 1)
<1>6. Page(k) = SubSeq(Listed, first + 1, end)
  BY <1>3 DEF Page, Full
<1>7. first \in Nat /\ first <= end /\ end <= Orgs /\ first + 1 \in Int /\ end \in Int
  BY <1>1, <1>5
<1>. HIDE DEF first
<1>8. \A j \in (first + 1)..end : Listed[j] \in Ids
  BY <1>3, <1>7
<1>9. /\ Page(k) \in Seq(Ids)
      /\ Len(Page(k)) = IF first + 1 <= end THEN end - (first + 1) + 1 ELSE 0
      /\ \A j \in 1..(end - (first + 1) + 1) : Page(k)[j] = Listed[first + 1 + j - 1]
  BY <1>6, <1>7, <1>8, SubSeqProperties
<1>10. Len(Page(k)) = end - first
  BY <1>7, <1>9
<1>11. \A j \in 1..(end - first) : j \in 1..(end - (first + 1) + 1) /\ first + 1 + j - 1 = first + j
  BY <1>7
<1>12. \A j \in 1..(end - first) : Page(k)[j] = Listed[first + j]
  BY <1>9, <1>11
<1>. QED BY <1>3, <1>5, <1>9, <1>10, <1>12 DEF first

\* list has the elements of L in order, each at the place that rank gives it,
\* plus one.
Ranked(L, rank, c, list) ==
  /\ L \subseteq Nat /\ c \in Nat
  /\ rank \in [L -> Nat] /\ list \in [1..c -> L]
  /\ \A i, j \in L : i < j => rank[i] < rank[j]
  /\ \A j \in 1..c : rank[list[j]] = j - 1
  /\ \A i \in L : rank[i] < c /\ list[rank[i] + 1] = i

\* new is the sorted sequence old, with what the list has after its first places.
Extended(L, rank, c, list, old, first, new, end) ==
  /\ first \in Nat /\ end \in Nat /\ first <= end /\ end <= c
  /\ old \in [1..first -> Nat] /\ new \in [1..end -> Nat]
  /\ \A j \in 1..first : new[j] = old[j]
  /\ \A j \in (first + 1)..end : new[j] = list[j]
  /\ \A j, k \in 1..first : j < k => old[j] < old[k]
  /\ \A i \in L : rank[i] >= first => \A j \in 1..first : old[j] < i

\* new is sorted, what comes next on the list comes after it, and nothing
\* between is left out.
Continued(L, rank, first, new, end) ==
  /\ \A j, k \in 1..end : j < k => new[j] < new[k]
  /\ \A i \in L : rank[i] >= end => \A j \in 1..end : new[j] < i
  /\ \A i \in L : first <= rank[i] /\ rank[i] < end => \E j \in 1..end : new[j] = i
  /\ \A j \in (first + 1)..end : new[j] \in L

\* A continuation of an ordered sequence of smaller ids by the next stretch of an
\* ordered list is ordered, and has all of the stretch.
LEMMA Appended ==
  ASSUME NEW L, NEW rank, NEW c, NEW list, Ranked(L, rank, c, list),
         NEW old, NEW first, NEW new, NEW end, Extended(L, rank, c, list, old, first, new, end)
  PROVE  Continued(L, rank, first, new, end)
<1> USE DEF Ranked, Extended
<1>1. \A j \in (first + 1)..end : new[j] \in L /\ rank[new[j]] = j - 1
  OBVIOUS
<1>2. \A j \in 1..end : j \in 1..first \/ j \in (first + 1)..end
  OBVIOUS
<1>3. \A i, j \in L : rank[i] < rank[j] => i < j
  <2> SUFFICES ASSUME NEW i \in L, NEW j \in L, rank[i] < rank[j]
               PROVE  i < j
    OBVIOUS
  <2>1. i \in Nat /\ j \in Nat /\ rank[i] \in Nat /\ rank[j] \in Nat
    OBVIOUS
  <2>2. ~(j < i) /\ i # j
    BY <2>1
  <2>. QED BY <2>1, <2>2
<1>4. ASSUME NEW j \in 1..end, NEW k \in 1..end, j < k
      PROVE  new[j] < new[k]
  <2>1. CASE k \in 1..first
    BY <1>4, <2>1
  <2>2. CASE k \in (first + 1)..end /\ j \in 1..first
    <3>1. new[k] \in L /\ rank[new[k]] >= first
      BY <1>1, <2>2
    <3>. QED BY <2>2, <3>1
  <2>3. CASE k \in (first + 1)..end /\ j \in (first + 1)..end
    <3>1. new[k] \in L /\ new[j] \in L /\ rank[new[j]] < rank[new[k]]
      BY <1>1, <1>4, <2>3
    <3>. QED BY <1>3, <3>1
  <2>. QED BY <1>2, <2>1, <2>2, <2>3
<1>5. ASSUME NEW i \in L, rank[i] >= end, NEW j \in 1..end
      PROVE  new[j] < i
  <2>1. CASE j \in 1..first
    <3>1. rank[i] \in Nat /\ rank[i] >= first
      BY <1>5
    <3>2. old[j] < i /\ new[j] = old[j]
      BY <2>1, <3>1
    <3>. QED BY <3>2
  <2>2. CASE j \in (first + 1)..end
    <3>1. new[j] \in L /\ rank[new[j]] < rank[i]
      BY <1>1, <1>5, <2>2
    <3>. QED BY <1>3, <3>1
  <2>. QED BY <1>2, <2>1, <2>2
<1>6. ASSUME NEW i \in L, first <= rank[i], rank[i] < end
      PROVE  \E j \in 1..end : new[j] = i
  <2>1. rank[i] + 1 \in (first + 1)..end /\ rank[i] + 1 \in 1..end
    BY <1>6
  <2>2. new[rank[i] + 1] = i
    BY <2>1
  <2>. QED BY <2>1, <2>2
<1>. QED BY <1>1, <1>4, <1>5, <1>6 DEF Continued

\* The gateway's list is such a list.
LEMMA ListRanked ==
  ASSUME names \in Seq(Names \cup {Gone})
  PROVE  \E rank, list :
           /\ Ranked(Live(names), rank, Orgs, list)
           /\ \A i \in Live(names) : rank[i] = Rank(i)
           /\ \A j \in 1..Orgs : list[j] = Listed[j]
<1> DEFINE rank == [i \in Live(names) |-> Rank(i)]
           list == [j \in 1..Orgs |-> Listed[j]]
<1>1. Live(names) \subseteq Nat /\ Orgs \in Nat
  BY LiveFinite, ListedSorted
<1>2. /\ rank \in [Live(names) -> Nat] /\ list \in [1..Orgs -> Live(names)]
      /\ \A i, j \in Live(names) : i < j => rank[i] < rank[j]
      /\ \A j \in 1..Orgs : rank[list[j]] = j - 1
      /\ \A i \in Live(names) : rank[i] < Orgs /\ list[rank[i] + 1] = i
  BY <1>1, RankOrder, ListedSorted
<1>3. Ranked(Live(names), rank, Orgs, list)
  BY <1>1, <1>2 DEF Ranked
<1>4. /\ \A i \in Live(names) : rank[i] = Rank(i)
      /\ \A j \in 1..Orgs : list[j] = Listed[j]
  OBVIOUS
<1> HIDE DEF rank, list
<1>. QED BY <1>3, <1>4, Zenon

\* What a search has read when it appends page k to the pages before it.
LEMMA PageAppended ==
  ASSUME Types, NEW k \in Nat \ {0}, k = 1 \/ Full(k - 1) < Orgs,
         NEW first \in Nat, first = Full(k - 1),
         NEW old, ReadTo(old, first),
         NEW new, new = old \o Page(k),
         NEW end \in Nat, end = (IF Full(k) < Orgs THEN Full(k) ELSE Orgs)
  PROVE  /\ ReadTo(new, end)
         /\ Covers(new, first, end)
         /\ \A i : Contains(old, i) => Contains(new, i)
<1>1. old \in Seq(Ids) /\ Sorted(old) /\ Len(old) = first /\ Within(old, Len(names)) /\ Before(old, first)
  BY DEF ReadTo
<1>2. /\ names \in Seq(Names \cup {Gone}) /\ Live(names) \subseteq 1..Len(names) /\ Len(names) \in Nat
      /\ Ids \subseteq Nat /\ Live(names) \subseteq Nat
  <2>1. names \in Seq(Names \cup {Gone}) /\ Live(names) \subseteq 1..Len(names)
    BY LiveFinite DEF Types
  <2>2. Len(names) \in Nat
    BY <2>1
  <2>. QED BY <2>1, <2>2, ReadsAssumption DEF Ids
<1>3. Full(k - 1) \in Nat /\ Full(k) \in Nat
  BY FullNat
<1>4. Orgs \in Nat
  BY <1>2, ListedSorted
<1>5. first \in Nat /\ end \in Nat
  BY <1>3, <1>4
<1>6. /\ Page(k) \in Seq(Ids) /\ Len(Page(k)) = end - first
      /\ \A j \in 1..(end - first) : Page(k)[j] = Listed[first + j]
  BY <1>5, PageHolds
<1>7. first <= end /\ end <= Orgs
  BY <1>5, PageHolds
<1>8. /\ new \in Seq(Ids) /\ Len(new) = end
      /\ DOMAIN new = 1..end /\ DOMAIN old = 1..first
      /\ \A j \in 1..end : new[j] = IF j <= first THEN old[j] ELSE Page(k)[j - first]
  <2>1. /\ new \in Seq(Ids) /\ Len(new) = Len(old) + Len(Page(k))
        /\ \A j \in 1..(Len(old) + Len(Page(k))) : new[j] = IF j <= Len(old) THEN old[j] ELSE Page(k)[j - Len(old)]
    BY <1>1, <1>6, ConcatProperties
  <2>2. Len(old) = first /\ Len(old) + Len(Page(k)) = end
    BY <1>1, <1>5, <1>6, <1>7
  <2>. QED BY <1>1, <2>1, <2>2, LenProperties
<1>9. \A j \in 1..first : new[j] = old[j]
  BY <1>5, <1>7, <1>8
<1>10. \A j \in (first + 1)..end : new[j] = Listed[j]
  <2>1. \A j \in (first + 1)..end : j - first \in 1..(end - first) /\ first + (j - first) = j /\ ~(j <= first) /\ j \in 1..end
    BY <1>4, <1>5, <1>7
  <2>. QED BY <1>6, <1>8, <2>1
<1>11. PICK rank, list :
        /\ Ranked(Live(names), rank, Orgs, list)
        /\ \A i \in Live(names) : rank[i] = Rank(i)
        /\ \A j \in 1..Orgs : list[j] = Listed[j]
  BY <1>2, ListRanked
<1>12. /\ old \in [1..first -> Nat] /\ new \in [1..end -> Nat]
       /\ \A j \in (first + 1)..end : new[j] = list[j]
       /\ \A j, l \in 1..first : j < l => old[j] < old[l]
       /\ \A i \in Live(names) : rank[i] >= first => \A j \in 1..first : old[j] < i
  <2>1. old \in [1..first -> Nat] /\ new \in [1..end -> Nat]
    BY <1>1, <1>2, <1>8, LenProperties
  <2>2. \A j \in (first + 1)..end : j \in 1..Orgs
    BY <1>4, <1>5, <1>7
  <2>3. \A j, l \in 1..first : j < l => old[j] < old[l]
    BY <1>1, <1>8 DEF Sorted
  <2>4. \A i \in Live(names) : rank[i] >= first => \A j \in 1..first : old[j] < i
    BY <1>1, <1>8, <1>11 DEF Before
  <2>. QED BY <1>10, <1>11, <2>1, <2>2, <2>3, <2>4
<1>13. /\ \A j, l \in 1..end : j < l => new[j] < new[l]
       /\ \A i \in Live(names) : rank[i] >= end => \A j \in 1..end : new[j] < i
       /\ \A i \in Live(names) : first <= rank[i] /\ rank[i] < end => \E j \in 1..end : new[j] = i
       /\ \A j \in (first + 1)..end : new[j] \in Live(names)
  <2>1. Extended(Live(names), rank, Orgs, list, old, first, new, end)
    BY <1>5, <1>7, <1>9, <1>12, Zenon DEF Extended
  <2>2. Continued(Live(names), rank, first, new, end)
    BY <1>11, <2>1, Appended
  <2>. QED BY <2>2 DEF Continued
<1>14. Sorted(new)
  BY <1>8, <1>13 DEF Sorted
<1>15. Within(new, Len(names))
  <2>1. \A j \in 1..end : j \in 1..first \/ j \in (first + 1)..end
    BY <1>4, <1>5, <1>7
  <2>2. \A i \in Live(names) : i <= Len(names)
    BY <1>2
  <2>. QED BY <1>1, <1>8, <1>9, <1>13, <2>1, <2>2 DEF Within
<1>16. Covers(new, first, end)
  BY <1>8, <1>11, <1>13 DEF Covers, Contains
<1>17. \A i : Contains(old, i) => Contains(new, i)
  <2>1. \A j \in 1..first : j \in 1..end
    BY <1>4, <1>5, <1>7
  <2>. QED BY <1>8, <1>9, <2>1 DEF Contains
<1>18. Before(new, end)
  BY <1>8, <1>11, <1>13 DEF Before
<1>. QED BY <1>8, <1>14, <1>15, <1>16, <1>17, <1>18 DEF ReadTo

-----------------------------------------------------------------------------
(* What others do to the list.                                             *)

\* Others add an organization after all the others, rename one, or remove one.
LEMMA GatewayEffect ==
  ASSUME Types, Gateway
  PROVE  \/ Live(names') = Live(names) \cup {Len(names) + 1} /\ Len(names') = Len(names) + 1
         \/ Live(names') = Live(names) /\ Len(names') = Len(names)
         \/ \E i \in Live(names) : Live(names') = Live(names) \ {i} /\ Len(names') = Len(names)
<1>0. /\ names \in Seq(Names \cup {Gone}) /\ Len(names) \in Nat /\ DOMAIN names = 1..Len(names)
      /\ Gone \notin Names
  BY ReadsAssumption DEF Types
<1>1. ASSUME NEW n \in Names, AddOrg(n)
      PROVE  Live(names') = Live(names) \cup {Len(names) + 1} /\ Len(names') = Len(names) + 1
  <2>1. /\ Len(names') = Len(names) + 1 /\ DOMAIN names' = 1..(Len(names) + 1)
        /\ \A i \in 1..Len(names) : names'[i] = names[i]
        /\ names'[Len(names) + 1] = n
    BY <1>0, <1>1, AppendProperties DEF AddOrg
  <2>2. 1..(Len(names) + 1) = 1..Len(names) \cup {Len(names) + 1}
    BY <1>0
  <2>. QED BY <1>0, <2>1, <2>2 DEF Live
<1>2. ASSUME NEW n \in Names, NEW i \in Ids, RenameOrg(i, n)
      PROVE  Live(names') = Live(names) /\ Len(names') = Len(names)
  <2>1. i \in DOMAIN names /\ names[i] # Gone /\ names' = [names EXCEPT ![i] = n]
    BY <1>2 DEF RenameOrg, Live
  <2>2. names' \in Seq(Names \cup {Gone}) /\ Len(names') = Len(names)
    BY <1>0, <2>1, ExceptSeq
  <2>. QED BY <1>0, <2>1, <2>2 DEF Live
<1>3. ASSUME NEW i \in Ids, RemoveOrg(i)
      PROVE  i \in Live(names) /\ Live(names') = Live(names) \ {i} /\ Len(names') = Len(names)
  <2>1. i \in Live(names) /\ i \in DOMAIN names /\ names' = [names EXCEPT ![i] = Gone]
    BY <1>3 DEF RemoveOrg, Live
  <2>2. names' \in Seq(Names \cup {Gone}) /\ Len(names') = Len(names)
    BY <1>0, <2>1, ExceptSeq
  <2>. QED BY <1>0, <2>1, <2>2 DEF Live
<1>. QED BY <1>1, <1>2, <1>3 DEF Gateway

\* What stays on the list moves up at most, and only when something is removed.
LEMMA RankStep ==
  ASSUME Types, Gateway
  PROVE  /\ Orgs \in Nat /\ Orgs' \in Nat /\ Len(names) \in Nat /\ Len(names') \in Nat
         /\ Live(names) \subseteq 1..Len(names)
         /\ Len(names) <= Len(names')
         /\ Orgs' <= Orgs + 1 /\ (~(Len(names') > Len(names)) => Orgs' <= Orgs)
         /\ \A i \in Live(names') : i \in Live(names) \/ i = Len(names) + 1
         /\ \A i \in Live(names) : Rank(i) \in Nat
         /\ \A i \in Live(names) : i \in Live(names') =>
              /\ Rank(i)' \in Nat
              /\ Rank(i)' <= Rank(i)
         /\ Live(names) \subseteq Live(names') => \A i \in Live(names) : Rank(i)' = Rank(i)
<1>1. names \in Seq(Names \cup {Gone}) /\ names' \in Seq(Names \cup {Gone})
  BY GatewayTypes DEF Types
<1>2. /\ Live(names) \subseteq 1..Len(names) /\ IsFiniteSet(Live(names)) /\ Orgs \in Nat
      /\ IsFiniteSet(Live(names')) /\ Cardinality(Live(names')) \in Nat
      /\ Len(names) \in Nat /\ Len(names') \in Nat
  BY <1>1, LiveFinite DEF Orgs
<1>3. Orgs' = Cardinality(Live(names'))
  BY DEF Orgs
<1>4. /\ Len(names) <= Len(names')
      /\ Orgs' <= Orgs + 1 /\ (~(Len(names') > Len(names)) => Orgs' <= Orgs)
      /\ \A i \in Live(names') : i \in Live(names) \/ i = Len(names) + 1
  <2>1. CASE Live(names') = Live(names) \cup {Len(names) + 1} /\ Len(names') = Len(names) + 1
    <3>1. Cardinality(Live(names')) <= Cardinality(Live(names)) + 1
      BY <1>2, <2>1, FS_AddElement DEF Orgs
    <3>. QED BY <1>2, <1>3, <2>1, <3>1 DEF Orgs
  <2>2. CASE Live(names') \subseteq Live(names) /\ Len(names') = Len(names)
    <3>1. Cardinality(Live(names')) <= Cardinality(Live(names))
      BY <1>2, <2>2, FS_Subset
    <3>. QED BY <1>2, <1>3, <2>2, <3>1 DEF Orgs
  <2>. QED BY <2>1, <2>2, GatewayEffect
<1>5. ASSUME NEW i \in Live(names)
      PROVE  /\ Rank(i) \in Nat /\ Rank(i)' \in Nat /\ Rank(i)' <= Rank(i)
             /\ Live(names) \subseteq Live(names') => Rank(i)' = Rank(i)
  <2> DEFINE below == {j \in Live(names) : j < i}
             belowNext == {j \in Live(names') : j < i}
  <2>1. Rank(i) = Cardinality(below) /\ Rank(i)' = Cardinality(belowNext)
    BY DEF Rank
  <2>2. i \in Nat /\ ~(Len(names) + 1 < i)
    BY <1>2
  <2>3. belowNext \subseteq below /\ (Live(names) \subseteq Live(names') => below = belowNext)
    BY <1>4, <2>2
  <2>4. IsFiniteSet(below)
    BY <1>2, FS_Subset
  <2> HIDE DEF below, belowNext
  <2>5. Cardinality(below) \in Nat /\ Cardinality(belowNext) \in Nat /\ Cardinality(belowNext) <= Cardinality(below)
    BY <2>3, <2>4, FS_Subset, FS_CardinalityType
  <2>. QED BY <2>1, <2>3, <2>5
<1>. QED BY <1>2, <1>3, <1>4, <1>5

-----------------------------------------------------------------------------
(* The inductive invariant of the searches.                                *)

\* The types that searches need.
SearchTypes ==
  /\ shutdownRequested \in BOOLEAN
  /\ page \in [Calls -> Nat]
  /\ stayed \in [Calls -> SUBSET Nat]
  /\ shrunk \in [Calls -> BOOLEAN]
  /\ grown \in [Calls -> Nat]

\* A search between two pages has read full pages.  The rest of the list comes
\* after what it has read, the list is as long as the cap and the additions
\* allow, and unless something was removed, what stayed and is not in the rest
\* has been read.
Turning(r) ==
  /\ page[r] # 0 /\ Len(got[r]) = Full(page[r] - 1)
  /\ Before(got[r], Len(got[r]))
  /\ Orgs <= MaxObjects + grown[r]
  /\ ~shrunk[r] => \A i \in stayed[r] : Rank(i) < Len(got[r]) => Contains(got[r], i)

\* A search that has ended has read all that stayed, and no more than the cap
\* and the additions allow.
Finished(r) ==
  /\ Len(got[r]) <= MaxObjects + grown[r]
  /\ ~shrunk[r] => \A i \in stayed[r] : Contains(got[r], i)

Searching(r) ==
  /\ ~LooksUp(r) => got[r] \in Seq(Ids) /\ Sorted(got[r]) /\ Within(got[r], Len(names))
  /\ Running(r) /\ Searches(r) => stayed[r] \subseteq Live(names)
  /\ pc[r] = "turn" => Searches(r) /\ Turning(r)
  /\ Searches(r) /\ pc[r] = "done" => Finished(r)

SearchInv == Invariant /\ SearchTypes /\ \A r \in Calls : Searching(r)

\* A call is a look-up or not, and begins as such.
LEMMA Kind ==
  ASSUME Types, NEW r \in Calls
  PROVE  /\ LooksUp(r) <=> query[r].kind \notin {"search", "list"}
         /\ Searches(r) => ~LooksUp(r)
<1>1. query[r] \in AllQueries
  BY DEF Types
<1>2. query[r].kind \in {"ids", "names", "resource", "search", "list"}
  BY <1>1 DEF AllQueries
<1>. QED BY <1>2 DEF LooksUp, Searches

\* Nothing read yet.
LEMMA NothingRead ==
  /\ <<>> \in Seq(Ids) /\ Sorted(<<>>) /\ Len(<<>>) = 0
  /\ \A m : Within(<<>>, m) /\ Before(<<>>, m)
  /\ \A s \in Seq(Ids) : <<>> \o s = s
BY EmptySeq, ConcatEmptySeq DEF Sorted, Within, Before

\* One call's step leaves the searches of the others alone.
LEMMA OthersSearch ==
  ASSUME Types, SearchTypes, NEW r \in Calls, HistoryCall(r)
  PROVE  /\ SearchTypes'
         /\ \A q \in Calls : q # r => page'[q] = page[q] /\ stayed'[q] = stayed[q]
         /\ stayed'[r] = IF pc[r] = "idle" /\ Searches(r) THEN Live(names) ELSE stayed[r]
<1>1. UNCHANGED shutdownRequested
  BY Others DEF HistoryCall
<1>2. UNCHANGED <<shrunk, grown>>
  BY DEF HistoryCall
<1>3. /\ stayed' \in [Calls -> SUBSET Nat]
      /\ \A q \in Calls : q # r => stayed'[q] = stayed[q]
      /\ stayed'[r] = IF pc[r] = "idle" /\ Searches(r) THEN Live(names) ELSE stayed[r]
  <2>1. Live(names) \subseteq Nat
    BY LiveFinite DEF Types
  <2>. QED BY <2>1 DEF HistoryCall, SearchTypes
<1>4. page' \in [Calls -> Nat] /\ \A q \in Calls : q # r => page'[q] = page[q]
  <2>1. ASSUME NEW k \in Nat, Turn(r, k)
        PROVE  page' \in [Calls -> Nat] /\ \A q \in Calls : q # r => page'[q] = page[q]
    BY <2>1 DEF Turn, NextPage, SearchTypes
  <2>2. ASSUME NEW from, Raise(r, from)
        PROVE  page' \in [Calls -> Nat] /\ \A q \in Calls : q # r => page'[q] = page[q]
    BY <2>2 DEF Raise, SearchTypes
  <2>3. page[r] \in Nat
    BY DEF SearchTypes
  <2>4. CASE UNCHANGED page
    BY <2>4 DEF SearchTypes
  <2>. QED BY <2>1, <2>2, <2>3, <2>4
       DEF HistoryCall, Call, Begin, Hit, Miss, Answer, Ask, AskFails, Store, FirstPage, TooMany, FollowPage, PageFails
<1>. QED BY <1>1, <1>2, <1>3, <1>4 DEF SearchTypes

\* A search of one call does not depend on the other calls.
LEMMA SearchFrame ==
  ASSUME UNCHANGED <<names, query, shrunk, grown>>, NEW q \in Calls,
         pc'[q] = pc[q], got'[q] = got[q], page'[q] = page[q], stayed'[q] = stayed[q], Searching(q)
  PROVE  Searching(q)'
BY DEF Searching, Turning, Finished, LooksUp, Searches, Running, Sorted, Within, Contains, Before, Rank, Orgs, Full

\* The list is the same when the names are.
LEMMA ListFrame ==
  ASSUME UNCHANGED names
  PROVE  Live(names') = Live(names) /\ Orgs' = Orgs /\ \A i : Rank(i)' = Rank(i)
BY DEF Orgs, Rank

\* A search reads page k after the pages before it, and turns to the next one
\* or ends.
LEMMA PageRead ==
  ASSUME Types, SearchTypes, NEW r \in Calls, Searches(r),
         NEW k \in Nat \ {0}, k = 1 \/ Full(k - 1) < Orgs,
         NEW old, ReadTo(old, Full(k - 1)),
         Orgs <= MaxObjects + grown[r], stayed[r] \subseteq Live(names),
         ~shrunk[r] => \A i \in stayed[r] : Rank(i) < Full(k - 1) => Contains(old, i),
         UNCHANGED <<names, query, shrunk, grown>>, stayed'[r] = stayed[r],
         got'[r] = old \o Page(k), Turn(r, k)
  PROVE  Searching(r)'
<1>1. /\ names \in Seq(Names \cup {Gone}) /\ Orgs \in Nat /\ Len(Listed) = Orgs
      /\ \A i \in Live(names) : Rank(i) \in Nat /\ Rank(i) < Orgs
  BY ListedSorted, RankOrder DEF Types
<1>2. PICK first, end, new :
        /\ first \in Nat /\ first = Full(k - 1)
        /\ end \in Nat
        /\ end = IF Full(k) < Orgs THEN Full(k) ELSE Orgs
        /\ new = old \o Page(k)
  BY <1>1, FullNat
<1>3. /\ ReadTo(new, end)
      /\ Covers(new, first, end)
      /\ \A i : Contains(old, i) => Contains(new, i)
  BY <1>2, PageAppended
<1>4. new \in Seq(Ids) /\ Sorted(new) /\ Len(new) = end /\ Within(new, Len(names)) /\ Before(new, end)
  BY <1>3 DEF ReadTo
<1>5. got'[r] = new /\ Searches(r)' /\ ~LooksUp(r)' /\ UNCHANGED <<names, grown, shrunk>>
  BY <1>2, Kind DEF Searches, LooksUp
<1>6. ~shrunk[r] => \A i \in stayed[r] : Rank(i) < end => Contains(new, i)
  <2> SUFFICES ASSUME ~shrunk[r], NEW i \in stayed[r], Rank(i) < end
               PROVE  Contains(new, i)
    OBVIOUS
  <2>1. i \in Live(names) /\ Rank(i) \in Nat
    BY <1>1
  <2>2. CASE first <= Rank(i)
    BY <1>3, <2>1, <2>2 DEF Covers
  <2>3. CASE Rank(i) < first
    BY <1>2, <1>3, <2>3
  <2>. QED BY <1>2, <2>1, <2>2, <2>3
<1>7. Before(new, end)'
  BY <1>4, <1>5, ListFrame DEF Before
<1>8. /\ page'[r] = IF Full(k) < Orgs THEN k + 1 ELSE 0
      /\ pc'[r] = IF Full(k) < Orgs THEN "turn" ELSE "done"
  <2>1. NextPage(k) = IF Full(k) < Orgs THEN k + 1 ELSE 0
    BY <1>1 DEF NextPage, Full
  <2>2. page'[r] = NextPage(k) /\ pc'[r] = IF NextPage(k) = 0 THEN "done" ELSE "turn"
    BY DEF Turn, SearchTypes, Types
  <2>3. k + 1 # 0
    OBVIOUS
  <2>. QED BY <2>1, <2>2, <2>3
<1>9. CASE Full(k) < Orgs
  <2>1. page'[r] = k + 1 /\ pc'[r] = "turn" /\ end = Full(k)
    BY <1>2, <1>8, <1>9
  <2>2. k + 1 # 0 /\ (k + 1) - 1 = k
    OBVIOUS
  <2>3. page'[r] # 0 /\ Len(got'[r]) = Full(page'[r] - 1)
    BY <1>4, <1>5, <2>1, <2>2 DEF Full
  <2>4. Before(got[r], Len(got[r]))'
    BY <1>4, <1>5, <1>7 DEF Before
  <2>5. (Orgs <= MaxObjects + grown[r])'
    BY <1>5, ListFrame
  <2>6. (~shrunk[r] => \A i \in stayed[r] : Rank(i) < Len(got[r]) => Contains(got[r], i))'
    BY <1>4, <1>5, <1>6, ListFrame DEF Contains
  <2>. QED BY <1>4, <1>5, <2>1, <2>3, <2>4, <2>5, <2>6, ListFrame DEF Searching, Turning, Sorted, Within, Before, Full
<1>10. CASE ~(Full(k) < Orgs)
  <2>1. pc'[r] = "done" /\ end = Orgs
    BY <1>2, <1>8, <1>10
  <2>2. Len(got'[r]) <= MaxObjects + grown'[r]
    BY <1>4, <1>5, <2>1
  <2>3. ~shrunk'[r] => \A i \in stayed'[r] : Contains(got'[r], i)
    BY <1>1, <1>5, <1>6, <2>1
  <2>. QED BY <1>4, <1>5, <2>1, <2>2, <2>3, ListFrame DEF Searching, Finished, Sorted, Within, Contains, Running
<1>. QED BY <1>9, <1>10

\* A search that an exception ends has read nothing.
LEMMA RaisedSearch ==
  ASSUME SearchTypes, Types, NEW r \in Calls, NEW from, Raise(r, from)
  PROVE  Searching(r)'
<1>1. got'[r] = <<>> /\ pc'[r] = "raised"
  BY DEF Raise, Become, Types
<1>. QED BY <1>1, NothingRead DEF Searching, Running, Sorted, Within

\* The first page is part of the list, in its order.
LEMMA FirstPageRead ==
  ASSUME Types
  PROVE  /\ Page(1) \in Seq(Ids) /\ Sorted(Page(1)) /\ Within(Page(1), Len(names))
         /\ <<>> \o Page(1) = Page(1)
<1>1. 1 \in Nat \ {0} /\ Full(1 - 1) = 0
  BY FullNat
<1>2. Full(1) \in Nat /\ Orgs \in Nat
  BY <1>1, FullNat, ListedSorted DEF Types
<1>3. PICK first \in Nat : first = Full(1 - 1)
  BY <1>1
<1>4. PICK end \in Nat : end = IF Full(1) < Orgs THEN Full(1) ELSE Orgs
  BY <1>2
<1>5. PICK new : new = <<>> \o Page(1)
  OBVIOUS
<1>6. ReadTo(<<>>, first)
  BY <1>1, <1>3, NothingRead DEF ReadTo
<1>7. ReadTo(new, end)
  BY <1>1, <1>3, <1>4, <1>5, <1>6, PageAppended
<1>8. Page(1) \in Seq(Ids)
  BY <1>1, <1>4, PageHolds
<1>9. new = Page(1)
  BY <1>5, <1>8, NothingRead
<1>. QED BY <1>5, <1>7, <1>8, <1>9 DEF ReadTo

\* Every step of a call keeps what is said of its search.
LEMMA OwnSearch ==
  ASSUME SearchInv, NEW r \in Calls, HistoryCall(r)
  PROVE  Searching(r)'
<1>1. Types /\ SearchTypes /\ Searching(r) /\ Progress(r) /\ Call(r)
  BY DEF SearchInv, Invariant, ProgressInv, HistoryCall
<1>2. UNCHANGED <<names, query, shrunk, grown>>
  BY <1>1, Others DEF HistoryCall
<1>3. stayed'[r] = IF pc[r] = "idle" /\ Searches(r) THEN Live(names) ELSE stayed[r]
  BY <1>1, OthersSearch
<1>4. CASE Begin(r)
  <2>1. pc[r] = "idle" /\ pc'[r] \in {"look", "page"} /\ got'[r] = <<>>
    BY <1>1, <1>4 DEF Begin, Become, Types, Progress
  <2>2. Searches(r)' => stayed'[r] \subseteq Live(names')
    BY <1>2, <1>3, <2>1 DEF Searches
  <2>. QED BY <2>1, <2>2, NothingRead DEF Searching, Sorted, Within
<1>5. CASE pc[r] \in {"look", "ask", "store"} /\ pc'[r] \in {"look", "ask", "store", "done"}
  <2>1. LooksUp(r)' /\ ~Searches(r)'
    BY <1>1, <1>2, <1>5, Kind DEF Progress, LooksUp, Searches
  <2>. QED BY <1>5, <2>1 DEF Searching
<1>6. CASE Hit(r) \/ Miss(r) \/ Ask(r) \/ Store(r)
  <2>1. pc[r] \in {"look", "ask", "store"} /\ pc'[r] \in {"look", "ask", "store", "done"}
    BY <1>1, <1>6 DEF Hit, Miss, Ask, Store, Answer, Become, Types
  <2>. QED BY <1>5, <2>1
<1>7. CASE \E from : Raise(r, from)
  BY <1>1, <1>7, RaisedSearch
<1>8. CASE FirstPage(r) /\ query[r].kind = "list"
  <2>1. got'[r] = Page(1) /\ pc'[r] = "done"
    BY <1>1, <1>8 DEF FirstPage, Types
  <2>2. ~Searches(r)'
    BY <1>2, <1>8 DEF Searches
  <2>3. Page(1) \in Seq(Ids) /\ Sorted(Page(1)) /\ Within(Page(1), Len(names))
    BY <1>1, FirstPageRead
  <2>. QED BY <1>2, <2>1, <2>2, <2>3 DEF Searching, Running, Sorted, Within
<1>9. CASE FirstPage(r) /\ query[r].kind = "search"
  <2>1. /\ pc[r] = "page" /\ Searches(r) /\ Turn(r, 1) /\ ~(Len(Listed) > MaxObjects)
        /\ got'[r] = Page(1)
    BY <1>1, <1>9 DEF FirstPage, Types, Exceeds, Searches
  <2>2. stayed'[r] = stayed[r] /\ stayed[r] \subseteq Live(names)
    BY <1>1, <1>3, <2>1 DEF Searching, Running
  <2>3. Orgs \in Nat /\ Len(Listed) = Orgs /\ \A i \in Live(names) : Rank(i) \in Nat
    BY <1>1, ListedSorted, RankOrder DEF Types
  <2>4. grown[r] \in Nat /\ MaxObjects \in Nat
    BY <1>1, ReadsAssumption DEF SearchTypes
  <2>5. Orgs <= MaxObjects + grown[r]
    BY <2>1, <2>3, <2>4
  <2>6. Full(1 - 1) = 0 /\ ReadTo(<<>>, Full(1 - 1))
    BY NothingRead, FullNat DEF ReadTo
  <2>7. ~shrunk[r] => \A i \in stayed[r] : Rank(i) < Full(1 - 1) => Contains(<<>>, i)
    BY <2>2, <2>3, <2>6
  <2>8. got'[r] = <<>> \o Page(1)
    BY <1>1, <2>1, FirstPageRead
  <2>9. 1 \in Nat \ {0}
    OBVIOUS
  <2>. QED BY <1>1, <1>2, <2>1, <2>2, <2>5, <2>6, <2>7, <2>8, <2>9, PageRead
<1>10. CASE FollowPage(r)
  <2>1. /\ pc[r] = "turn" /\ Turn(r, page[r]) /\ (page[r] - 1) * PageSize < Len(Listed)
        /\ got'[r] = got[r] \o Page(page[r])
    BY <1>1, <1>10 DEF FollowPage, Types
  <2>2. Searches(r) /\ Turning(r) /\ stayed'[r] = stayed[r] /\ stayed[r] \subseteq Live(names)
    BY <1>1, <1>3, <2>1 DEF Searching, Running
  <2>3. page[r] \in Nat \ {0}
    BY <1>1, <2>2 DEF SearchTypes, Turning
  <2>4. Len(Listed) = Orgs
    BY <1>1, ListedSorted DEF Types
  <2>5. Full(page[r] - 1) < Orgs
    BY <2>1, <2>4 DEF Full
  <2>6. got[r] \in Seq(Ids) /\ Sorted(got[r]) /\ Within(got[r], Len(names))
    BY <1>1, <2>2, Kind DEF Searching
  <2>7. ReadTo(got[r], Full(page[r] - 1))
    BY <2>2, <2>6 DEF ReadTo, Turning
  <2>8. /\ Orgs <= MaxObjects + grown[r]
        /\ ~shrunk[r] => \A i \in stayed[r] : Rank(i) < Full(page[r] - 1) => Contains(got[r], i)
    BY <2>2 DEF Turning
  <2>. QED BY <1>1, <1>2, <2>1, <2>2, <2>3, <2>5, <2>7, <2>8, PageRead
<1>11. CASE AskFails(r) \/ TooMany(r) \/ PageFails(r)
  BY <1>7, <1>11 DEF AskFails, TooMany, PageFails
<1>12. FirstPage(r) => query[r].kind \in {"list", "search"}
  BY DEF FirstPage
<1>. QED BY <1>1, <1>4, <1>6, <1>8, <1>9, <1>10, <1>11, <1>12 DEF Call

\* A step of any call keeps what is said of all searches.
LEMMA SearchCallKeeps ==
  ASSUME SearchInv, NEW r \in Calls, HistoryCall(r)
  PROVE  SearchTypes' /\ \A q \in Calls : Searching(q)'
<1>1. Types /\ SearchTypes /\ Call(r) /\ \A q \in Calls : Searching(q)
  BY DEF SearchInv, Invariant, HistoryCall
<1>2. UNCHANGED <<names, query, shrunk, grown>>
  BY <1>1, Others DEF HistoryCall
<1>3. ASSUME NEW q \in Calls, q # r
      PROVE  Searching(q)'
  BY <1>1, <1>2, <1>3, Others, OthersSearch, SearchFrame
<1>. QED BY <1>1, <1>3, OthersSearch, OwnSearch

\* What others do to the organizations keeps what is said of the searches.
LEMMA SearchGatewayKeeps ==
  ASSUME SearchInv, HistoryGateway
  PROVE  SearchTypes' /\ \A r \in Calls : Searching(r)'
<1>1. Types /\ SearchTypes /\ Gateway /\ \A r \in Calls : Searching(r)
  BY DEF SearchInv, Invariant, HistoryGateway
<1>2. UNCHANGED <<caches, query, pc, got, page>>
  BY <1>1, GatewayFrame
<1>3. /\ stayed' = [r \in Calls |-> IF Running(r) THEN stayed[r] \cap Live(names') ELSE stayed[r]]
      /\ shrunk' = [r \in Calls |-> shrunk[r] \/ (Running(r) /\ Searches(r) /\ ~(Live(names) \subseteq Live(names')))]
      /\ grown' = [r \in Calls |-> IF Running(r) /\ Searches(r) /\ Len(names') > Len(names) THEN grown[r] + 1 ELSE grown[r]]
  BY DEF HistoryGateway
<1>4. SearchTypes'
  BY <1>1, <1>2, <1>3 DEF SearchTypes, caches
<1>. SUFFICES ASSUME NEW r \in Calls PROVE Searching(r)'
  BY <1>4
<1>5. /\ pc'[r] = pc[r] /\ got'[r] = got[r] /\ page'[r] = page[r]
      /\ LooksUp(r)' = LooksUp(r) /\ Searches(r)' = Searches(r) /\ Running(r)' = Running(r)
  BY <1>2 DEF LooksUp, Searches, Running
<1>6. /\ stayed'[r] = IF Running(r) THEN stayed[r] \cap Live(names') ELSE stayed[r]
      /\ shrunk'[r] <=> shrunk[r] \/ (Running(r) /\ Searches(r) /\ ~(Live(names) \subseteq Live(names')))
      /\ grown'[r] = IF Running(r) /\ Searches(r) /\ Len(names') > Len(names) THEN grown[r] + 1 ELSE grown[r]
  BY <1>3
<1>7. ~LooksUp(r) => got'[r] \in Seq(Ids) /\ Sorted(got'[r]) /\ Within(got'[r], Len(names'))
  <2> SUFFICES ASSUME ~LooksUp(r)
               PROVE  got'[r] \in Seq(Ids) /\ Sorted(got'[r]) /\ Within(got'[r], Len(names'))
    OBVIOUS
  <2>1. got[r] \in Seq(Ids) /\ Sorted(got[r]) /\ Within(got[r], Len(names))
    BY <1>1 DEF Searching
  <2>2. \A j \in DOMAIN got[r] : got[r][j] \in Nat
    BY <2>1, ReadsAssumption DEF Ids
  <2>3. Len(names) \in Nat /\ Len(names') \in Nat /\ Len(names) <= Len(names')
    BY <1>1, RankStep
  <2>4. Within(got[r], Len(names'))
    BY <2>1, <2>2, <2>3 DEF Within
  <2>. QED BY <1>5, <2>1, <2>4
<1>8. Running(r) /\ Searches(r) => stayed'[r] \subseteq Live(names')
  BY <1>6
<1>9. pc[r] = "turn" => Searches(r) /\ Turning(r)'
  <2> SUFFICES ASSUME pc[r] = "turn"
               PROVE  Searches(r) /\ Turning(r)'
    OBVIOUS
  <2>1. Searches(r) /\ Turning(r) /\ Running(r) /\ ~LooksUp(r) /\ stayed[r] \subseteq Live(names)
    BY <1>1, Kind DEF Searching, Running
  <2>2. got[r] \in Seq(Ids) /\ Within(got[r], Len(names))
    BY <1>1, <2>1 DEF Searching
  <2>3. PICK m : m = Len(got[r])
    OBVIOUS
  <2>4. m \in Nat
    BY <2>2, <2>3
  <2>5. Before(got[r], m)'
    <3> SUFFICES ASSUME NEW i \in Live(names'), Rank(i)' >= m, NEW j \in DOMAIN got[r]
                 PROVE  got[r][j] < i
      BY <1>5, <2>4 DEF Before
    <3>1. CASE i \in Live(names)
      <4>1. Rank(i) \in Nat /\ Rank(i)' \in Nat /\ Rank(i)' <= Rank(i)
        BY <1>1, <3>1, RankStep
      <4>2. Rank(i) >= m
        BY <2>4, <4>1
      <4>. QED BY <2>1, <2>3, <3>1, <4>2 DEF Turning, Before
    <3>2. CASE i = Len(names) + 1
      <4>1. Len(names) \in Nat /\ got[r][j] \in Nat /\ got[r][j] <= Len(names)
        BY <1>1, <2>2, RankStep, ReadsAssumption DEF Within, Ids
      <4>. QED BY <3>2, <4>1
    <3>. QED BY <1>1, <3>1, <3>2, RankStep
  <2>6. Orgs' <= MaxObjects + grown'[r]
    <3>1. Orgs \in Nat /\ Orgs' \in Nat /\ grown[r] \in Nat /\ MaxObjects \in Nat
      BY <1>1, RankStep, ReadsAssumption DEF SearchTypes
    <3>2. Orgs' <= Orgs + 1 /\ (~(Len(names') > Len(names)) => Orgs' <= Orgs)
      BY <1>1, RankStep
    <3>3. Orgs <= MaxObjects + grown[r]
      BY <2>1 DEF Turning
    <3>4. grown'[r] = IF Len(names') > Len(names) THEN grown[r] + 1 ELSE grown[r]
      BY <1>6, <2>1
    <3>. QED BY <3>1, <3>2, <3>3, <3>4
  <2>7. ASSUME ~shrunk'[r], NEW i \in stayed'[r], Rank(i)' < m
        PROVE  Contains(got[r], i)
    <3>1. ~shrunk[r] /\ i \in stayed[r] /\ i \in Live(names) /\ Live(names) \subseteq Live(names')
      BY <1>6, <2>1, <2>7
    <3>2. Rank(i)' = Rank(i)
      BY <1>1, <3>1, RankStep
    <3>3. Rank(i) < Len(got[r])
      BY <2>3, <2>7, <3>2
    <3>. QED BY <2>1, <3>1, <3>3 DEF Turning
  <2>8. page'[r] # 0 /\ Len(got'[r]) = Full(page'[r] - 1)
    BY <1>5, <2>1 DEF Turning
  <2>. QED BY <1>5, <2>1, <2>3, <2>5, <2>6, <2>7, <2>8 DEF Turning, Contains, Full
<1>10. Searches(r) /\ pc[r] = "done" => Finished(r)'
  <2> SUFFICES ASSUME Searches(r), pc[r] = "done"
               PROVE  Finished(r)'
    OBVIOUS
  <2>1. ~Running(r) /\ Finished(r)
    BY <1>1 DEF Searching, Running
  <2>2. stayed'[r] = stayed[r] /\ grown'[r] = grown[r] /\ (shrunk'[r] <=> shrunk[r])
    BY <1>6, <2>1
  <2>. QED BY <1>5, <2>1, <2>2 DEF Finished, Contains
<1>. QED BY <1>5, <1>7, <1>8, <1>9, <1>10 DEF Searching, Sorted, Within

\* The shutdown ends look-ups only.
LEMMA SearchShutdownKeeps ==
  ASSUME SearchInv, HistoryShutdown
  PROVE  SearchTypes' /\ \A r \in Calls : Searching(r)'
<1>1. Types /\ SearchTypes /\ ProgressInv /\ Shutdown /\ \A r \in Calls : Searching(r)
  BY DEF SearchInv, Invariant, HistoryShutdown
<1>2. UNCHANGED <<names, query, page, stayed, shrunk, grown>> /\ shutdownRequested' = TRUE
  BY <1>1 DEF HistoryShutdown, Shutdown
<1>3. SearchTypes'
  BY <1>1, <1>2 DEF SearchTypes
<1>4. ASSUME NEW r \in Calls
      PROVE  Searching(r)'
  <2>1. \/ pc'[r] = pc[r] /\ got'[r] = got[r]
        \/ pc[r] = "look" /\ pc'[r] = "raised" /\ got'[r] = <<>>
    BY <1>1 DEF Shutdown, HasHit
  <2>2. CASE pc'[r] = pc[r] /\ got'[r] = got[r]
    BY <1>1, <1>2, <2>2, SearchFrame
  <2>3. CASE pc'[r] = "raised" /\ got'[r] = <<>>
    BY <2>3, NothingRead DEF Searching, Running, Sorted, Within
  <2>. QED BY <2>1, <2>2, <2>3
<1>. QED BY <1>3, <1>4

\* The invariant of the searches holds at first, before any search has begun.
LEMMA SearchInit == HistoryInit => SearchInv
<1> SUFFICES ASSUME HistoryInit PROVE SearchInv
  OBVIOUS
<1>1. SearchTypes
  BY DEF HistoryInit, Init, SearchTypes
<1>2. ASSUME NEW r \in Calls
      PROVE  Searching(r)
  <2>1. pc[r] = "idle" /\ got[r] = <<>>
    BY DEF HistoryInit, Init
  <2>. QED BY <2>1, NothingRead DEF Searching, Running
<1>. QED BY <1>1, <1>2, InvariantInit DEF SearchInv

\* Every step keeps the invariant of the searches.
LEMMA SearchStep == SearchInv /\ [HistoryNext]_historyVars => SearchInv'
<1> SUFFICES ASSUME SearchInv, [HistoryNext]_historyVars PROVE SearchInv'
  OBVIOUS
<1>1. Invariant'
  BY InvariantStep DEF SearchInv
<1>2. CASE UNCHANGED historyVars
  <2>1. SearchTypes /\ \A r \in Calls : Searching(r)
    BY DEF SearchInv
  <2>2. UNCHANGED <<names, query, pc, got, page, shutdownRequested, stayed, shrunk, grown>>
    BY <1>2 DEF historyVars, readVars
  <2>3. SearchTypes' /\ \A r \in Calls : Searching(r)'
    BY <2>1, <2>2, SearchFrame DEF SearchTypes
  <2>. QED BY <1>1, <2>3 DEF SearchInv
<1>3. CASE HistoryNext
  <2>1. SearchTypes' /\ \A r \in Calls : Searching(r)'
    BY <1>3, SearchCallKeeps, SearchGatewayKeeps, SearchShutdownKeeps DEF HistoryNext
  <2>. QED BY <1>1, <2>1 DEF SearchInv
<1>. QED BY <1>2, <1>3

\* For any number of RPCs, of organizations and of names in a list: every
\* variable stays within its type, what a search has read included.
THEOREM TypeCorrect == HistorySpec => []TypeOK
<1>1. SearchInv => TypeOK
  <2> SUFFICES ASSUME SearchInv PROVE TypeOK
    OBVIOUS
  <2>1. Types /\ SearchTypes /\ \A r \in Calls : Searching(r)
    BY DEF SearchInv, Invariant
  <2>2. ASSUME NEW r \in Calls
        PROVE  got[r] \in Seq(Names \cup Ids)
    <3>1. Seq(Ids) \subseteq Seq(Names \cup Ids)
      BY SeqMonotonic
    <3>. QED BY <2>1, <3>1 DEF Types, Searching
  <2>3. got \in [Calls -> Seq(Names \cup Ids)]
    BY <2>1, <2>2 DEF Types
  <2>. QED BY <2>1, <2>3 DEF TypeOK, Types, SearchTypes
<1>. QED BY <1>1, SearchInit, SearchStep, PTL DEF HistorySpec

\* For pages of any size and whatever others add, rename and remove while a
\* search turns them: it lists no organization twice, and in the order of the
\* ids (platform_manager.py:1174-1182).
THEOREM SearchesRepeatNothing == HistorySpec => []SearchRepeatsNothing
<1>1. SearchInv => SearchRepeatsNothing
  <2> SUFFICES ASSUME SearchInv, NEW r \in Calls, Searches(r)
               PROVE  \A j, k \in DOMAIN got[r] : j < k => got[r][j] < got[r][k]
    BY DEF SearchRepeatsNothing
  <2>1. Sorted(got[r])
    BY Kind DEF SearchInv, Invariant, Searching
  <2>. QED BY <2>1 DEF Sorted
<1>. QED BY <1>1, SearchInit, SearchStep, PTL DEF HistorySpec

\* For pages of any size: a search during which nothing was removed lists every
\* organization that was there all along (platform_manager.py:1174-1182).
THEOREM SearchesMissNothing == HistorySpec => []SearchMissesNothing
<1>1. SearchInv => SearchMissesNothing
  <2> SUFFICES ASSUME SearchInv, NEW r \in Calls, Searches(r), pc[r] = "done", ~shrunk[r],
                      NEW i \in stayed[r]
               PROVE  i \in {got[r][k] : k \in DOMAIN got[r]}
    BY DEF SearchMissesNothing
  <2>1. Contains(got[r], i)
    BY DEF SearchInv, Searching, Finished
  <2>. QED BY <2>1 DEF Contains
<1>. QED BY <1>1, SearchInit, SearchStep, PTL DEF HistorySpec

\* For any cap: a search passes max_objects by no more organizations than were
\* added while it ran (platform_manager.py:1175-1177).
THEOREM OverrunsAreGrowth == HistorySpec => []OverrunIsGrowth
<1>1. SearchInv => OverrunIsGrowth
  BY DEF SearchInv, Searching, Finished, OverrunIsGrowth
<1>. QED BY <1>1, SearchInit, SearchStep, PTL DEF HistorySpec
===============================================================================
