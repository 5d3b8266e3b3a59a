-------------------------- MODULE TaskPromisesProofs --------------------------
(***************************************************************************)
(* Proofs about TaskPromises, for any number of tasks, names, texts and    *)
(* options: what success, silence and "changed" of a task mean.            *)
(***************************************************************************)
EXTENDS TaskPromises, SequenceTheorems, TLAPS

(* Types. *)

\* The types hold at first.
LEMMA InitTypes == PromisesInit => TypeOK
  <1> SUFFICES ASSUME PromisesInit PROVE TypeOK
    OBVIOUS
  <1>1. orgs \in Seq(Org \cup {Gone})
    <2>1. CASE orgs = <<>>
      BY <2>1
    <2>2. CASE \E o \in Org : orgs = <<o>>
      BY <2>2
    <2> QED BY <2>1, <2>2 DEF PromisesInit, Init
  <1>2. result \in [Tasks -> {Unchanged, Changed, Exists, Failed}]
    BY DEF PromisesInit, Init
  <1>3. /\ pc \in [Tasks -> {"idle", "find", "reread", "create", "update", "delete", "done"}]
        /\ request \in [Tasks -> Requests]
        /\ target \in [Tasks -> Nat]
        /\ current \in [Tasks -> Org \cup {Gone}]
    BY DEF PromisesInit, Init, NoId
  <1>4. /\ met \in [Tasks -> SUBSET Names]
        /\ \A h \in {held, numbered, wrote, crossed, troubled} : h \in [Tasks -> BOOLEAN]
    BY DEF PromisesInit
  <1> QED BY <1>1, <1>2, <1>3, <1>4 DEF TypeOK

\* A task that ends keeps the types of what it leaves behind.
LEMMA FinishTypes ==
  ASSUME TypeOK, NEW t \in Tasks, NEW r \in {Unchanged, Changed, Exists, Failed},
         Finish(t, r)
  PROVE  /\ pc' \in [Tasks -> {"idle", "find", "reread", "create", "update", "delete", "done"}]
         /\ target' \in [Tasks -> Nat]
         /\ result' \in [Tasks -> {Unchanged, Changed, Exists, Failed}]
  <1>1. result' \in [Tasks -> {Unchanged, Changed, Exists, Failed}]
    BY Zenon DEF TypeOK, Finish
  <1> QED BY <1>1 DEF TypeOK, Finish

\* So does a task that goes on to its next request, or stops short of it in check
\* mode.
LEMMA ProceedTypes ==
  ASSUME TypeOK, NEW t \in Tasks, NEW step \in {"reread", "create", "delete"},
         NEW id \in Nat, Proceed(t, step, id)
  PROVE  /\ pc' \in [Tasks -> {"idle", "find", "reread", "create", "update", "delete", "done"}]
         /\ target' \in [Tasks -> Nat]
         /\ result' \in [Tasks -> {Unchanged, Changed, Exists, Failed}]
  <1>1. CASE request[t].checkMode
    BY <1>1, FinishTypes DEF Proceed
  <1>2. CASE ~request[t].checkMode
    <2>1. result' = result
      BY <1>2 DEF Proceed
    <2> QED BY <1>2, <2>1 DEF Proceed, TypeOK
  <1> QED BY <1>1, <1>2

\* A request of a task, field by field.
LEMMA RequestFields ==
  ASSUME TypeOK, NEW t \in Tasks
  PROVE  /\ request[t].name \in Names
         /\ request[t].newName \in Names \cup {Unset}
         /\ request[t].newName # request[t].name
         /\ request[t].description \in Texts \cup {Unset}
         /\ request[t].state \in {"present", "absent", "exists", "enforced"}
         /\ request[t].checkMode \in BOOLEAN
         /\ request[t].name # Unset
  BY ResourceAssumption DEF TypeOK, AllRequests

\* What is alive is an organization with one of the gateway's ids.
LEMMA LiveOrgs ==
  ASSUME TypeOK, NEW i \in Live(orgs)
  PROVE  i \in Nat /\ i \in DOMAIN orgs /\ orgs[i] \in Org
         /\ orgs[i].name \in Names /\ orgs[i].description \in Texts
  BY DEF TypeOK, Live, Org

\* What a PATCH makes of an organization is an organization.
LEMMA PatchedOrg ==
  ASSUME TypeOK, NEW t \in Tasks, target[t] \in Live(orgs)
  PROVE  Patched(t) \in Org
  <1>1. PatchedName(t) \in Names
    BY RequestFields DEF PatchedName
  <1>2. PatchedDescription(t) \in Texts
    BY RequestFields, LiveOrgs DEF PatchedDescription, TypeOK, Org
  <1> QED BY <1>1, <1>2 DEF Patched, Org

\* A task that has found its resource has one of the gateway's ids.
Located ==
  \A t \in Tasks : pc[t] \in {"reread", "update", "delete"} => target[t] \in DOMAIN orgs

\* A promise is kept under names.
LEMMA KeptNames ==
  ASSUME TypeOK, NEW t \in Tasks, NEW gateway
  PROVE  Kept(request[t], gateway) \in SUBSET Names
  BY RequestFields DEF Kept

\* What a step leaves of the history has its type.
LEMMA HistoryTypes ==
  ASSUME TypeOK, NEW t \in Tasks, PromisesStep(t)
  PROVE  /\ met' \in [Tasks -> SUBSET Names]
         /\ \A h \in {held', numbered', wrote', crossed', troubled'} : h \in [Tasks -> BOOLEAN]
  <1>1. \A r, gateway : InPlace(r, gateway) \in BOOLEAN /\ Numbered(r, gateway) \in BOOLEAN
    BY DEF InPlace, Numbered
  <1>2. held' \in [Tasks -> BOOLEAN]
    <2>1. CASE Begin(t)
      <3>1. held' = [held EXCEPT ![t] = InPlace(request[t], orgs)]
        BY <2>1 DEF PromisesStep
      <3> QED BY <3>1, <1>1 DEF TypeOK
    <2>2. CASE ~Begin(t)
      <3>1. held' = [held EXCEPT ![t] = held[t]]
        BY <2>2 DEF PromisesStep
      <3> QED BY <3>1 DEF TypeOK
    <2> QED BY <2>1, <2>2
  <1>3. met' \in [Tasks -> SUBSET Names]
    <2>1. \A u \in Tasks : met[u] \in SUBSET Names /\ Kept(request[u], orgs') \in SUBSET Names
      BY KeptNames DEF TypeOK
    <2>2. met' = [u \in Tasks |-> IF u = t \/ Running(u) THEN met[u] \cup Kept(request[u], orgs')
                                  ELSE met[u]]
      BY DEF PromisesStep
    <2> QED BY <2>1, <2>2
  <1>4. numbered' \in [Tasks -> BOOLEAN]
    BY <1>1 DEF PromisesStep, TypeOK
  <1>5. wrote' \in [Tasks -> BOOLEAN] /\ crossed' \in [Tasks -> BOOLEAN]
    BY DEF PromisesStep, TypeOK
  <1>6. troubled' \in [Tasks -> BOOLEAN]
    BY DEF PromisesStep, TypeOK
  <1> QED BY <1>2, <1>3, <1>4, <1>5, <1>6

\* Every step keeps the types.
LEMMA NextTypes == TypeOK /\ Located /\ [PromisesNext]_promiseVars => TypeOK'
  <1> SUFFICES ASSUME TypeOK, Located, [PromisesNext]_promiseVars PROVE TypeOK'
    OBVIOUS
  <1>1. CASE UNCHANGED promiseVars
    BY <1>1 DEF TypeOK, promiseVars, resourceVars
  <1>2. ASSUME NEW t \in Tasks, PromisesStep(t) PROVE TypeOK'
    <2>1. Step(t)
      BY <1>2 DEF PromisesStep
    <2> DEFINE
      Reports == {Unchanged, Changed, Exists, Failed}
      Moves == /\ pc' \in [Tasks -> {"idle", "find", "reread", "create", "update", "delete", "done"}]
               /\ target' \in [Tasks -> Nat]
               /\ result' \in [Tasks -> Reports]
      Plain == orgs' \in Seq(Org \cup {Gone}) /\ request' \in [Tasks -> Requests]
                 /\ current' \in [Tasks -> Org \cup {Gone}]
    <2>2. SUFFICES Moves /\ Plain
      BY <1>2, HistoryTypes DEF TypeOK
    <2>3. CASE Begin(t)
      BY <2>3 DEF Begin, TypeOK
    <2>4. CASE FindAnswers(t)
      <3>1. CASE NotFound(t)
        BY <3>1, <2>4, FinishTypes, ProceedTypes DEF NotFound, FindAnswers, TypeOK, NoId
      <3>2. ASSUME NEW i \in Under(request[t].name), Found(t, i) PROVE Moves /\ Plain
        <4>1. i \in Nat
          BY LiveOrgs DEF Under
        <4> QED BY <3>2, <4>1, <2>4, FinishTypes, ProceedTypes DEF Found, FindAnswers, TypeOK
      <3> QED BY <2>4, <3>1, <3>2 DEF FindAnswers
    <2>5. CASE FindFails(t)
      BY <2>5, FinishTypes, ProceedTypes DEF FindFails, NotFound, TypeOK, NoId
    <2>6. CASE Reread(t)
      <3>1. PICK seen \in {orgs[target[t]], Gone} : current' = [current EXCEPT ![t] = seen]
        BY <2>6 DEF Reread
      <3>2. Moves
        BY <2>6 DEF Reread, TypeOK
      <3>3. seen \in Org \cup {Gone}
        BY <3>1, <2>6 DEF Reread, Located, TypeOK
      <3> QED BY <3>1, <3>2, <3>3, <2>6 DEF Reread, TypeOK
    <2>7. ASSUME NEW r \in {Unchanged, Changed}, Takes(t, r) PROVE
            Moves /\ request' \in [Tasks -> Requests] /\ current' \in [Tasks -> Org \cup {Gone}]
      BY <2>7, FinishTypes DEF Takes, TypeOK
    <2>8. CASE Create(t)
      <3>1. PICK o \in Org : orgs' = Append(orgs, o)
        BY <2>8, RequestFields, ResourceAssumption DEF Create, Org
      <3>2. orgs' \in Seq(Org \cup {Gone})
        BY <3>1 DEF TypeOK
      <3> QED BY <3>2, <2>7, <2>8 DEF Create
    <2>9. CASE Update(t) \/ Delete(t)
      <3>1. PICK o \in Org \cup {Gone} : orgs' = [orgs EXCEPT ![target[t]] = o]
        BY <2>9, PatchedOrg DEF Update, Delete
      <3>2. target[t] \in 1..Len(orgs)
        BY <2>9 DEF Update, Delete, Live, TypeOK
      <3>3. orgs' \in Seq(Org \cup {Gone})
        BY <3>1, <3>2, ExceptSeq DEF TypeOK
      <3> QED BY <3>3, <2>7, <2>9 DEF Update, Delete
    <2>10. CASE WriteFails(t)
      BY <2>10, FinishTypes DEF WriteFails, TypeOK
    <2> QED BY <2>1, <2>3, <2>4, <2>5, <2>6, <2>8, <2>9, <2>10 DEF Step
  <1> QED BY <1>1, <1>2 DEF PromisesNext

------------------------------------------------------------------------------
(* What a step does to the gateway, to its task and to the others. *)

\* A create adds one organization under a new id, with a name that nobody has.
LEMMA CreateEffect ==
  ASSUME TypeOK, NEW t \in Tasks, Create(t)
  PROVE  LET n == Len(orgs) + 1
             d == request[t].description
         IN  /\ n \notin DOMAIN orgs
             /\ DOMAIN orgs' = DOMAIN orgs \cup {n}
             /\ Live(orgs') = Live(orgs) \cup {n}
             /\ \A i \in DOMAIN orgs : orgs'[i] = orgs[i]
             /\ orgs'[n] = [name |-> request[t].name,
                            description |-> IF d = Unset THEN Blank ELSE d]
             /\ Under(request[t].name) = {}
             /\ orgs' # orgs
  <1> DEFINE d == request[t].description
             o == [name |-> request[t].name,
                   description |-> IF d = Unset THEN Blank ELSE d]
             n == Len(orgs) + 1
  <1>1. orgs' = Append(orgs, o) /\ Under(request[t].name) = {}
    BY DEF Create
  <1>2. o \in Org
    BY RequestFields, ResourceAssumption DEF Org
  <1>3. o # Gone
    BY <1>2, ResourceAssumption
  <1> HIDE DEF o
  <1>4. /\ Len(orgs') = n /\ orgs' \in Seq(Org \cup {Gone})
        /\ \A i \in 1..Len(orgs) : orgs'[i] = orgs[i]
        /\ orgs'[n] = o
    BY <1>1, <1>2, AppendProperties DEF TypeOK
  <1>5. DOMAIN orgs = 1..Len(orgs) /\ DOMAIN orgs' = 1..n /\ Len(orgs) \in Nat
    BY <1>4 DEF TypeOK
  <1>6. DOMAIN orgs' = DOMAIN orgs \cup {n} /\ n \notin DOMAIN orgs
    BY <1>5
  <1>7. Live(orgs') = Live(orgs) \cup {n}
    BY <1>3, <1>4, <1>5, <1>6 DEF Live
  <1> QED BY <1>1, <1>4, <1>5, <1>6, <1>7 DEF o

\* An update or a delete changes what is under the id in hand, and nothing else.
LEMMA PutEffect ==
  ASSUME TypeOK, NEW t \in Tasks, Update(t) \/ Delete(t)
  PROVE  /\ target[t] \in Live(orgs)
         /\ DOMAIN orgs' = DOMAIN orgs
         /\ \A i \in DOMAIN orgs : i # target[t] => orgs'[i] = orgs[i]
         /\ Update(t) => /\ orgs'[target[t]] = Patched(t)
                         /\ Live(orgs') = Live(orgs)
                         /\ \A i \in Live(orgs) : orgs[i].name = PatchedName(t) => i = target[t]
         /\ Delete(t) => /\ Live(orgs') = Live(orgs) \ {target[t]}
                         /\ orgs' # orgs
  <1> DEFINE k == target[t]
  <1>1. k \in Live(orgs) /\ k \in 1..Len(orgs) /\ DOMAIN orgs = 1..Len(orgs)
    BY DEF Update, Delete, Live, TypeOK
  <1>2. PICK o \in Org \cup {Gone} :
          /\ orgs' = [orgs EXCEPT ![k] = o]
          /\ Update(t) => o = Patched(t) /\ o \in Org
          /\ Delete(t) => o = Gone
    <2>1. CASE Update(t)
      <3>1. pc[t] # "delete"
        BY <2>1 DEF Update
      <3> QED BY <2>1, <3>1, <1>1, PatchedOrg DEF Update, Delete
    <2>2. CASE Delete(t)
      <3>1. pc[t] # "update"
        BY <2>2 DEF Delete
      <3> QED BY <2>2, <3>1 DEF Update, Delete
    <2> QED BY <2>1, <2>2
  <1> DEFINE S == Org \cup {Gone}
  <1>3. orgs \in Seq(S) /\ o \in S
    BY DEF TypeOK
  <1> HIDE DEF S, k
  <1>4. /\ orgs' \in Seq(S) /\ Len(orgs') = Len(orgs)
        /\ \A i \in 1..Len(orgs) : orgs'[i] = IF i = k THEN o ELSE orgs[i]
    BY <1>1, <1>2, <1>3, ExceptSeq
  <1>5. DOMAIN orgs' = DOMAIN orgs /\ orgs'[k] = o
    BY <1>1, <1>3, <1>4
  <1>6. \A i \in DOMAIN orgs : i # k => orgs'[i] = orgs[i]
    BY <1>1, <1>4
  <1>7. ASSUME Update(t) PROVE Live(orgs') = Live(orgs)
    <2>1. o # Gone /\ orgs[k] # Gone
      <3>1. o \in Org
        BY <1>2, <1>7
      <3> QED BY <3>1, <1>1, ResourceAssumption DEF Live
    <2>2. \A i \in DOMAIN orgs : orgs'[i] # Gone <=> orgs[i] # Gone
      BY <2>1, <1>5, <1>6
    <2> QED BY <2>2, <1>5 DEF Live
  <1>8. ASSUME Delete(t) PROVE Live(orgs') = Live(orgs) \ {k} /\ orgs' # orgs
    <2>1. o = Gone
      BY <1>2, <1>8
    <2>2. orgs[k] # Gone
      BY <1>1 DEF Live
    <2>3. \A i \in DOMAIN orgs : orgs'[i] # Gone <=> orgs[i] # Gone /\ i # k
      BY <2>1, <1>5, <1>6
    <2>4. orgs' # orgs
      BY <2>1, <2>2, <1>5
    <2>5. Live(orgs') = Live(orgs) \ {k}
      BY <2>3, <1>5 DEF Live
    <2> QED BY <2>4, <2>5
  <1>9. ASSUME Update(t) PROVE \A i \in Live(orgs) : orgs[i].name = PatchedName(t) => i = k
    BY <1>9 DEF Update, Under, k
  <1> QED BY <1>1, <1>2, <1>5, <1>6, <1>7, <1>8, <1>9 DEF k

\* A step of one task leaves the others where they are; if it changes the gateway,
\* they are crossed.
LEMMA OthersStay ==
  ASSUME TypeOK, NEW t \in Tasks, PromisesStep(t), NEW u \in Tasks, u # t
  PROVE  /\ request' = request
         /\ pc'[u] = pc[u] /\ target'[u] = target[u] /\ current'[u] = current[u]
         /\ result'[u] = result[u] /\ held'[u] = held[u] /\ wrote'[u] = wrote[u]
         /\ troubled'[u] = troubled[u]
         /\ crossed[u] => crossed'[u]
         /\ Running(u) /\ ~crossed'[u] => orgs' = orgs
         /\ met[u] \subseteq met'[u] /\ (numbered[u] => numbered'[u])
         /\ Running(u) => Kept(request[u], orgs') \subseteq met'[u]
  <1>1. Step(t)
    BY DEF PromisesStep
  <1>2. request' = request
    BY <1>1 DEF Step, Begin, FindAnswers, FindFails, Reread, Create, Update, Delete,
                WriteFails, Takes
  <1>3. current'[u] = current[u]
    BY <1>1 DEF Step, Begin, FindAnswers, FindFails, Reread, Create, Update, Delete,
                WriteFails, Takes, TypeOK
  <1>4. pc'[u] = pc[u] /\ target'[u] = target[u] /\ result'[u] = result[u]
    <2>1. ASSUME NEW r, Finish(t, r)
          PROVE  pc'[u] = pc[u] /\ target'[u] = target[u] /\ result'[u] = result[u]
      BY <2>1 DEF Finish, TypeOK
    <2>2. ASSUME NEW s, NEW i, Proceed(t, s, i)
          PROVE  pc'[u] = pc[u] /\ target'[u] = target[u] /\ result'[u] = result[u]
      BY <2>1, <2>2 DEF Proceed, TypeOK
    <2>3. CASE Begin(t) \/ Reread(t)
      BY <2>3 DEF Begin, Reread, TypeOK
    <2>4. CASE FindAnswers(t) \/ FindFails(t)
      BY <2>1, <2>2, <2>4 DEF FindAnswers, FindFails, Found, NotFound
    <2>5. CASE Create(t) \/ Update(t) \/ Delete(t) \/ WriteFails(t)
      BY <2>1, <2>5 DEF Create, Update, Delete, WriteFails, Takes
    <2> QED BY <1>1, <2>3, <2>4, <2>5 DEF Step
  <1>5. held'[u] = held[u] /\ wrote'[u] = wrote[u] /\ troubled'[u] = troubled[u]
    BY DEF PromisesStep, TypeOK
  <1>6. crossed'[u] = (crossed[u] \/ (Running(u) /\ orgs' # orgs))
    BY DEF PromisesStep
  <1>7. /\ met'[u] = IF Running(u) THEN met[u] \cup Kept(request[u], orgs') ELSE met[u]
        /\ numbered[u] => numbered'[u]
    BY DEF PromisesStep
  <1> QED BY <1>2, <1>3, <1>4, <1>5, <1>6, <1>7

\* The gateway has no two organizations with one name.
UniqueNames ==
  \A i, j \in Live(orgs) : orgs[i].name = orgs[j].name => i = j

\* Where a task stands tells what it was asked to do and what it has found.
Phased ==
  \A t \in Tasks :
    /\ pc[t] \in {"reread", "create", "update", "delete"} => Acts(t)
    /\ pc[t] \in {"reread", "update"} => request[t].state = "present"
    /\ pc[t] = "create" => request[t].state \in {"present", "enforced"} /\ target[t] = NoId
    /\ pc[t] = "delete" => request[t].state = "absent"
    /\ pc[t] # "done" => ~wrote[t]

\* The step of a task, with what it does to the task's own history.
LEMMA OwnStep ==
  ASSUME TypeOK, NEW t \in Tasks, PromisesStep(t)
  PROVE  /\ \/ Begin(t) \/ FindAnswers(t) \/ Reread(t)
            \/ FindFails(t) /\ troubled'[t]
            \/ Writes(t) /\ ~result'[t].failed
            \/ (Writes(t) \/ WriteFails(t)) /\ result'[t].failed /\ troubled'[t]
         /\ request' = request
         /\ crossed'[t] = crossed[t]
         /\ wrote'[t] = (wrote[t] \/ orgs' # orgs)
         /\ met'[t] = met[t] \cup Kept(request[t], orgs')
         /\ Numbered(request[t], orgs') => numbered'[t]
         /\ held'[t] = IF Begin(t) THEN InPlace(request[t], orgs) ELSE held[t]
         /\ troubled[t] => troubled'[t]
  <1>1. troubled \in [Tasks -> BOOLEAN] /\ result \in [Tasks -> {Unchanged, Changed, Exists, Failed}]
    BY DEF TypeOK
  <1>2. WriteFails(t) => result'[t].failed
    BY <1>1 DEF WriteFails, Finish, Failed, Unchanged
  <1>3. \/ Begin(t) \/ FindAnswers(t) \/ Reread(t)
        \/ FindFails(t) /\ troubled'[t]
        \/ Writes(t) /\ ~result'[t].failed
        \/ (Writes(t) \/ WriteFails(t)) /\ result'[t].failed /\ troubled'[t]
    BY <1>1, <1>2 DEF PromisesStep, Answered, Troubles
  <1>4. request' = request
    BY DEF PromisesStep, Step, Begin, FindAnswers, FindFails, Reread, Create, Update, Delete,
           WriteFails, Takes
  <1>5. crossed'[t] = crossed[t] /\ wrote'[t] = (wrote[t] \/ orgs' # orgs)
    BY DEF PromisesStep, TypeOK
  <1>6. /\ met'[t] = met[t] \cup Kept(request[t], orgs')
        /\ Numbered(request[t], orgs') => numbered'[t]
    BY DEF PromisesStep
  <1>7. held'[t] = IF Begin(t) THEN InPlace(request[t], orgs) ELSE held[t]
    BY DEF PromisesStep, TypeOK
  <1>8. troubled[t] => troubled'[t]
    BY <1>1 DEF PromisesStep
  <1> QED BY <1>3, <1>4, <1>5, <1>6, <1>7, <1>8

\* Only Create, Update and Delete touch the gateway.
LEMMA OnlyWrites ==
  ASSUME NEW t \in Tasks, Step(t), ~Writes(t)
  PROVE  orgs' = orgs
  BY DEF Step, Writes, Begin, FindAnswers, FindFails, Reread, WriteFails

\* A write is the last request of a task, whether it works or not.
LEMMA WriteEnds ==
  ASSUME TypeOK, NEW t \in Tasks, Writes(t) \/ WriteFails(t)
  PROVE  pc'[t] = "done" /\ target' = target /\ current' = current
         /\ pc[t] \in {"create", "update", "delete"}
  BY DEF Writes, Create, Update, Delete, WriteFails, Takes, Finish, TypeOK

\* What run makes of a find that shows nothing.
LEMMA NotFoundOutcome ==
  ASSUME TypeOK, NEW t \in Tasks, NotFound(t)
  PROVE  \/ request[t].state \in {"exists", "absent"} /\ pc'[t] = "done" /\ result'[t] = Unchanged
         \/ /\ request[t].state \in {"present", "enforced"} /\ ~Acts(t)
            /\ pc'[t] = "done" /\ result'[t] = Changed
         \/ /\ request[t].state \in {"present", "enforced"} /\ Acts(t)
            /\ pc'[t] = "create" /\ target'[t] = NoId
  <1>1. CASE request[t].state \in {"exists", "absent"}
    BY <1>1 DEF NotFound, Finish, TypeOK
  <1>2. CASE request[t].state \in {"present", "enforced"}
    BY <1>2 DEF NotFound, Proceed, Finish, Acts, TypeOK
  <1> QED BY <1>1, <1>2 DEF NotFound

\* What run makes of the resource it has found.
LEMMA FoundOutcome ==
  ASSUME TypeOK, NEW t \in Tasks, NEW i \in Live(orgs), Found(t, i)
  PROVE  \/ request[t].state = "exists" /\ pc'[t] = "done" /\ result'[t] = Exists
         \/ /\ request[t].state \in {"present", "enforced"}
            /\ ~ShouldUpdate(request[t], orgs[i])
            /\ pc'[t] = "done" /\ result'[t] = Unchanged
         \/ /\ request[t].state = "enforced" /\ ShouldUpdate(request[t], orgs[i])
            /\ pc'[t] = "done" /\ result'[t] = Failed
         \/ /\ request[t].state \in {"absent", "present"} /\ ~Acts(t)
            /\ pc'[t] = "done" /\ result'[t] = Changed
            /\ request[t].state = "present" => ShouldUpdate(request[t], orgs[i])
         \/ /\ request[t].state = "absent" /\ Acts(t)
            /\ pc'[t] = "delete" /\ target'[t] = i
         \/ /\ request[t].state = "present" /\ Acts(t) /\ ShouldUpdate(request[t], orgs[i])
            /\ pc'[t] = "reread" /\ target'[t] = i
  <1>1. ASSUME NEW r, Finish(t, r) PROVE pc'[t] = "done" /\ result'[t] = r
    BY <1>1 DEF Finish, TypeOK
  <1>2. ASSUME NEW step, NEW id, Proceed(t, step, id)
        PROVE  \/ ~Acts(t) /\ pc'[t] = "done" /\ result'[t] = Changed
               \/ Acts(t) /\ pc'[t] = step /\ target'[t] = id
    BY <1>1, <1>2 DEF Proceed, Acts, TypeOK
  <1>3. CASE request[t].state = "exists"
    BY <1>1, <1>3 DEF Found
  <1>4. CASE request[t].state = "absent"
    BY <1>2, <1>4 DEF Found
  <1>5. CASE request[t].state = "present"
    BY <1>1, <1>2, <1>5 DEF Found
  <1>6. CASE request[t].state = "enforced"
    BY <1>1, <1>6 DEF Found
  <1> QED BY <1>3, <1>4, <1>5, <1>6, RequestFields

------------------------------------------------------------------------------
(* The inductive invariant, part by part. *)

\* Every step keeps the names unique.
LEMMA NextUnique == TypeOK /\ UniqueNames /\ [PromisesNext]_promiseVars => UniqueNames'
  <1> SUFFICES ASSUME TypeOK, UniqueNames, [PromisesNext]_promiseVars PROVE UniqueNames'
    OBVIOUS
  <1>1. CASE orgs' = orgs
    BY <1>1 DEF UniqueNames, Live
  <1>2. ASSUME NEW t \in Tasks, PromisesStep(t), orgs' # orgs PROVE UniqueNames'
    <2>1. Writes(t)
      BY <1>2, OnlyWrites DEF PromisesStep
    <2>2. CASE Create(t)
      <3> DEFINE n == Len(orgs) + 1
      <3>1. Live(orgs') = Live(orgs) \cup {n} /\ \A i \in Live(orgs) : orgs'[i] = orgs[i]
        BY <2>2, CreateEffect DEF Live
      <3>2. orgs'[n].name = request[t].name
        <4>1. PICK d : orgs'[n] = [name |-> request[t].name, description |-> d]
          BY <2>2, CreateEffect
        <4> QED BY <4>1
      <3>3. \A i \in Live(orgs) : orgs'[i].name # request[t].name
        <4>1. Under(request[t].name) = {}
          BY <2>2 DEF Create
        <4> QED BY <3>1, <4>1 DEF Under
      <3> HIDE DEF n
      <3> QED BY <3>1, <3>2, <3>3 DEF UniqueNames
    <2>3. CASE Update(t)
      <3>1. /\ Live(orgs') = Live(orgs)
            /\ \A i \in Live(orgs) : i # target[t] => orgs'[i].name = orgs[i].name
            /\ \A i \in Live(orgs) : orgs[i].name = PatchedName(t) => i = target[t]
        BY <2>3, PutEffect DEF Live
      <3>2. orgs'[target[t]].name = PatchedName(t)
        <4>1. orgs'[target[t]] = Patched(t)
          BY <2>3, PutEffect
        <4> QED BY <4>1 DEF Patched
      <3> QED BY <3>1, <3>2 DEF UniqueNames
    <2>4. CASE Delete(t)
      <3>1. /\ Live(orgs') \subseteq Live(orgs)
            /\ \A i \in Live(orgs') : orgs'[i] = orgs[i]
        BY <2>4, PutEffect DEF Live
      <3> QED BY <3>1 DEF UniqueNames
    <2> QED BY <2>1, <2>2, <2>3, <2>4 DEF Writes
  <1>3. CASE UNCHANGED promiseVars
    BY <1>1, <1>3 DEF promiseVars, resourceVars
  <1> QED BY <1>1, <1>2, <1>3 DEF PromisesNext

\* Every step keeps what a control point says of the options.
LEMMA NextPhased == TypeOK /\ Phased /\ [PromisesNext]_promiseVars => Phased'
  <1> SUFFICES ASSUME TypeOK, Phased, [PromisesNext]_promiseVars PROVE Phased'
    OBVIOUS
  <1>1. CASE UNCHANGED promiseVars
    BY <1>1 DEF Phased, Acts, promiseVars, resourceVars
  <1> DEFINE
    OnPhase(u) ==
      /\ pc[u] \in {"reread", "create", "update", "delete"} => Acts(u)
      /\ pc[u] \in {"reread", "update"} => request[u].state = "present"
      /\ pc[u] = "create" => request[u].state \in {"present", "enforced"} /\ target[u] = NoId
      /\ pc[u] = "delete" => request[u].state = "absent"
      /\ pc[u] # "done" => ~wrote[u]
  <1>2. ASSUME NEW t \in Tasks, PromisesStep(t) PROVE Phased'
    <2>1. ASSUME NEW u \in Tasks, u # t PROVE OnPhase(u)'
      BY <1>2, <2>1, OthersStay DEF Phased, Acts
    <2>2. OnPhase(t)'
      <3>1. /\ request' = request /\ Acts(t)' = Acts(t)
            /\ orgs' = orgs => wrote'[t] = wrote[t]
        BY <1>2, OwnStep DEF Acts, TypeOK
      <3> DEFINE at == pc'[t]
      <3>2. CASE Begin(t) \/ Reread(t)
        <4>1. orgs' = orgs /\ ~wrote[t]
          BY <3>2 DEF Begin, Reread, Phased
        <4>2. (pc[t] = "reread" /\ at = "update") \/ at = "find"
          BY <3>2 DEF Begin, Reread, TypeOK
        <4> QED BY <3>1, <4>1, <4>2 DEF Phased
      <3>3. CASE NotFound(t) /\ (FindAnswers(t) \/ FindFails(t))
        <4>1. orgs' = orgs /\ ~wrote[t]
          BY <3>3 DEF FindAnswers, FindFails, Phased
        <4>2. \/ at = "done"
              \/ /\ at = "create" /\ Acts(t) /\ request[t].state \in {"present", "enforced"}
                 /\ target'[t] = NoId
          BY <3>3, NotFoundOutcome
        <4> QED BY <3>1, <4>1, <4>2
      <3>4. ASSUME NEW i \in Under(request[t].name), Found(t, i), FindAnswers(t)
            PROVE  OnPhase(t)'
        <4>1. orgs' = orgs /\ ~wrote[t]
          BY <3>4 DEF FindAnswers, Phased
        <4>2. \/ at = "done"
              \/ at = "delete" /\ Acts(t) /\ request[t].state = "absent"
              \/ at = "reread" /\ Acts(t) /\ request[t].state = "present"
          BY <3>4, FoundOutcome DEF Under
        <4> QED BY <3>1, <4>1, <4>2
      <3>5. CASE FindFails(t) /\ ~NotFound(t)
        BY <3>5 DEF FindFails, Finish, TypeOK
      <3>6. CASE Writes(t) \/ WriteFails(t)
        BY <3>6, WriteEnds
      <3> QED BY <1>2, <3>2, <3>3, <3>4, <3>5, <3>6, OwnStep DEF FindAnswers
    <2> QED BY <2>1, <2>2 DEF Phased
  <1> QED BY <1>1, <1>2 DEF PromisesNext

\* Every step keeps the ids in hand among those the gateway has given.
LEMMA NextLocated == TypeOK /\ Located /\ [PromisesNext]_promiseVars => Located'
  <1> SUFFICES ASSUME TypeOK, Located, [PromisesNext]_promiseVars PROVE Located'
    OBVIOUS
  <1>1. CASE UNCHANGED promiseVars
    BY <1>1 DEF Located, promiseVars, resourceVars
  <1>2. ASSUME NEW t \in Tasks, PromisesStep(t) PROVE Located'
    <2>1. DOMAIN orgs \subseteq DOMAIN orgs'
      BY <1>2, OnlyWrites, CreateEffect, PutEffect DEF PromisesStep, Writes
    <2>2. ASSUME NEW u \in Tasks, u # t, pc'[u] \in {"reread", "update", "delete"}
          PROVE  target'[u] \in DOMAIN orgs'
      BY <1>2, <2>1, <2>2, OthersStay DEF Located
    <2>3. ASSUME pc'[t] \in {"reread", "update", "delete"} PROVE target'[t] \in DOMAIN orgs'
      <3>1. CASE Begin(t)
        BY <2>3, <3>1 DEF Begin, TypeOK
      <3>2. CASE Reread(t)
        BY <3>2 DEF Reread, Located
      <3>3. CASE NotFound(t)
        BY <2>3, <3>3, NotFoundOutcome
      <3>4. ASSUME NEW i \in Under(request[t].name), Found(t, i) PROVE target'[t] = i
        BY <2>3, <3>4, FoundOutcome DEF Under
      <3>5. ASSUME NEW i \in Under(request[t].name) PROVE i \in DOMAIN orgs
        BY DEF Under, Live
      <3>6. CASE FindFails(t) /\ ~NotFound(t)
        BY <2>3, <3>6 DEF FindFails, Finish, TypeOK
      <3>7. CASE Writes(t) \/ WriteFails(t)
        BY <2>3, <3>7, WriteEnds
      <3> QED BY <1>2, <2>1, <3>1, <3>2, <3>3, <3>4, <3>5, <3>6, <3>7, OwnStep DEF FindAnswers
    <2> QED BY <2>2, <2>3 DEF Located
  <1> QED BY <1>1, <1>2 DEF PromisesNext

\* The types and what they rest on.
Sound == TypeOK /\ Located /\ UniqueNames /\ Phased

\* All of these hold at first.
LEMMA InitSound == PromisesInit => Sound
  <1> SUFFICES ASSUME PromisesInit PROVE Sound
    OBVIOUS
  <1>1. \A i, j \in DOMAIN orgs : i = j
    BY DEF PromisesInit, Init
  <1>2. UniqueNames
    BY <1>1 DEF UniqueNames, Live
  <1>3. Located /\ Phased
    BY DEF PromisesInit, Init, Located, Phased
  <1> QED BY <1>2, <1>3, InitTypes DEF Sound

\* Every step keeps all of them.
LEMMA NextSound == Sound /\ [PromisesNext]_promiseVars => Sound'
  BY NextTypes, NextUnique, NextPhased, NextLocated DEF Sound

\* Every variable stays within its type.
THEOREM TypeCorrect == PromisesSpec => []TypeOK
  <1>1. Sound => TypeOK
    BY DEF Sound
  <1> QED BY <1>1, InitSound, NextSound, PTL DEF PromisesSpec

------------------------------------------------------------------------------
(* Success. *)

\* An organization that _should_update finds in order keeps the promise, or has
\* a number for its description; and the task renames nothing.
LEMMA InOrderKeeps ==
  ASSUME TypeOK, NEW t \in Tasks, NEW i \in Under(request[t].name),
         ~ShouldUpdate(request[t], orgs[i]), request[t].state \in {"present", "enforced"}
  PROVE  /\ request[t].newName = Unset
         /\ \/ request[t].name \in Kept(request[t], orgs)
            \/ /\ request[t].description \in Texts \ Numerals
               /\ Numbered(request[t], orgs)
  <1>1. i \in Live(orgs) /\ orgs[i].name = request[t].name
    BY DEF Under
  <1>2. request[t].newName = Unset
    BY DEF ShouldUpdate
  <1>3. \/ request[t].description \in {Unset, orgs[i].description}
        \/ request[t].description \in Texts \ Numerals /\ orgs[i].description \in Numerals
    BY RequestFields DEF ShouldUpdate, Differs
  <1>4. CASE request[t].description \in {Unset, orgs[i].description}
    BY <1>1, <1>2, <1>4, RequestFields DEF Kept, Keeps
  <1>5. CASE request[t].description \in Texts \ Numerals /\ orgs[i].description \in Numerals
    BY <1>1, <1>2, <1>5 DEF Numbered
  <1> QED BY <1>2, <1>3, <1>4, <1>5

\* After a create the promise of the task holds under the old name.
LEMMA CreatedKeeps ==
  ASSUME Sound, NEW t \in Tasks, Create(t)
  PROVE  request[t].name \in Kept(request[t], orgs')
  <1> DEFINE n == Len(orgs) + 1
             d == request[t].description
             o == [name |-> request[t].name, description |-> IF d = Unset THEN Blank ELSE d]
  <1>1. n \in Live(orgs') /\ orgs'[n] = o
    BY CreateEffect DEF Sound
  <1>2. request[t].state \in {"present", "enforced"}
    BY DEF Sound, Phased, Create
  <1>3. o.name = request[t].name /\ d \in {Unset, o.description}
    OBVIOUS
  <1> HIDE DEF n, o
  <1>4. Keeps(request[t], request[t].name, orgs')
    BY <1>1, <1>2, <1>3 DEF Keeps
  <1> QED BY <1>4, RequestFields DEF Kept, Sound

\* After an update the promise of the task holds under the final name.
LEMMA UpdatedKeeps ==
  ASSUME Sound, NEW t \in Tasks, Update(t)
  PROVE  FinalName(request[t]) \in Kept(request[t], orgs')
  <1>1. target[t] \in Live(orgs') /\ orgs'[target[t]] = Patched(t)
    BY PutEffect DEF Sound
  <1>2. request[t].state = "present"
    BY DEF Sound, Phased, Update
  <1>3. Patched(t).name = FinalName(request[t])
    BY <1>2 DEF Patched, PatchedName, FinalName
  <1>4. request[t].description \in {Unset, Patched(t).description}
    BY DEF Patched, PatchedDescription
  <1>5. Keeps(request[t], FinalName(request[t]), orgs')
    BY <1>1, <1>2, <1>3, <1>4 DEF Keeps
  <1>6. FinalName(request[t]) \in {request[t].name, request[t].newName} \ {Unset}
    BY RequestFields DEF FinalName, Sound
  <1> QED BY <1>5, <1>6 DEF Kept

\* A task about to delete has its resource in sight, or somebody else has
\* removed or renamed it meanwhile.
Doomed ==
  \A t \in Tasks :
    pc[t] = "delete" =>
      request[t].name \in met[t] \/ (target[t] \in Live(orgs) /\ orgs[target[t]].name = request[t].name)

\* With the organization of that name goes the last one.
LEMMA GoneMeansAbsent ==
  ASSUME UniqueNames, NEW k \in Live(orgs), NEW r, r.state = "absent", orgs[k].name = r.name,
         \A i \in Live(orgs') : i # k => i \in Live(orgs) /\ orgs'[i] = orgs[i],
         k \in Live(orgs') => orgs'[k].name # r.name
  PROVE  Keeps(r, r.name, orgs')
  BY DEF Keeps, UniqueNames

\* Every step keeps what a task about to delete can count on.
LEMMA NextDoomed ==
  Sound /\ Doomed /\ [PromisesNext]_promiseVars => Doomed'
  <1> SUFFICES ASSUME Sound, Doomed, [PromisesNext]_promiseVars PROVE Doomed'
    OBVIOUS
  <1> USE DEF Sound
  <1>1. CASE UNCHANGED promiseVars
    BY <1>1 DEF Doomed, Live, promiseVars, resourceVars
  <1> DEFINE InSight(u) == target[u] \in Live(orgs) /\ orgs[target[u]].name = request[u].name
  <1>2. ASSUME NEW t \in Tasks, PromisesStep(t) PROVE Doomed'
    <2>1. ASSUME NEW u \in Tasks, u # t, pc'[u] = "delete" PROVE request[u].name \in met'[u] \/ InSight(u)'
      <3>1. /\ pc[u] = "delete" /\ target'[u] = target[u] /\ request' = request
            /\ met[u] \subseteq met'[u]
            /\ Keeps(request[u], request[u].name, orgs') => request[u].name \in met'[u]
        BY <1>2, <2>1, OthersStay, RequestFields DEF Running, Kept
      <3>2. request[u].name \in met[u] \/ InSight(u)
        BY <3>1 DEF Doomed
      <3>3. CASE orgs' = orgs
        BY <3>1, <3>2, <3>3 DEF Live
      <3>4. CASE request[u].name \notin met[u] /\ orgs' # orgs
        <4> DEFINE k == target[u]
        <4>1. k \in Live(orgs) /\ orgs[k].name = request[u].name /\ request[u].state = "absent"
          BY <3>1, <3>2, <3>4 DEF Phased
        <4>2. Writes(t)
          BY <1>2, <3>4, OnlyWrites DEF PromisesStep
        <4>3. CASE Create(t)
          BY <3>1, <4>1, <4>3, CreateEffect DEF Live
        <4>4. CASE (Update(t) \/ Delete(t)) /\ target[t] # k
          <5>1. k \in DOMAIN orgs' /\ orgs'[k] = orgs[k]
            BY <4>1, <4>4, PutEffect DEF Live
          <5> QED BY <3>1, <4>1, <5>1 DEF Live
        <4>5. CASE (Update(t) \/ Delete(t)) /\ target[t] = k
          <5>1. \A i \in Live(orgs') : i # k => i \in Live(orgs) /\ orgs'[i] = orgs[i]
            BY <4>5, PutEffect DEF Live
          <5>2. CASE k \in Live(orgs') /\ orgs'[k].name = request[u].name
            BY <3>1, <5>2
          <5>3. CASE ~(k \in Live(orgs') /\ orgs'[k].name = request[u].name)
            <6>1. Keeps(request[u], request[u].name, orgs')
              BY <4>1, <5>1, <5>3, GoneMeansAbsent
            <6> QED BY <3>1, <6>1
          <5> QED BY <5>2, <5>3
        <4> QED BY <4>2, <4>3, <4>4, <4>5 DEF Writes
      <3> QED BY <3>1, <3>2, <3>3, <3>4
    <2>2. ASSUME pc'[t] = "delete" PROVE InSight(t)'
      <3>1. CASE Begin(t) \/ Reread(t)
        BY <2>2, <3>1 DEF Begin, Reread, TypeOK
      <3>2. CASE NotFound(t)
        BY <2>2, <3>2, NotFoundOutcome
      <3>3. CASE Writes(t) \/ WriteFails(t)
        BY <2>2, <3>3, WriteEnds
      <3>4. CASE FindFails(t) /\ ~NotFound(t)
        BY <2>2, <3>4 DEF FindFails, Finish, TypeOK
      <3>5. ASSUME FindAnswers(t), NEW i \in Under(request[t].name), Found(t, i)
            PROVE  InSight(t)'
        <4>1. target'[t] = i /\ i \in Live(orgs) /\ orgs[i].name = request[t].name
          BY <2>2, <3>5, FoundOutcome DEF Under
        <4>2. orgs' = orgs /\ request' = request
          BY <3>5 DEF FindAnswers
        <4> QED BY <4>1, <4>2 DEF Live
      <3> QED BY <1>2, <3>1, <3>2, <3>3, <3>4, <3>5, OwnStep DEF FindAnswers
    <2>3. request' = request
      BY <1>2, OwnStep
    <2> QED BY <2>1, <2>2, <2>3 DEF Doomed
  <1> QED BY <1>1, <1>2 DEF PromisesNext

\* A delete leaves none of that name, or there was none at some moment before.
LEMMA DeletedIsAbsent ==
  ASSUME Sound, Doomed, NEW t \in Tasks, Delete(t)
  PROVE  /\ FinalName(request[t]) = request[t].name
         /\ request[t].name \in met[t] \cup Kept(request[t], orgs')
  <1> DEFINE k == target[t]
  <1>1. FinalName(request[t]) = request[t].name
    BY DEF Delete, Sound, Phased, FinalName
  <1>2. CASE request[t].name \notin met[t]
    <2>1. k \in Live(orgs) /\ orgs[k].name = request[t].name /\ request[t].state = "absent"
      BY <1>2 DEF Doomed, Delete, Sound, Phased
    <2>2. /\ k \notin Live(orgs')
          /\ \A i \in Live(orgs') : i # k => i \in Live(orgs) /\ orgs'[i] = orgs[i]
      BY PutEffect DEF Live, Sound
    <2>3. Keeps(request[t], request[t].name, orgs')
      BY <2>1, <2>2, GoneMeansAbsent DEF Sound
    <2> QED BY <1>1, <2>3, RequestFields DEF Kept, Sound
  <1> QED BY <1>1, <1>2

\* Every step keeps the claim that a success was reached.
LEMMA NextReached ==
  Sound /\ Doomed /\ SuccessWasReached /\ [PromisesNext]_promiseVars => SuccessWasReached'
  <1> SUFFICES ASSUME Sound, Doomed, SuccessWasReached, [PromisesNext]_promiseVars
               PROVE  SuccessWasReached'
    OBVIOUS
  <1> USE DEF Sound
  <1>1. CASE UNCHANGED promiseVars
    BY <1>1 DEF SuccessWasReached, Succeeded, Acts, MadeOldName, NumberSkipped, Excused,
                promiseVars, resourceVars
  <1> DEFINE
    Reached(u) == \/ FinalName(request[u]) \in met[u]
                  \/ MadeOldName(u) \/ NumberSkipped(u) \/ Excused(u)
  <1>2. ASSUME NEW t \in Tasks, PromisesStep(t) PROVE SuccessWasReached'
    <2>1. ASSUME NEW u \in Tasks, u # t, Succeeded(u)', Acts(u)' PROVE Reached(u)'
      <3>1. /\ request' = request /\ pc'[u] = pc[u] /\ result'[u] = result[u]
            /\ troubled'[u] = troubled[u] /\ met[u] \subseteq met'[u]
            /\ target'[u] = target[u] /\ wrote'[u] = wrote[u] /\ (numbered[u] => numbered'[u])
        BY <1>2, <2>1, OthersStay
      <3>2. Succeeded(u) /\ Acts(u)
        BY <2>1, <3>1 DEF Succeeded, Acts
      <3>3. Reached(u)
        BY <3>2 DEF SuccessWasReached
      <3>4. CASE FinalName(request[u]) \in met[u]
        BY <3>1, <3>4
      <3>5. CASE MadeOldName(u)
        BY <3>1, <3>5 DEF MadeOldName
      <3>6. CASE NumberSkipped(u)
        BY <3>1, <3>6 DEF NumberSkipped
      <3>7. CASE Excused(u)
        BY <3>1, <3>7 DEF Excused
      <3> QED BY <3>3, <3>4, <3>5, <3>6, <3>7
    <2>2. ASSUME Succeeded(t)', Acts(t)' PROVE Reached(t)'
      <3>1. /\ pc'[t] = "done" /\ ~result'[t].failed /\ request' = request /\ Acts(t)
            /\ met'[t] = met[t] \cup Kept(request[t], orgs')
        BY <1>2, <2>2, OwnStep DEF Succeeded, Acts
      <3>2. CASE Begin(t) \/ Reread(t)
        BY <3>1, <3>2 DEF Begin, Reread, TypeOK
      <3>3. ASSUME NotFound(t)
            PROVE  request[t].state \in {"exists", "absent"} /\ result'[t] = Unchanged
        BY <3>1, <3>3, NotFoundOutcome
      <3>4. CASE NotFound(t) /\ request[t].state = "exists"
        BY <3>1, <3>3, <3>4 DEF Unchanged, Excused
      <3>5. CASE FindAnswers(t) /\ NotFound(t) /\ Under(request[t].name) = {}
        <4>1. CASE request[t].state = "absent"
          <5>1. request[t].name \in Kept(request[t], orgs)
            BY <3>5, <4>1, RequestFields DEF Keeps, Kept, Under
          <5>2. FinalName(request[t]) = request[t].name
            BY <4>1 DEF FinalName
          <5> QED BY <3>1, <3>5, <5>1, <5>2 DEF FindAnswers
        <4> QED BY <3>3, <3>4, <3>5, <4>1
      <3>6. CASE FindFails(t) /\ troubled'[t]
        <4>1. NotFound(t)
          BY <3>1, <3>6 DEF FindFails, Finish, Failed, Unchanged, TypeOK
        <4>2. CASE request[t].state = "absent"
          BY <3>1, <3>6, <4>2 DEF Excused
        <4> QED BY <3>3, <3>4, <4>1, <4>2
      <3>7. ASSUME FindAnswers(t), NEW i \in Under(request[t].name), Found(t, i)
            PROVE  Reached(t)'
        <4>1. i \in Live(orgs) /\ orgs[i].name = request[t].name /\ orgs' = orgs
          BY <3>7 DEF Under, FindAnswers
        <4>2. \/ request[t].state = "exists"
              \/ /\ request[t].state \in {"present", "enforced"}
                 /\ ~ShouldUpdate(request[t], orgs[i])
          <5>1. result'[t] # Failed
            BY <3>1 DEF Failed, Unchanged
          <5> QED BY <3>1, <3>7, <4>1, <5>1, FoundOutcome
        <4>3. CASE request[t].state = "exists"
          <5>1. request[t].name \in Kept(request[t], orgs)
            BY <4>1, <4>3, RequestFields DEF Keeps, Kept
          <5>2. FinalName(request[t]) = request[t].name
            BY <4>3 DEF FinalName
          <5> QED BY <3>1, <4>1, <5>1, <5>2
        <4>4. CASE ~ShouldUpdate(request[t], orgs[i]) /\ request[t].state \in {"present", "enforced"}
          <5>1. FinalName(request[t]) = request[t].name
            BY <4>4, InOrderKeeps DEF FinalName
          <5>2. CASE request[t].name \in Kept(request[t], orgs)
            BY <3>1, <4>1, <5>1, <5>2
          <5>3. CASE request[t].description \in Texts \ Numerals /\ Numbered(request[t], orgs)
            <6>1. numbered'[t] /\ ~wrote'[t]
              BY <1>2, <3>7, <4>1, <5>3, OwnStep DEF FindAnswers, Phased
            <6>2. NumberSkipped(t)'
              BY <3>1, <4>4, <5>3, <6>1, InOrderKeeps DEF NumberSkipped
            <6> QED BY <6>2
          <5> QED BY <4>4, <5>2, <5>3, InOrderKeeps
        <4> QED BY <4>2, <4>3, <4>4
      <3>8. CASE Writes(t)
        <4>1. CASE Create(t)
          <5>1. request[t].name \in met'[t]
            BY <3>1, <4>1, CreatedKeeps
          <5>2. wrote'[t]
            BY <1>2, <4>1, OwnStep, CreateEffect
          <5>3. target'[t] = NoId
            BY <4>1, WriteEnds DEF Create, Phased, Writes
          <5> QED BY <3>1, <5>1, <5>2, <5>3 DEF MadeOldName
        <4>2. CASE Update(t)
          BY <3>1, <4>2, UpdatedKeeps
        <4>3. CASE Delete(t)
          BY <3>1, <4>3, DeletedIsAbsent
        <4> QED BY <3>8, <4>1, <4>2, <4>3 DEF Writes
      <3>9. CASE result'[t].failed
        BY <3>1, <3>9
      <3> QED BY <1>2, <3>2, <3>5, <3>6, <3>7, <3>8, <3>9, OwnStep DEF FindAnswers
    <2> QED BY <2>1, <2>2 DEF SuccessWasReached
  <1> QED BY <1>1, <1>2 DEF PromisesNext

\* Whatever other tasks do between its requests, and whichever of its requests
\* fail, a task that reports success saw its promise kept while it ran.
THEOREM SuccessIsReal == PromisesSpec => []SuccessWasReached
  <1>1. PromisesInit => Doomed /\ SuccessWasReached
    BY DEF PromisesInit, Init, Doomed, SuccessWasReached, Succeeded
  <1>2. Sound /\ Doomed /\ SuccessWasReached /\ [PromisesNext]_promiseVars
          => Sound' /\ Doomed' /\ SuccessWasReached'
    BY NextSound, NextDoomed, NextReached
  <1> QED BY <1>1, <1>2, InitSound, PTL DEF PromisesSpec

------------------------------------------------------------------------------
(* "changed". *)

\* While nobody crosses it, a task about to update has in sight what it found.
Sighted ==
  \A t \in Tasks :
    pc[t] \in {"reread", "update"} /\ ~crossed[t] =>
      /\ target[t] \in Live(orgs)
      /\ orgs[target[t]].name = request[t].name
      /\ ShouldUpdate(request[t], orgs[target[t]])
      /\ pc[t] = "update" => current[t] \in {Gone, orgs[target[t]]}

\* Every step keeps what an uncrossed task about to update has in sight.
LEMMA NextSighted == Sound /\ Sighted /\ [PromisesNext]_promiseVars => Sighted'
  <1> SUFFICES ASSUME Sound, Sighted, [PromisesNext]_promiseVars PROVE Sighted'
    OBVIOUS
  <1> USE DEF Sound
  <1>1. CASE UNCHANGED promiseVars
    BY <1>1 DEF Sighted, Live, promiseVars, resourceVars
  <1> DEFINE
    OnSight(u) == /\ target[u] \in Live(orgs)
                  /\ orgs[target[u]].name = request[u].name
                  /\ ShouldUpdate(request[u], orgs[target[u]])
                  /\ pc[u] = "update" => current[u] \in {Gone, orgs[target[u]]}
  <1>2. ASSUME NEW t \in Tasks, PromisesStep(t) PROVE Sighted'
    <2>1. ASSUME NEW u \in Tasks, u # t, pc'[u] \in {"reread", "update"}, ~crossed'[u]
          PROVE  OnSight(u)'
      <3>1. /\ pc'[u] = pc[u] /\ target'[u] = target[u] /\ current'[u] = current[u]
            /\ request' = request /\ ~crossed[u]
            /\ Running(u) /\ ~crossed'[u] => orgs' = orgs
        BY <1>2, <2>1, OthersStay
      <3>2. orgs' = orgs
        BY <2>1, <3>1 DEF Running
      <3>3. OnSight(u)
        BY <2>1, <3>1 DEF Sighted
      <3> QED BY <3>1, <3>2, <3>3 DEF Live, ShouldUpdate
    <2>2. ASSUME pc'[t] \in {"reread", "update"}, ~crossed'[t] PROVE OnSight(t)'
      <3>1. ~crossed[t] /\ request' = request
        BY <1>2, <2>2, OwnStep
      <3>2. CASE Begin(t)
        BY <2>2, <3>2 DEF Begin, TypeOK
      <3>3. CASE Reread(t)
        <4>1. OnSight(t)
          BY <3>1, <3>3 DEF Sighted, Reread
        <4>2. orgs' = orgs /\ target' = target /\ current'[t] \in {Gone, orgs[target[t]]}
          BY <3>3 DEF Reread, TypeOK
        <4> QED BY <3>1, <4>1, <4>2 DEF Live, ShouldUpdate
      <3>4. CASE NotFound(t)
        BY <2>2, <3>4, NotFoundOutcome
      <3>5. ASSUME FindAnswers(t), NEW i \in Under(request[t].name), Found(t, i)
            PROVE  OnSight(t)'
        <4>1. i \in Live(orgs) /\ orgs[i].name = request[t].name
          BY <3>5 DEF Under
        <4>2. target'[t] = i /\ ShouldUpdate(request[t], orgs[i]) /\ pc'[t] = "reread"
          BY <2>2, <3>5, <4>1, FoundOutcome
        <4>3. orgs' = orgs
          BY <3>5 DEF FindAnswers
        <4> QED BY <3>1, <4>1, <4>2, <4>3 DEF Live, ShouldUpdate
      <3>6. CASE FindFails(t) /\ ~NotFound(t)
        BY <2>2, <3>6 DEF FindFails, Finish, TypeOK
      <3>7. CASE Writes(t) \/ WriteFails(t)
        BY <2>2, <3>7, WriteEnds
      <3> QED BY <1>2, <3>2, <3>3, <3>4, <3>5, <3>6, <3>7, OwnStep DEF FindAnswers
    <2> QED BY <2>1, <2>2 DEF Sighted
  <1> QED BY <1>1, <1>2 DEF PromisesNext

\* An update that nobody crosses changes something, and sees that it does.
LEMMA UpdateChanges ==
  ASSUME Sound, Sighted, NEW t \in Tasks, Update(t), ~crossed[t]
  PROVE  PatchChanges(t) /\ orgs' # orgs
  <1> DEFINE k == target[t]
  <1>1. /\ k \in Live(orgs) /\ orgs[k].name = request[t].name
        /\ ShouldUpdate(request[t], orgs[k]) /\ current[t] \in {Gone, orgs[k]}
    BY DEF Sighted, Update
  <1>2. orgs'[k] = Patched(t)
    BY PutEffect DEF Sound
  <1>3. Patched(t) # orgs[k]
    <2>1. CASE request[t].newName # Unset
      <3>1. PatchedName(t) # orgs[k].name
        BY <1>1, <2>1, RequestFields DEF PatchedName, Sound
      <3> QED BY <3>1 DEF Patched
    <2>2. CASE request[t].newName = Unset
      <3>1. request[t].description # Unset /\ request[t].description # orgs[k].description
        BY <1>1, <2>2 DEF ShouldUpdate, Differs
      <3>2. PatchedDescription(t) # orgs[k].description
        BY <3>1 DEF PatchedDescription
      <3> QED BY <3>2 DEF Patched
    <2> QED BY <2>1, <2>2
  <1>4. Patched(t) # Gone
    BY <1>1, PatchedOrg, ResourceAssumption DEF Sound
  <1>5. PatchChanges(t)
    BY <1>1, <1>3, <1>4 DEF PatchChanges
  <1> QED BY <1>2, <1>3, <1>5

\* What a write that works reports.
LEMMA WriteResult ==
  ASSUME TypeOK, NEW t \in Tasks, Writes(t), ~result'[t].failed
  PROVE  /\ Create(t) \/ Delete(t) => result'[t] = Changed
         /\ Update(t) /\ PatchChanges(t) => result'[t] = Changed
  <1>1. ASSUME NEW r, Takes(t, r) PROVE result'[t] = r
    BY <1>1 DEF Takes, Finish, Failed, Unchanged, TypeOK
  <1> QED BY <1>1 DEF Create, Update, Delete

\* A task that is done takes no step.
LEMMA NotYetDone ==
  ASSUME NEW t \in Tasks, PromisesStep(t)
  PROVE  pc[t] # "done"
  BY DEF PromisesStep, Step, Begin, FindAnswers, FindFails, Reread, Create, Update, Delete,
         WriteFails

\* Every step keeps the claim that changed tells the truth.
LEMMA NextChanged ==
  Sound /\ Sighted /\ ChangedIsTrue /\ [PromisesNext]_promiseVars => ChangedIsTrue'
  <1> SUFFICES ASSUME Sound, Sighted, ChangedIsTrue, [PromisesNext]_promiseVars
               PROVE  ChangedIsTrue'
    OBVIOUS
  <1> USE DEF Sound
  <1>1. CASE UNCHANGED promiseVars
    BY <1>1 DEF ChangedIsTrue, Succeeded, Acts, promiseVars, resourceVars
  <1> DEFINE
    Honest(u) == /\ Succeeded(u) /\ Acts(u) /\ ~crossed[u] => (result[u].changed <=> wrote[u])
                 /\ wrote[u] => Acts(u)
  <1>2. ASSUME NEW t \in Tasks, PromisesStep(t) PROVE ChangedIsTrue'
    <2>1. ASSUME NEW u \in Tasks, u # t PROVE Honest(u)'
      <3>1. /\ request' = request /\ pc'[u] = pc[u] /\ result'[u] = result[u]
            /\ wrote'[u] = wrote[u] /\ (crossed[u] => crossed'[u])
        BY <1>2, <2>1, OthersStay
      <3>2. Honest(u)
        BY DEF ChangedIsTrue
      <3> QED BY <3>1, <3>2 DEF Succeeded, Acts
    <2>2. Honest(t)'
      <3>1. /\ wrote'[t] = (orgs' # orgs) /\ request' = request /\ crossed'[t] = crossed[t]
            /\ Acts(t)' = Acts(t)
        BY <1>2, OwnStep, NotYetDone DEF Phased, Acts
      <3>2. wrote'[t] => Writes(t)
        BY <1>2, <3>1, OnlyWrites DEF PromisesStep
      <3>3. wrote'[t] => Acts(t)
        BY <3>2 DEF Writes, Create, Update, Delete, Phased
      <3>4. ASSUME Succeeded(t)', Acts(t), ~crossed[t] PROVE result'[t].changed <=> wrote'[t]
        <4>1. pc'[t] = "done" /\ ~result'[t].failed
          BY <3>4 DEF Succeeded
        <4>2. CASE Writes(t)
          <5>1. orgs' # orgs
            BY <3>4, <4>2, CreateEffect, PutEffect, UpdateChanges DEF Writes
          <5>2. result'[t] = Changed
            BY <3>4, <4>1, <4>2, WriteResult, UpdateChanges DEF Writes
          <5> QED BY <3>1, <5>1, <5>2 DEF Changed, Unchanged
        <4>3. CASE ~Writes(t)
          <5>1. ~wrote'[t]
            BY <3>2, <4>3
          <5>2. CASE Begin(t) \/ Reread(t)
            BY <4>1, <5>2 DEF Begin, Reread, TypeOK
          <5>3. CASE NotFound(t)
            <6>1. result'[t] = Unchanged
              BY <3>4, <4>1, <5>3, NotFoundOutcome
            <6> QED BY <5>1, <6>1 DEF Unchanged
          <5>4. ASSUME NEW i \in Under(request[t].name), Found(t, i)
                PROVE  ~result'[t].changed
            <6>1. result'[t] \in {Exists, Unchanged, Failed}
              BY <3>4, <4>1, <5>4, FoundOutcome DEF Under
            <6> QED BY <6>1 DEF Exists, Unchanged, Failed
          <5>5. CASE FindFails(t) /\ ~NotFound(t)
            BY <4>1, <5>5 DEF FindFails, Finish, Failed, Unchanged, TypeOK
          <5> QED BY <1>2, <4>1, <4>3, <5>1, <5>2, <5>3, <5>4, <5>5, OwnStep DEF FindAnswers
        <4> QED BY <4>2, <4>3
      <3> QED BY <3>1, <3>3, <3>4
    <2> QED BY <2>1, <2>2 DEF ChangedIsTrue
  <1> QED BY <1>1, <1>2 DEF PromisesNext

\* A task that nobody crosses reports "changed" exactly when it wrote, and in
\* check mode nothing is written.
THEOREM ChangedIsHonest == PromisesSpec => []ChangedIsTrue
  <1>1. PromisesInit => Sighted /\ ChangedIsTrue
    BY DEF PromisesInit, Init, Sighted, ChangedIsTrue, Succeeded
  <1>2. Sound /\ Sighted /\ ChangedIsTrue /\ [PromisesNext]_promiseVars
          => Sound' /\ Sighted' /\ ChangedIsTrue'
    BY NextSound, NextSighted, NextChanged
  <1> QED BY <1>1, <1>2, InitSound, PTL DEF PromisesSpec

\* An update by a task that nobody crosses leaves the fields alone that the task
\* does not mention.
THEOREM UpdatesKeepTheRest == PromisesSpec => UncrossedUpdatesKeepTheRest
  <1> DEFINE Rest(t) ==
        Update(t) /\ ~crossed[t] =>
          /\ request[t].description = Unset => orgs'[target[t]].description = orgs[target[t]].description
          /\ request[t].newName = Unset => orgs'[target[t]].name = orgs[target[t]].name
  <1>1. PromisesInit => Sighted
    BY DEF PromisesInit, Init, Sighted
  <1>2. Sound /\ Sighted /\ [PromisesNext]_promiseVars => Sound' /\ Sighted'
    BY NextSound, NextSighted
  <1>3. Sound /\ Sighted => \A t \in Tasks : Rest(t)
    <2> SUFFICES ASSUME Sound, Sighted, NEW t \in Tasks, Update(t), ~crossed[t]
                 PROVE  Rest(t)
      OBVIOUS
    <2>1. /\ orgs[target[t]].name = request[t].name
          /\ current[t] \in {Gone, orgs[target[t]]}
      BY DEF Sighted, Update
    <2>2. orgs'[target[t]] = Patched(t)
      BY PutEffect DEF Sound
    <2>3. Patched(t).name = PatchedName(t) /\ Patched(t).description = PatchedDescription(t)
      BY DEF Patched
    <2>. QED BY <2>1, <2>2, <2>3 DEF PatchedName, PatchedDescription
  <1>. QED BY <1>1, <1>2, <1>3, InitSound, PTL DEF PromisesSpec, UncrossedUpdatesKeepTheRest

------------------------------------------------------------------------------
(* Idempotence. *)

\* A task that renames nothing, had nothing to do when it began and that nobody
\* has crossed.
Content(t) == held[t] /\ ~crossed[t] /\ request[t].newName = Unset

\* It still has nothing to do, and only a failed find can have brought the task
\* past its find.
Steady ==
  \A t \in Tasks :
    Running(t) /\ Content(t) =>
      /\ InPlace(request[t], orgs)
      /\ pc[t] = "find" \/ (pc[t] = "create" /\ troubled[t])

\* What it is to have nothing to do, state by state.
LEMMA NothingToDo ==
  ASSUME TypeOK, NEW t \in Tasks, InPlace(request[t], orgs), request[t].newName = Unset
  PROVE  /\ request[t].state \in {"present", "enforced"} =>
              \E i \in Under(request[t].name) : Fits(request[t], orgs[i])
         /\ request[t].state = "absent" => Under(request[t].name) = {}
         /\ request[t].state = "exists" => Under(request[t].name) # {}
  BY DEF InPlace, Keeps, Fits, Under

\* The step of a content task.
LEMMA ContentStep ==
  ASSUME Sound, Steady, NEW t \in Tasks, PromisesStep(t), Content(t)'
  PROVE  /\ orgs' = orgs
         /\ InPlace(request[t], orgs)
         /\ \/ pc'[t] = "find"
            \/ pc'[t] = "create" /\ troubled'[t]
            \/ pc'[t] = "done" /\ (troubled'[t] \/ (~result'[t].failed /\ ~result'[t].changed))
  <1> USE DEF Sound
  <1> DEFINE
    Quiet == \/ pc'[t] = "find"
             \/ pc'[t] = "create" /\ troubled'[t]
             \/ pc'[t] = "done" /\ (troubled'[t] \/ (~result'[t].failed /\ ~result'[t].changed))
  <1>1. ~crossed[t] /\ request[t].newName = Unset
    BY OwnStep DEF Content
  <1>2. CASE Begin(t)
    <2>1. pc'[t] = "find" /\ orgs' = orgs
      BY <1>2 DEF Begin, TypeOK
    <2>2. InPlace(request[t], orgs)
      BY <1>2, OwnStep DEF Content
    <2> QED BY <2>1, <2>2
  <1>3. CASE ~Begin(t)
    <2>1. Content(t)
      BY <1>1, <1>3, OwnStep DEF Content
    <2>2. Running(t)
      BY <1>3, OwnStep DEF Running, FindAnswers, FindFails, Reread, Writes, Create, Update,
                           Delete, WriteFails
    <2>3. InPlace(request[t], orgs) /\ (pc[t] = "find" \/ (pc[t] = "create" /\ troubled[t]))
      BY <2>1, <2>2 DEF Steady
    <2>4. /\ request[t].state \in {"present", "enforced"} =>
               \E i \in Under(request[t].name) : Fits(request[t], orgs[i])
          /\ request[t].state = "absent" => Under(request[t].name) = {}
          /\ request[t].state = "exists" => Under(request[t].name) # {}
      BY <1>1, <2>3, NothingToDo
    <2>5. ~Reread(t) /\ ~Update(t) /\ ~Delete(t)
      BY <2>3 DEF Reread, Update, Delete
    <2>6. ~Create(t)
      <3>1. ASSUME Create(t) PROVE FALSE
        BY <2>4, <3>1 DEF Create, Phased
      <3> QED BY <3>1
    <2>7. ASSUME result'[t] \in {Unchanged, Exists}
          PROVE  ~result'[t].failed /\ ~result'[t].changed
      BY <2>7 DEF Unchanged, Exists
    <2>8. CASE FindAnswers(t)
      <3>1. orgs' = orgs
        BY <2>8 DEF FindAnswers
      <3>2. CASE Under(request[t].name) = {} /\ NotFound(t)
        BY <2>3, <2>4, <2>7, <3>1, <3>2, NotFoundOutcome
      <3>3. ASSUME NEW i \in Under(request[t].name), Found(t, i) PROVE Quiet
        <4>1. i \in Live(orgs) /\ request[t].state # "absent"
          BY <2>4 DEF Under
        <4>2. request[t].state \in {"present", "enforced"} => ~ShouldUpdate(request[t], orgs[i])
          <5>1. ASSUME request[t].state \in {"present", "enforced"}
                PROVE  Fits(request[t], orgs[i])
            BY <2>4, <5>1 DEF Under, UniqueNames
          <5> QED BY <1>1, <5>1 DEF Fits, ShouldUpdate
        <4>3. pc'[t] = "done" /\ result'[t] \in {Unchanged, Exists}
          BY <3>3, <4>1, <4>2, FoundOutcome
        <4> QED BY <2>7, <4>3
      <3> QED BY <2>3, <2>8, <3>1, <3>2, <3>3 DEF FindAnswers
    <2>9. CASE FindFails(t) /\ troubled'[t]
      <3>1. orgs' = orgs
        BY <2>9 DEF FindFails
      <3>2. pc'[t] \in {"create", "done"}
        <4>1. CASE NotFound(t)
          BY <4>1, NotFoundOutcome
        <4>2. CASE ~NotFound(t)
          BY <2>9, <4>2 DEF FindFails, Finish, TypeOK
        <4> QED BY <4>1, <4>2
      <3> QED BY <2>3, <2>9, <3>1, <3>2
    <2>10. CASE WriteFails(t)
      <3>1. orgs' = orgs /\ pc'[t] = "done"
        BY <2>10, WriteEnds DEF WriteFails
      <3>2. troubled'[t]
        BY <2>3, <2>10, OwnStep DEF FindAnswers, WriteFails
      <3> QED BY <2>3, <3>1, <3>2
    <2> QED BY <1>3, <2>5, <2>6, <2>8, <2>9, <2>10, OwnStep DEF Writes
  <1> QED BY <1>2, <1>3

\* Every step leaves an undisturbed task with nothing to do, and the task quiet.
LEMMA NextQuiet ==
  Sound /\ Steady /\ SecondRunIsQuiet /\ [PromisesNext]_promiseVars
    => Steady' /\ SecondRunIsQuiet'
  <1> SUFFICES ASSUME Sound, Steady, SecondRunIsQuiet, [PromisesNext]_promiseVars
               PROVE  Steady' /\ SecondRunIsQuiet'
    OBVIOUS
  <1> USE DEF Sound
  <1>1. CASE UNCHANGED promiseVars
    BY <1>1 DEF Steady, SecondRunIsQuiet, Content, Running, InPlace, Keeps, Live,
                promiseVars, resourceVars
  <1> DEFINE
    IsSteady(u) == Running(u) /\ Content(u) =>
                     /\ InPlace(request[u], orgs)
                     /\ pc[u] = "find" \/ (pc[u] = "create" /\ troubled[u])
    IsQuiet(u) == pc[u] = "done" /\ held[u] /\ ~crossed[u] /\ request[u].newName = Unset =>
                    /\ ~wrote[u]
                    /\ troubled[u] \/ (~result[u].failed /\ ~result[u].changed)
  <1>2. ASSUME NEW t \in Tasks, PromisesStep(t) PROVE Steady' /\ SecondRunIsQuiet'
    <2>1. ASSUME NEW u \in Tasks, u # t PROVE IsSteady(u)' /\ IsQuiet(u)'
      <3>1. /\ request' = request /\ pc'[u] = pc[u] /\ held'[u] = held[u]
            /\ troubled'[u] = troubled[u] /\ result'[u] = result[u] /\ wrote'[u] = wrote[u]
            /\ (crossed[u] => crossed'[u])
            /\ Running(u) /\ ~crossed'[u] => orgs' = orgs
        BY <1>2, <2>1, OthersStay
      <3>2. IsSteady(u) /\ IsQuiet(u)
        BY DEF Steady, SecondRunIsQuiet
      <3>3. IsQuiet(u)'
        BY <3>1, <3>2
      <3>4. ASSUME Running(u)', Content(u)' PROVE Running(u) /\ Content(u) /\ orgs' = orgs
        BY <3>1, <3>4 DEF Running, Content
      <3>5. IsSteady(u)'
        BY <3>1, <3>2, <3>4 DEF InPlace, Keeps, Live
      <3> QED BY <3>3, <3>5
    <2>2. ASSUME Content(t)' PROVE IsSteady(t)' /\ IsQuiet(t)'
      <3>1. /\ orgs' = orgs /\ InPlace(request[t], orgs)
            /\ \/ pc'[t] = "find"
               \/ pc'[t] = "create" /\ troubled'[t]
               \/ pc'[t] = "done" /\ (troubled'[t] \/ (~result'[t].failed /\ ~result'[t].changed))
        BY <1>2, <2>2, ContentStep
      <3>2. request' = request /\ ~wrote'[t]
        BY <1>2, <3>1, OwnStep, NotYetDone DEF Phased
      <3>3. InPlace(request[t], orgs)'
        BY <3>1, <3>2 DEF InPlace, Keeps, Live
      <3>4. IsSteady(t)'
        BY <3>1, <3>3 DEF Running
      <3>5. IsQuiet(t)'
        BY <3>1, <3>2
      <3> QED BY <3>4, <3>5
    <2>3. ASSUME ~Content(t)' PROVE IsSteady(t)' /\ IsQuiet(t)'
      BY <2>3 DEF Content
    <2>4. \A u \in Tasks : IsSteady(u)' /\ IsQuiet(u)'
      BY <2>1, <2>2, <2>3
    <2> QED BY <2>4 DEF Steady, SecondRunIsQuiet
  <1> QED BY <1>1, <1>2 DEF PromisesNext

\* A task that by its own comparison has nothing to do, and that nobody crosses,
\* writes nothing and reports no change.
THEOREM TasksAreIdempotent == PromisesSpec => []SecondRunIsQuiet
  <1>1. PromisesInit => Steady /\ SecondRunIsQuiet
    BY DEF PromisesInit, Init, Steady, SecondRunIsQuiet, Running
  <1>2. Sound /\ Steady /\ SecondRunIsQuiet /\ [PromisesNext]_promiseVars
          => Sound' /\ Steady' /\ SecondRunIsQuiet'
    BY NextSound, NextQuiet
  <1> QED BY <1>1, <1>2, InitSound, PTL DEF PromisesSpec
===============================================================================
