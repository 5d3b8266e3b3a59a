-------------------------- MODULE GrantPromisesProofs --------------------------
(***************************************************************************)
(* Proofs about the role assignments, for any number of tasks, of users,   *)
(* teams and objects, and for lists of any length.                         *)
(***************************************************************************)
EXTENDS GrantPromises, SequenceTheorems, TLAPS

Pcs == {"begin", "find", "create", "delete", "ok", "failed"}

-----------------------------------------------------------------------------
(* The inductive invariant. *)

\* No grant is there twice.
Unique == \A i, j \in Live : grants[i] = grants[j] => i = j

\* The grant is on the object the task is at, and is what these names say.
Respects(t, names, g) ==
  /\ g.object = Object(t)
  /\ request[t].who \in names => g.who = request[t].who
  /\ request[t].role \in names => g.role = request[t].role

\* The id in hand was found for the object the task is at; an id is never given
\* to another grant.
FoundRight(t) ==
  pc[t] = "delete" =>
    /\ request[t].state = "absent"
    /\ found[t] \in DOMAIN grants
    /\ found[t] \in Live => Respects(t, resolved[t], grants[found[t]])

\* Where the paths of the states and of the two plugins lead.
Paths(t) ==
  /\ pc[t] = "create" => request[t].state = "present"
  /\ ByUser(t) /\ pc[t] \notin {"begin", "failed"} => Knows(t)
  /\ pc[t] = "begin" => at[t] = 1 /\ ~wrote[t]

\* The history knows the present.
Follows(t) ==
  Running(t) => \A o \in Asked(t) : (Has(t, o) => o \in had[t]) /\ (~Has(t, o) => o \in lacked[t])

\* A task by which a delete may be swallowed.
Swallows(t) == ~ByUser(t) /\ request[t].inList /\ request[t].state = "absent"

\* What the task has written and what it will report.
Written(t) ==
  /\ changed[t] => wrote[t]
  /\ wrote[t] /\ pc[t] # "failed" => changed[t] \/ Swallows(t)
  /\ request[t].state = "present" /\ lacked[t] = {} => ~wrote[t]
  /\ Knows(t) /\ request[t].state = "absent" /\ had[t] = {} => ~wrote[t]

\* What the task has done to the objects it is done with.
Kept(t) ==
  \A k \in DOMAIN request[t].objects : DoneWith(t, k) =>
    /\ Knows(t) /\ request[t].state = "present" => request[t].objects[k] \in had[t]
    /\ ByUser(t) /\ request[t].inList /\ request[t].state = "absent" => request[t].objects[k] \in lacked[t]

Own(t) == FoundRight(t) /\ Paths(t) /\ Follows(t) /\ Written(t) /\ Kept(t)

Invariant == TypeOK /\ Unique /\ \A t \in Tasks : Own(t)

-----------------------------------------------------------------------------
(* Lemmas about requests and steps. *)

\* The object a task is at is one it was asked about.
LEMMA ObjectAsked ==
  ASSUME TypeOK, NEW t \in Tasks
  PROVE  /\ Object(t) \in Asked(t) /\ Object(t) \in Objects /\ Asked(t) \subseteq Objects
         /\ request[t].objects \in Seq(Objects) /\ Len(request[t].objects) \in Nat
         /\ DOMAIN request[t].objects = 1..Len(request[t].objects)
         /\ request[t].who \in Users \cup Teams /\ request[t].role \in Roles
         /\ Wanted(t) \in Grant
<1>1. request[t] \in AllRequests
  BY DEF TypeOK
<1>2. request[t].objects \in Seq(Objects) /\ request[t].who \in Users \cup Teams /\ request[t].role \in Roles
  <2>1. CASE request[t] \in [who : Users \cup Teams, role : Roles, state : States, inList : {TRUE}, objects : Seq(Objects) \ {<<>>}]
    BY <2>1
  <2>2. CASE request[t] \in [who : Users \cup Teams, role : Roles, state : States, inList : {FALSE}, objects : {<<o>> : o \in Objects}]
    <3>1. /\ request[t].objects \in {<<o>> : o \in Objects}
          /\ request[t].who \in Users \cup Teams /\ request[t].role \in Roles
      BY <2>2
    <3>2. PICK o \in Objects : request[t].objects = <<o>>
      BY <3>1
    <3>. QED BY <3>1, <3>2
  <2>. QED BY <1>1, <2>1, <2>2 DEF AllRequests
<1>3. Len(request[t].objects) \in Nat /\ DOMAIN request[t].objects = 1..Len(request[t].objects)
  BY <1>2, LenProperties
<1>4. at[t] \in DOMAIN request[t].objects
  BY <1>3 DEF TypeOK
<1>5. Object(t) \in Objects
  BY <1>2, <1>3, <1>4 DEF Object
<1>. QED BY <1>2, <1>3, <1>4, <1>5 DEF Object, Asked, Wanted, Grant

\* Going on: to the result after the last object, or to the next object.
LEMMA AdvanceFacts ==
  ASSUME TypeOK, NEW t \in Tasks, NEW from \in Pcs, NEW sees \in BOOLEAN, Advance(t, from, sees)
  PROVE  /\ pc[t] = from
         /\ pc' \in [Tasks -> Pcs] /\ at' \in [Tasks -> Nat] /\ seen' \in [Tasks -> BOOLEAN]
         /\ at'[t] \in 1..Len(request[t].objects)
         /\ pc'[t] \in {"find", "ok", "failed"}
         /\ \A k \in Nat : k < at'[t] \/ (k = at'[t] /\ pc'[t] = "ok") => k < at[t] \/ k = at[t]
         /\ \A u \in Tasks : u # t => pc'[u] = pc[u] /\ at'[u] = at[u]
<1>1. Len(request[t].objects) \in Nat /\ at[t] \in 1..Len(request[t].objects)
  BY ObjectAsked DEF TypeOK
<1>2. seen' \in [Tasks -> BOOLEAN]
  BY DEF Advance, TypeOK
<1>3. CASE at[t] = Len(request[t].objects)
  <2>1. /\ at' = at /\ pc[t] = from
        /\ \E to \in {"ok", "failed"} : pc' = [pc EXCEPT ![t] = to]
    BY <1>3 DEF Advance, GoTo
  <2>2. pc' \in [Tasks -> Pcs] /\ pc'[t] \in {"ok", "failed"}
        /\ \A u \in Tasks : u # t => pc'[u] = pc[u]
    BY <2>1 DEF TypeOK, Pcs
  <2>. QED BY <1>1, <1>2, <2>1, <2>2 DEF TypeOK
<1>4. CASE at[t] # Len(request[t].objects)
  <2>1. /\ pc[t] = from /\ pc' = [pc EXCEPT ![t] = "find"]
        /\ at' = [at EXCEPT ![t] = at[t] + 1]
    BY <1>4 DEF Advance, GoTo
  <2>2. /\ pc' \in [Tasks -> Pcs] /\ pc'[t] = "find"
        /\ \A u \in Tasks : u # t => pc'[u] = pc[u]
    BY <2>1 DEF TypeOK, Pcs
  <2>3. at[t] + 1 \in Nat /\ at[t] + 1 \in 1..Len(request[t].objects)
    BY <1>1, <1>4
  <2>4. /\ at' \in [Tasks -> Nat] /\ at'[t] = at[t] + 1
        /\ \A u \in Tasks : u # t => at'[u] = at[u]
    BY <2>1, <2>3 DEF TypeOK
  <2>5. \A k \in Nat : k < at[t] + 1 => k < at[t] \/ k = at[t]
    BY <1>1
  <2>. QED BY <1>2, <2>1, <2>2, <2>3, <2>4, <2>5
<1>. QED BY <1>3, <1>4

\* A step to another place in the code.
LEMMA GoToFacts ==
  ASSUME TypeOK, NEW t \in Tasks, NEW from \in Pcs, NEW to \in Pcs, GoTo(t, from, to)
  PROVE  /\ pc[t] = from /\ pc' \in [Tasks -> Pcs] /\ pc'[t] = to
         /\ \A u \in Tasks : u # t => pc'[u] = pc[u]
BY DEF GoTo, TypeOK, Pcs

\* What a task remembers after a step, its own and the others'.
Memory(t) ==
  /\ pc' \in [Tasks -> Pcs] /\ at' \in [Tasks -> Nat] /\ at'[t] \in 1..Len(request[t].objects)
  /\ resolved' \in [Tasks -> SUBSET (Users \cup Teams \cup Roles)] /\ found' \in [Tasks -> Nat]
  /\ seen' \in [Tasks -> BOOLEAN] /\ changed' \in [Tasks -> BOOLEAN]
  /\ \A u \in Tasks : u # t =>
       /\ pc'[u] = pc[u] /\ at'[u] = at[u] /\ resolved'[u] = resolved[u]
       /\ found'[u] = found[u] /\ changed'[u] = changed[u]

\* What a step can do to the grants: nothing, one more, or one less.
GrantsMove ==
  \/ UNCHANGED grants
  \/ \E g \in Grant : grants' = Append(grants, g)
  \/ \E i \in Live : grants' = [grants EXCEPT ![i] = Gone]

\* Every step keeps the types of what the task remembers.
LEMMA StepFrame ==
  ASSUME TypeOK, NEW t \in Tasks, Step(t)
  PROVE  UNCHANGED request /\ Memory(t) /\ GrantsMove
<1> DEFINE Still == UNCHANGED at /\ UNCHANGED seen
           Moves == \E from \in Pcs, to \in Pcs : GoTo(t, from, to)
           Goes == \E from \in Pcs, sees \in BOOLEAN : Advance(t, from, sees)
<1>1. ASSUME (Moves /\ Still) \/ Goes,
             resolved' \in [Tasks -> SUBSET (Users \cup Teams \cup Roles)], found' \in [Tasks -> Nat], changed' \in [Tasks -> BOOLEAN],
             \A u \in Tasks : u # t => resolved'[u] = resolved[u] /\ found'[u] = found[u] /\ changed'[u] = changed[u]
      PROVE  Memory(t)
  <2>1. CASE Moves /\ Still
    <3>1. pc' \in [Tasks -> Pcs] /\ \A u \in Tasks : u # t => pc'[u] = pc[u]
      BY <2>1, GoToFacts
    <3>2. at' = at /\ seen' = seen /\ at[t] \in 1..Len(request[t].objects)
      BY <2>1 DEF TypeOK
    <3>. QED BY <1>1, <3>1, <3>2 DEF Memory, TypeOK
  <2>2. CASE Goes
    BY <1>1, <2>2, AdvanceFacts DEF Memory
  <2>. QED BY <1>1, <2>1, <2>2
<1>2. /\ resolved \in [Tasks -> SUBSET (Users \cup Teams \cup Roles)] /\ found \in [Tasks -> Nat] /\ changed \in [Tasks -> BOOLEAN]
      /\ "find" \in Pcs /\ "create" \in Pcs /\ "delete" \in Pcs /\ "begin" \in Pcs /\ "failed" \in Pcs
      /\ TRUE \in BOOLEAN /\ FALSE \in BOOLEAN
  BY DEF TypeOK, Pcs
<1>3. Live \subseteq Nat
  BY DEF Live, TypeOK
<1> HIDE DEF Still, Moves, Goes
<1>4. CASE Resolve(t)
  <2>1. Moves /\ Still
    BY <1>2, <1>4 DEF Resolve, Moves, Still
  <2>2. /\ resolved' \in [Tasks -> SUBSET (Users \cup Teams \cup Roles)] /\ UNCHANGED found /\ UNCHANGED changed
        /\ UNCHANGED grants /\ UNCHANGED request
        /\ \A u \in Tasks : u # t => resolved'[u] = resolved[u]
    <3>1. Named(t) \subseteq Users \cup Teams \cup Roles
      BY ObjectAsked DEF Named
    <3>. QED BY <1>2, <1>4, <3>1 DEF Resolve
  <2>. QED BY <1>1, <1>2, <2>1, <2>2 DEF GrantsMove
<1>5. CASE Find(t)
  <2>1. (Moves /\ Still) \/ Goes
    BY <1>2, <1>5 DEF Find, Moves, Still, Goes
  <2>2. /\ found' \in [Tasks -> Nat] /\ UNCHANGED resolved /\ UNCHANGED changed
        /\ UNCHANGED grants /\ UNCHANGED request
        /\ \A u \in Tasks : u # t => found'[u] = found[u]
    BY <1>2, <1>3, <1>5 DEF Find, Matches
  <2>. QED BY <1>1, <1>2, <2>1, <2>2 DEF GrantsMove
<1>6. CASE FindRaises(t)
  <2>1. (Moves /\ Still) \/ Goes
    BY <1>2, <1>6 DEF FindRaises, Moves, Still, Goes
  <2>. QED BY <1>1, <1>2, <1>6, <2>1 DEF FindRaises, GrantsMove
<1>7. CASE Create(t)
  <2>1. (Moves /\ Still) \/ Goes
    BY <1>2, <1>7 DEF Create, Moves, Still, Goes
  <2>2. /\ changed' \in [Tasks -> BOOLEAN] /\ UNCHANGED resolved /\ UNCHANGED found /\ UNCHANGED request
        /\ \A u \in Tasks : u # t => changed'[u] = changed[u]
    BY <1>2, <1>7 DEF Create
  <2>3. Wanted(t) \in Grant /\ grants' = Append(grants, Wanted(t))
    BY <1>7, ObjectAsked DEF Create
  <2>. QED BY <1>1, <1>2, <2>1, <2>2, <2>3 DEF GrantsMove
<1>8. CASE CreateFails(t)
  <2>1. Moves /\ Still
    BY <1>2, <1>8 DEF CreateFails, Moves, Still
  <2>. QED BY <1>1, <1>2, <1>8, <2>1 DEF CreateFails, GrantsMove
<1>9. CASE Delete(t)
  <2>1. (Moves /\ Still) \/ Goes
    BY <1>2, <1>9 DEF Delete, DeleteRaises, Moves, Still, Goes
  <2>2. /\ changed' \in [Tasks -> BOOLEAN] /\ UNCHANGED resolved /\ UNCHANGED found /\ UNCHANGED request
        /\ \A u \in Tasks : u # t => changed'[u] = changed[u]
    BY <1>2, <1>9 DEF Delete
  <2>3. found[t] \in Live /\ grants' = [grants EXCEPT ![found[t]] = Gone]
    BY <1>9 DEF Delete
  <2>. QED BY <1>1, <1>2, <2>1, <2>2, <2>3 DEF GrantsMove
<1>10. CASE DeleteFails(t)
  <2>1. (Moves /\ Still) \/ Goes
    BY <1>2, <1>10 DEF DeleteFails, DeleteRaises, Moves, Still, Goes
  <2>. QED BY <1>1, <1>2, <1>10, <2>1 DEF DeleteFails, GrantsMove
<1>. QED BY <1>4, <1>5, <1>6, <1>7, <1>8, <1>9, <1>10 DEF Step

\* The grants stay a list; ids are never given again, nor do their grants change.
LEMMA GrantsFacts ==
  ASSUME TypeOK, GrantsMove
  PROVE  /\ grants' \in Seq(Grant \cup {Gone})
         /\ DOMAIN grants \subseteq DOMAIN grants'
         /\ \A i \in DOMAIN grants : i \in Live' => i \in Live /\ grants'[i] = grants[i]
<1>1. grants \in Seq(Grant \cup {Gone}) /\ Len(grants) \in Nat /\ DOMAIN grants = 1..Len(grants)
  BY DEF TypeOK
<1>2. CASE UNCHANGED grants
  BY <1>1, <1>2 DEF Live
<1>3. ASSUME NEW g \in Grant, grants' = Append(grants, g)
      PROVE  /\ grants' \in Seq(Grant \cup {Gone})
             /\ DOMAIN grants \subseteq DOMAIN grants'
             /\ \A i \in DOMAIN grants : i \in Live' => i \in Live /\ grants'[i] = grants[i]
  <2>1. /\ grants' \in Seq(Grant \cup {Gone}) /\ Len(grants') = Len(grants) + 1
        /\ \A i \in 1..Len(grants) : grants'[i] = grants[i]
    BY <1>1, <1>3, AppendProperties
  <2>2. DOMAIN grants' = 1..Len(grants')
    BY <2>1
  <2>. QED BY <1>1, <2>1, <2>2 DEF Live
<1>4. ASSUME NEW i \in Live, grants' = [grants EXCEPT ![i] = Gone]
      PROVE  /\ grants' \in Seq(Grant \cup {Gone})
             /\ DOMAIN grants \subseteq DOMAIN grants'
             /\ \A j \in DOMAIN grants : j \in Live' => j \in Live /\ grants'[j] = grants[j]
  <2>1. i \in 1..Len(grants)
    BY <1>1 DEF Live
  <2>2. grants' \in Seq(Grant \cup {Gone})
    BY <1>1, <1>4, <2>1, ExceptSeq
  <2>. QED BY <1>1, <1>4, <2>1, <2>2 DEF Live
<1>. QED BY <1>2, <1>3, <1>4 DEF GrantsMove

-----------------------------------------------------------------------------
(* A step of one task. *)

\* The history after a step: it grows, and knows the new state.
LEMMA HistoryFacts ==
  ASSUME TypeOK, NEW t \in Tasks, PromisesStep(t), NEW u \in Tasks
  PROVE  /\ had' \in [Tasks -> SUBSET Objects] /\ lacked' \in [Tasks -> SUBSET Objects]
         /\ had[u] \subseteq had'[u] /\ lacked[u] \subseteq lacked'[u]
         /\ u = t \/ Running(u) => \A o \in Asked(u) : (Has(u, o)' => o \in had'[u]) /\ (~Has(u, o)' => o \in lacked'[u])
         /\ Asked(u)' = Asked(u) /\ request' = request
<1>1. request' = request
  BY StepFrame DEF PromisesStep
<1>2. Asked(u)' = Asked(u)
  BY <1>1 DEF Asked
<1>3. had' \in [Tasks -> SUBSET Objects] /\ lacked' \in [Tasks -> SUBSET Objects]
  <2>1. \A v \in Tasks : Asked(v) \subseteq Objects /\ had[v] \subseteq Objects /\ lacked[v] \subseteq Objects
    BY ObjectAsked DEF TypeOK
  <2>. QED BY <2>1 DEF PromisesStep
<1>4. /\ had'[u] = IF u = t \/ Running(u) THEN had[u] \cup {o \in Asked(u) : Has(u, o)'} ELSE had[u]
      /\ lacked'[u] = IF u = t \/ Running(u) THEN lacked[u] \cup {o \in Asked(u) : ~Has(u, o)'} ELSE lacked[u]
  BY DEF PromisesStep
<1>. QED BY <1>1, <1>2, <1>3, <1>4

\* A step keeps the types.
LEMMA TypeStep ==
  ASSUME TypeOK, NEW t \in Tasks, PromisesStep(t)
  PROVE  TypeOK'
<1>1. UNCHANGED request /\ Memory(t) /\ GrantsMove
  BY StepFrame DEF PromisesStep
<1>2. grants' \in Seq(Grant \cup {Gone})
  BY <1>1, GrantsFacts
<1>3. \A u \in Tasks : at'[u] \in 1..Len(request[u].objects)
  BY <1>1 DEF Memory, TypeOK
<1>4. wrote' \in [Tasks -> BOOLEAN]
  BY DEF PromisesStep, TypeOK
<1>. QED BY <1>1, <1>2, <1>3, <1>4, HistoryFacts DEF TypeOK, Memory, Pcs

\* A step of another task leaves a task's part of the invariant alone.
LEMMA OtherKeeps ==
  ASSUME Invariant, NEW t \in Tasks, PromisesStep(t), NEW u \in Tasks, u # t
  PROVE  Own(u)'
<1>1. TypeOK /\ Own(u) /\ Step(t)
  BY DEF Invariant, PromisesStep
<1>2. UNCHANGED request /\ Memory(t) /\ GrantsMove
  BY <1>1, StepFrame
<1>3. /\ pc'[u] = pc[u] /\ at'[u] = at[u] /\ resolved'[u] = resolved[u] /\ found'[u] = found[u]
      /\ changed'[u] = changed[u] /\ wrote'[u] = wrote[u]
  BY <1>1, <1>2 DEF Memory, PromisesStep, TypeOK
<1>4. Object(u)' = Object(u) /\ (ByUser(u)' <=> ByUser(u)) /\ (Running(u)' <=> Running(u))
      /\ (Swallows(u)' <=> Swallows(u))
  BY <1>2, <1>3 DEF Object, ByUser, Running, Swallows
<1>5. had[u] \subseteq had'[u] /\ lacked[u] \subseteq lacked'[u]
  BY <1>1, HistoryFacts
<1>6. FoundRight(u)'
  BY <1>1, <1>2, <1>3, <1>4, GrantsFacts DEF Own, FoundRight, Respects
<1>7. Paths(u)' /\ (Knows(u)' <=> Knows(u))
  BY <1>1, <1>2, <1>3, <1>4 DEF Own, Paths, Knows, Named
<1>8. Follows(u)'
  BY <1>1, <1>4, HistoryFacts DEF Follows
<1>9. Written(u)'
  BY <1>1, <1>2, <1>3, <1>4, <1>5, <1>7 DEF Own, Written
<1>10. Kept(u)'
  <2>1. \A k : DoneWith(u, k)' <=> DoneWith(u, k)
    BY <1>3 DEF DoneWith
  <2>. QED BY <1>1, <1>2, <1>3, <1>4, <1>5, <1>7, <2>1 DEF Own, Kept
<1>. QED BY <1>6, <1>7, <1>8, <1>9, <1>10 DEF Own

\* No step makes a grant that is there already.
LEMMA UniqueStep ==
  ASSUME Invariant, NEW t \in Tasks, Step(t)
  PROVE  Unique'
<1>1. TypeOK /\ Unique /\ GrantsMove
  BY StepFrame DEF Invariant
<1>2. CASE Create(t)
  <2>1. /\ grants' = Append(grants, Wanted(t))
        /\ \A i \in Live : grants[i] # Wanted(t)
    <3>1. Matches(t, Named(t)) = {} /\ grants' = Append(grants, Wanted(t))
      BY <1>2 DEF Create
    <3>. QED BY <3>1 DEF Matches, Named, Wanted
  <2>2. /\ DOMAIN grants = 1..Len(grants) /\ Len(grants) \in Nat
        /\ DOMAIN grants' = 1..Len(grants) + 1
        /\ \A i \in 1..Len(grants) : grants'[i] = grants[i]
        /\ grants'[Len(grants) + 1] = Wanted(t)
    <3>1. grants \in Seq(Grant \cup {Gone}) /\ Wanted(t) \in Grant
      BY <1>1, ObjectAsked DEF TypeOK
    <3>2. /\ grants' \in Seq(Grant \cup {Gone}) /\ Len(grants') = Len(grants) + 1
          /\ \A i \in 1..Len(grants) : grants'[i] = grants[i]
          /\ grants'[Len(grants) + 1] = Wanted(t)
      BY <2>1, <3>1, AppendProperties
    <3>. QED BY <3>1, <3>2
  <2>3. \A i \in Live' : i \in Live \/ i = Len(grants) + 1
    BY <2>2 DEF Live
  <2>4. \A i \in Live : grants'[i] = grants[i]
    BY <2>2 DEF Live
  <2>. QED BY <1>1, <2>1, <2>2, <2>3, <2>4 DEF Unique
<1>3. CASE \E i \in Live : grants' = [grants EXCEPT ![i] = Gone]
  <2>1. Live' \subseteq DOMAIN grants
    BY <1>3 DEF Live
  <2>. QED BY <1>1, <2>1, GrantsFacts DEF Unique
<1>4. CASE UNCHANGED grants
  BY <1>1, <1>4 DEF Unique, Live
<1>5. Create(t) \/ (\E i \in Live : grants' = [grants EXCEPT ![i] = Gone]) \/ UNCHANGED grants
  BY DEF Step, Resolve, Find, FindRaises, CreateFails, Delete, DeleteFails
<1>. QED BY <1>2, <1>3, <1>4, <1>5

\* The object at hand is as the task's state wants it, once its turn is over.
ObjectDone(t) ==
  /\ Knows(t) /\ request[t].state = "present" => Object(t) \in had'[t]
  /\ ByUser(t) /\ request[t].inList /\ request[t].state = "absent" => Object(t) \in lacked'[t]

\* Going on to the next object or the result.
LEMMA AdvanceKeeps ==
  ASSUME Invariant, NEW t \in Tasks, PromisesStep(t), UNCHANGED resolved,
         NEW from \in {"find", "create", "delete"}, NEW sees \in BOOLEAN, Advance(t, from, sees),
         ObjectDone(t)
  PROVE  FoundRight(t)' /\ Paths(t)' /\ Kept(t)'
<1>1. TypeOK /\ Own(t) /\ UNCHANGED request /\ from \in Pcs
  BY StepFrame DEF Invariant, PromisesStep, Pcs
<1>2. /\ pc[t] = from /\ pc'[t] \in {"find", "ok", "failed"}
      /\ \A k \in Nat : k < at'[t] \/ (k = at'[t] /\ pc'[t] = "ok") => k < at[t] \/ k = at[t]
  BY <1>1, AdvanceFacts
<1>3. FoundRight(t)' /\ Paths(t)' /\ (Knows(t)' <=> Knows(t))
  BY <1>1, <1>2 DEF Own, FoundRight, Paths, ByUser, Knows, Named
<1>4. Kept(t)'
  <2> SUFFICES ASSUME NEW k \in DOMAIN request'[t].objects, DoneWith(t, k)'
               PROVE  /\ Knows(t)' /\ request'[t].state = "present" => request'[t].objects[k] \in had'[t]
                      /\ ByUser(t)' /\ request'[t].inList /\ request'[t].state = "absent" =>
                           request'[t].objects[k] \in lacked'[t]
    BY DEF Kept
  <2>1. k \in DOMAIN request[t].objects /\ k \in Nat
    BY <1>1, ObjectAsked
  <2>2. k < at[t] \/ k = at[t]
    BY <1>2, <2>1 DEF DoneWith
  <2>3. CASE k = at[t]
    BY <1>1, <1>3, <2>3 DEF ObjectDone, Object, ByUser
  <2>4. CASE k < at[t]
    <3>1. had[t] \subseteq had'[t] /\ lacked[t] \subseteq lacked'[t]
      BY <1>1, HistoryFacts
    <3>2. DoneWith(t, k)
      BY <2>4 DEF DoneWith
    <3>. QED BY <1>1, <1>3, <2>1, <3>1, <3>2 DEF Own, Kept, ByUser
  <2>. QED BY <2>2, <2>3, <2>4
<1>. QED BY <1>3, <1>4

\* Staying at the object.
LEMMA StayKeeps ==
  ASSUME Invariant, NEW t \in Tasks, PromisesStep(t), UNCHANGED at, pc'[t] # "ok",
         pc[t] = "begin" \/ UNCHANGED resolved
  PROVE  Kept(t)'
<1>1. TypeOK /\ Own(t) /\ UNCHANGED request
  BY StepFrame DEF Invariant, PromisesStep
<1>2. had[t] \subseteq had'[t] /\ lacked[t] \subseteq lacked'[t]
  BY <1>1, HistoryFacts
<1>3. \A k : DoneWith(t, k)' => DoneWith(t, k)
  BY DEF DoneWith
<1>4. CASE pc[t] = "begin"
  <2>1. \A k \in DOMAIN request[t].objects : ~DoneWith(t, k)'
    <3>1. at[t] = 1
      BY <1>1, <1>4 DEF Own, Paths
    <3>2. \A k \in DOMAIN request[t].objects : k \in Nat /\ 1 <= k
      BY <1>1, ObjectAsked
    <3>. QED BY <3>1, <3>2 DEF DoneWith
  <2>. QED BY <1>1, <2>1 DEF Kept
<1>5. CASE UNCHANGED resolved
  <2>1. Knows(t)' <=> Knows(t)
    BY <1>1, <1>5 DEF Knows, Named
  <2>. QED BY <1>1, <1>2, <1>3, <2>1 DEF Own, Kept, ByUser
<1>. QED BY <1>4, <1>5

\* A step that writes nothing.
LEMMA ReadKeeps ==
  ASSUME Invariant, NEW t \in Tasks, PromisesStep(t), UNCHANGED grants, UNCHANGED changed,
         pc[t] # "failed", pc[t] = "begin" \/ UNCHANGED resolved
  PROVE  Follows(t)' /\ Written(t)'
<1>1. TypeOK /\ Own(t) /\ UNCHANGED request
  BY StepFrame DEF Invariant, PromisesStep
<1>2. had[t] \subseteq had'[t] /\ lacked[t] \subseteq lacked'[t] /\ Follows(t)'
  BY <1>1, HistoryFacts DEF Follows
<1>3. wrote'[t] = wrote[t]
  BY <1>1 DEF PromisesStep, TypeOK
<1>4. (Swallows(t)' <=> Swallows(t)) /\ (pc[t] = "begin" => ~wrote[t])
  BY <1>1 DEF Swallows, ByUser, Own, Paths
<1>5. pc[t] = "begin" \/ (Knows(t)' <=> Knows(t))
  BY <1>1 DEF Knows, Named
<1>6. Written(t)'
  BY <1>1, <1>2, <1>3, <1>4, <1>5 DEF Own, Written
<1>. QED BY <1>2, <1>6

\* A step that makes or revokes the grant at hand, and reports it or fails.
LEMMA WriteKeeps ==
  ASSUME Invariant, NEW t \in Tasks, PromisesStep(t), UNCHANGED resolved,
         pc[t] \in {"create", "delete"},
         request[t].state = "present" => ~Has(t, Object(t)),
         Knows(t) /\ request[t].state = "absent" => Has(t, Object(t)),
         \/ changed'[t]
         \/ changed'[t] = changed[t] /\ (pc'[t] = "failed" \/ Swallows(t)),
         grants' # grants
  PROVE  Follows(t)' /\ Written(t)'
<1>1. TypeOK /\ Own(t) /\ UNCHANGED request
  BY StepFrame DEF Invariant, PromisesStep
<1>2. had[t] \subseteq had'[t] /\ lacked[t] \subseteq lacked'[t] /\ Follows(t)'
  BY <1>1, HistoryFacts DEF Follows
<1>3. wrote'[t]
  BY <1>1 DEF PromisesStep, TypeOK
<1>4. (Swallows(t)' <=> Swallows(t)) /\ (Knows(t)' <=> Knows(t))
  BY <1>1 DEF Swallows, ByUser, Knows, Named
<1>5. /\ request[t].state = "present" => lacked[t] # {}
      /\ Knows(t) /\ request[t].state = "absent" => had[t] # {}
  <2>1. Running(t) /\ Object(t) \in Asked(t)
    BY <1>1, ObjectAsked DEF Running
  <2>. QED BY <1>1, <2>1 DEF Own, Follows
<1>6. Written(t)'
  BY <1>1, <1>2, <1>3, <1>4, <1>5 DEF Written
<1>. QED BY <1>2, <1>6

\* A grant that is all that a task knows, when it knows both names, is the one
\* that it wants.
LEMMA WantedIsRespected ==
  ASSUME NEW t \in Tasks, NEW g \in Grant, Respects(t, resolved[t], g), Knows(t)
  PROVE  g = Wanted(t)
BY DEF Respects, Knows, Named, Grant, Wanted

\* What it will be to have the grant that the task wants now.
LEMMA HasLater ==
  ASSUME NEW t \in Tasks, UNCHANGED request, NEW o, o = Object(t)
  PROVE  Has(t, o)' <=> \E i \in Live' : grants'[i] = Wanted(t)
<1>1. [Wanted(t)' EXCEPT !.object = o] = Wanted(t)
  BY DEF Wanted
<1>. QED BY <1>1 DEF Has

\* What is common to the steps of a task.
LEMMA OwnFacts ==
  ASSUME Invariant, NEW t \in Tasks, PromisesStep(t)
  PROVE  /\ TypeOK /\ Own(t) /\ UNCHANGED request
         /\ (\E i \in Live' : grants'[i] = Wanted(t)) => Object(t) \in had'[t]
         /\ ~(\E i \in Live' : grants'[i] = Wanted(t)) => Object(t) \in lacked'[t]
         /\ request[t].state \in States
         /\ ByUser(t)' <=> ByUser(t)
         /\ Swallows(t)' <=> Swallows(t)
<1>1. TypeOK /\ Own(t) /\ UNCHANGED request
  BY StepFrame DEF Invariant, PromisesStep
<1>2. Object(t) \in Asked(t) /\ Object(t) \in Objects
  BY <1>1, ObjectAsked
<1>3. \A o \in Asked(t) : (Has(t, o)' => o \in had'[t]) /\ (~Has(t, o)' => o \in lacked'[t])
  BY <1>1, HistoryFacts
<1>4. request[t].state \in States
  BY <1>1 DEF TypeOK, AllRequests
<1>5. (ByUser(t)' <=> ByUser(t)) /\ (Swallows(t)' <=> Swallows(t))
  BY <1>1 DEF ByUser, Swallows
<1>6. PICK o \in Asked(t) : o = Object(t)
  BY <1>2
<1>7. Has(t, o)' <=> \E i \in Live' : grants'[i] = Wanted(t)
  BY <1>1, <1>6, HasLater
<1>. QED BY <1>1, <1>3, <1>4, <1>5, <1>6, <1>7

\* The names of the places, for the lemmas about GoTo and Advance.
LEMMA PlaceNames ==
  /\ "find" \in Pcs /\ "create" \in Pcs /\ "delete" \in Pcs /\ "begin" \in Pcs /\ "failed" \in Pcs
  /\ TRUE \in BOOLEAN /\ FALSE \in BOOLEAN
BY DEF Pcs

\* The look-up of the user or team settles the path and leaves the list alone.
LEMMA ResolveKeeps ==
  ASSUME Invariant, NEW t \in Tasks, PromisesStep(t), Resolve(t)
  PROVE  Own(t)'
<1>1. TypeOK /\ Own(t) /\ UNCHANGED request /\ (ByUser(t)' <=> ByUser(t))
  BY OwnFacts
<1>2. /\ pc[t] = "begin" /\ UNCHANGED at /\ UNCHANGED grants /\ UNCHANGED changed
      /\ \/ pc'[t] = "find" /\ (ByUser(t) => resolved'[t] = Named(t))
         \/ pc'[t] = "failed"
  BY <1>1, GoToFacts, PlaceNames DEF Resolve, TypeOK
<1>3. FoundRight(t)' /\ Paths(t)'
  BY <1>1, <1>2 DEF FoundRight, Paths, Knows, Named
<1>4. Kept(t)'
  BY <1>2, StayKeeps
<1>5. Follows(t)' /\ Written(t)'
  BY <1>2, ReadKeeps
<1>. QED BY <1>3, <1>4, <1>5 DEF Own

\* A find hands over the id of a matching grant, or ends with the object.
LEMMA FindKeeps ==
  ASSUME Invariant, NEW t \in Tasks, PromisesStep(t), Find(t)
  PROVE  Own(t)'
<1>1. TypeOK /\ Own(t) /\ UNCHANGED request /\ (ByUser(t)' <=> ByUser(t))
  BY OwnFacts
<1>2. pc[t] = "find" /\ UNCHANGED grants /\ UNCHANGED resolved /\ UNCHANGED changed
  BY DEF Find
<1>3. Follows(t)' /\ Written(t)'
  BY <1>2, ReadKeeps
<1>4. PICK names \in Carries(t) : \E i \in Matches(t, names) :
        IF request[t].state = "absent"
        THEN GoTo(t, "find", "delete") /\ found' = [found EXCEPT ![t] = i] /\ UNCHANGED <<at, seen>>
        ELSE Advance(t, "find", TRUE) /\ UNCHANGED found
  BY DEF Find
<1>5. PICK i \in Matches(t, names) :
        IF request[t].state = "absent"
        THEN GoTo(t, "find", "delete") /\ found' = [found EXCEPT ![t] = i] /\ UNCHANGED <<at, seen>>
        ELSE Advance(t, "find", TRUE) /\ UNCHANGED found
  BY <1>4
<1>6. /\ i \in Live /\ i \in DOMAIN grants /\ Respects(t, resolved[t], grants[i])
      /\ Knows(t) => grants[i] = Wanted(t)
  <2>1. i \in Live /\ i \in DOMAIN grants /\ Respects(t, names, grants[i])
    BY DEF Matches, Live, Respects
  <2>2. resolved[t] \subseteq names
    BY DEF Carries
  <2>3. grants[i] \in Grant
    BY <1>1, <2>1 DEF TypeOK, Live
  <2>4. Respects(t, resolved[t], grants[i])
    BY <2>1, <2>2 DEF Respects
  <2>. QED BY <2>1, <2>3, <2>4, WantedIsRespected
<1>7. CASE request[t].state = "absent"
  <2>1. pc'[t] = "delete" /\ found'[t] = i /\ UNCHANGED at
    BY <1>1, <1>5, <1>7, GoToFacts, PlaceNames DEF TypeOK
  <2>2. Object(t)' = Object(t)
    BY <1>1, <2>1 DEF Object
  <2>3. FoundRight(t)'
    BY <1>1, <1>2, <1>6, <1>7, <2>1, <2>2 DEF FoundRight, Respects
  <2>4. Paths(t)'
    BY <1>1, <1>2, <2>1 DEF Own, Paths, Knows, Named
  <2>5. Kept(t)'
    BY <1>2, <2>1, StayKeeps
  <2>. QED BY <1>3, <2>3, <2>4, <2>5 DEF Own
<1>8. CASE request[t].state # "absent"
  <2>1. Advance(t, "find", TRUE)
    BY <1>5, <1>8
  <2>2. (\E j \in Live' : grants'[j] = Wanted(t)) => Object(t) \in had'[t]
    BY OwnFacts
  <2>3. i \in Live' /\ grants'[i] = grants[i]
    BY <1>2, <1>6 DEF Live
  <2>4. ObjectDone(t)
    BY <1>6, <1>8, <2>2, <2>3 DEF ObjectDone
  <2>5. FoundRight(t)' /\ Paths(t)' /\ Kept(t)'
    BY <1>2, <2>1, <2>4, PlaceNames, AdvanceKeeps
  <2>. QED BY <1>3, <2>5 DEF Own
<1>. QED BY <1>7, <1>8

\* A find that raises ends the task, or is swallowed; neither claims a grant.
LEMMA FindRaisesKeeps ==
  ASSUME Invariant, NEW t \in Tasks, PromisesStep(t), FindRaises(t)
  PROVE  Own(t)'
<1>1. TypeOK /\ Own(t) /\ UNCHANGED request /\ (ByUser(t)' <=> ByUser(t))
  BY OwnFacts
<1>2. pc[t] = "find" /\ UNCHANGED grants /\ UNCHANGED resolved /\ UNCHANGED changed
  BY DEF FindRaises, GoTo, Advance
<1>3. Follows(t)' /\ Written(t)'
  BY <1>2, ReadKeeps
<1>4. CASE /\ UNCHANGED at
           /\ \/ request[t].state = "present" /\ GoTo(t, "find", "create")
              \/ GoTo(t, "find", "failed")
  <2>1. pc'[t] = "failed" \/ (pc'[t] = "create" /\ request[t].state = "present")
    BY <1>1, <1>4, GoToFacts, PlaceNames
  <2>2. FoundRight(t)' /\ Paths(t)'
    BY <1>1, <1>2, <2>1 DEF Own, FoundRight, Paths, Knows, Named
  <2>3. Kept(t)'
    BY <1>2, <1>4, <2>1, StayKeeps
  <2>. QED BY <1>3, <2>2, <2>3 DEF Own
<1>5. CASE /\ Advance(t, "find", FALSE)
           /\ request[t].state # "present"
           /\ ~(request[t].state = "absent" /\ ByUser(t) /\ request[t].inList)
  <2>1. ObjectDone(t)
    BY <1>5 DEF ObjectDone
  <2>2. FoundRight(t)' /\ Paths(t)' /\ Kept(t)'
    BY <1>2, <1>5, <2>1, PlaceNames, AdvanceKeeps
  <2>. QED BY <1>3, <2>2 DEF Own
<1>. QED BY <1>4, <1>5 DEF FindRaises

\* A create makes the grant it reports, and the object counts as granted.
LEMMA CreateKeeps ==
  ASSUME Invariant, NEW t \in Tasks, PromisesStep(t), Create(t)
  PROVE  Own(t)'
<1>1. TypeOK /\ Own(t) /\ UNCHANGED request /\ (ByUser(t)' <=> ByUser(t))
  BY OwnFacts
<1>2. pc[t] = "create" /\ UNCHANGED resolved /\ request[t].state = "present"
  BY <1>1 DEF Create, Own, Paths
<1>3. /\ grants' = Append(grants, Wanted(t))
      /\ \/ Advance(t, "create", TRUE) /\ changed' = [changed EXCEPT ![t] = TRUE]
         \/ GoTo(t, "create", "failed") /\ UNCHANGED <<at, seen, changed>>
  BY DEF Create
<1>4. /\ Len(grants) + 1 \in DOMAIN grants'
      /\ grants'[Len(grants) + 1] = Wanted(t) /\ grants' # grants
  <2>1. grants \in Seq(Grant \cup {Gone}) /\ Wanted(t) \in Grant
    BY <1>1, ObjectAsked DEF TypeOK
  <2>2. /\ grants' \in Seq(Grant \cup {Gone}) /\ Len(grants') = Len(grants) + 1
        /\ grants'[Len(grants) + 1] = Wanted(t)
    BY <1>3, <2>1, AppendProperties
  <2>3. Len(grants) \in Nat
    BY <2>1
  <2>. QED BY <2>1, <2>2, <2>3
<1>5. ~Has(t, Object(t))
  <2>1. Matches(t, Named(t)) = {}
    BY DEF Create
  <2>2. [Wanted(t) EXCEPT !.object = Object(t)] = Wanted(t)
    BY DEF Wanted
  <2>3. \A i \in Live : grants[i] # Wanted(t)
    BY <2>1 DEF Matches, Named, Wanted
  <2>. QED BY <2>2, <2>3 DEF Has
<1>6. \/ changed'[t]
      \/ changed'[t] = changed[t] /\ pc'[t] = "failed"
  BY <1>1, <1>3, GoToFacts, PlaceNames DEF TypeOK
<1>7. Follows(t)' /\ Written(t)'
  BY <1>2, <1>4, <1>5, <1>6, WriteKeeps
<1>8. CASE Advance(t, "create", TRUE)
  <2>1. (\E j \in Live' : grants'[j] = Wanted(t)) => Object(t) \in had'[t]
    BY OwnFacts
  <2>2. Len(grants) + 1 \in Live'
    <3>1. Wanted(t) # Gone
      BY <1>1, ObjectAsked, GrantsAssumption
    <3>. QED BY <1>4, <3>1 DEF Live
  <2>3. ObjectDone(t)
    BY <1>2, <1>4, <2>1, <2>2 DEF ObjectDone
  <2>4. FoundRight(t)' /\ Paths(t)' /\ Kept(t)'
    BY <1>2, <1>8, <2>3, PlaceNames, AdvanceKeeps
  <2>. QED BY <1>7, <2>4 DEF Own
<1>9. CASE GoTo(t, "create", "failed") /\ UNCHANGED at
  <2>1. pc'[t] = "failed"
    BY <1>1, <1>9, GoToFacts, PlaceNames
  <2>2. FoundRight(t)' /\ Paths(t)'
    BY <2>1 DEF FoundRight, Paths
  <2>3. Kept(t)'
    BY <1>2, <1>9, <2>1, StayKeeps
  <2>. QED BY <1>7, <2>2, <2>3 DEF Own
<1>. QED BY <1>3, <1>8, <1>9

\* A create whose answer is lost may have taken effect; the task reports no change.
LEMMA CreateFailsKeeps ==
  ASSUME Invariant, NEW t \in Tasks, PromisesStep(t), CreateFails(t)
  PROVE  Own(t)'
<1>1. TypeOK
  BY OwnFacts
<1>2. /\ pc[t] = "create" /\ pc'[t] = "failed" /\ UNCHANGED at /\ UNCHANGED resolved
      /\ UNCHANGED grants /\ UNCHANGED changed
  BY <1>1, GoToFacts, PlaceNames DEF CreateFails
<1>3. FoundRight(t)' /\ Paths(t)'
  BY <1>2 DEF FoundRight, Paths
<1>4. Kept(t)' /\ Follows(t)' /\ Written(t)'
  BY <1>2, StayKeeps, ReadKeeps
<1>. QED BY <1>3, <1>4 DEF Own

\* A delete that raises, whether or not it took effect.
LEMMA DeleteRaisesKeeps ==
  ASSUME Invariant, NEW t \in Tasks, PromisesStep(t), pc[t] = "delete", DeleteRaises(t), UNCHANGED resolved
  PROVE  /\ FoundRight(t)' /\ Paths(t)' /\ Kept(t)'
         /\ pc'[t] = "failed" \/ Swallows(t)
<1>1. TypeOK /\ Own(t)
  BY OwnFacts
<1>2. request[t].state = "absent"
  BY <1>1 DEF Own, FoundRight
<1>3. CASE ByUser(t) \/ ~request[t].inList
  <2>1. pc'[t] = "failed" /\ UNCHANGED at
    BY <1>1, <1>3, GoToFacts, PlaceNames DEF DeleteRaises
  <2>2. FoundRight(t)' /\ Paths(t)'
    BY <2>1 DEF FoundRight, Paths
  <2>3. Kept(t)'
    BY <2>1, StayKeeps
  <2>. QED BY <2>1, <2>2, <2>3
<1>4. CASE ~ByUser(t) /\ request[t].inList
  <2>1. Advance(t, "delete", FALSE)
    BY <1>4 DEF DeleteRaises
  <2>2. ObjectDone(t)
    BY <1>2, <1>4 DEF ObjectDone
  <2>3. FoundRight(t)' /\ Paths(t)' /\ Kept(t)'
    BY <2>1, <2>2, PlaceNames, AdvanceKeeps
  <2>. QED BY <1>2, <1>4, <2>3 DEF Swallows
<1>. QED BY <1>3, <1>4

\* A delete takes out the grant it was found for, if that is still there.
LEMMA DeleteKeeps ==
  ASSUME Invariant, NEW t \in Tasks, PromisesStep(t), Delete(t)
  PROVE  Own(t)'
<1>1. TypeOK /\ Own(t) /\ UNCHANGED request /\ (ByUser(t)' <=> ByUser(t)) /\ Unique
  BY OwnFacts DEF Invariant
<1>2. /\ pc[t] = "delete" /\ found[t] \in Live /\ UNCHANGED resolved
      /\ grants' = [grants EXCEPT ![found[t]] = Gone]
      /\ \/ Advance(t, "delete", FALSE) /\ changed' = [changed EXCEPT ![t] = TRUE]
         \/ DeleteRaises(t) /\ UNCHANGED changed
  BY DEF Delete
<1>3. /\ request[t].state = "absent" /\ found[t] \in DOMAIN grants
      /\ Knows(t) => grants[found[t]] = Wanted(t)
  <2>1. Respects(t, resolved[t], grants[found[t]]) /\ grants[found[t]] \in Grant
    BY <1>1, <1>2 DEF Own, FoundRight, TypeOK, Live
  <2>. QED BY <1>1, <1>2, <2>1, WantedIsRespected DEF Own, FoundRight
<1>4. grants' # grants
  BY <1>2, <1>3 DEF Live
<1>5. Knows(t) => Has(t, Object(t))
  <2>1. [Wanted(t) EXCEPT !.object = Object(t)] = Wanted(t)
    BY DEF Wanted
  <2>. QED BY <1>2, <1>3, <2>1 DEF Has
<1>6. \/ changed'[t]
      \/ changed'[t] = changed[t] /\ (pc'[t] = "failed" \/ Swallows(t))
  BY <1>1, <1>2, DeleteRaisesKeeps DEF TypeOK
<1>7. Follows(t)' /\ Written(t)'
  BY <1>2, <1>3, <1>4, <1>5, <1>6, WriteKeeps
<1>8. CASE Advance(t, "delete", FALSE)
  <2>1. ~(\E j \in Live' : grants'[j] = Wanted(t)) => Object(t) \in lacked'[t]
    BY OwnFacts
  <2>2. ByUser(t) => Knows(t)
    BY <1>1, <1>2 DEF Own, Paths
  <2>3. ASSUME Knows(t), NEW j \in Live', grants'[j] = Wanted(t)
        PROVE  FALSE
    <3>1. j \in Live /\ grants[j] = Wanted(t) /\ j # found[t]
      BY <1>2, <1>3, <2>3 DEF Live
    <3>. QED BY <1>1, <1>2, <1>3, <2>3, <3>1 DEF Unique
  <2>4. ObjectDone(t)
    BY <1>3, <2>1, <2>2, <2>3 DEF ObjectDone
  <2>5. FoundRight(t)' /\ Paths(t)' /\ Kept(t)'
    BY <1>2, <1>8, <2>4, PlaceNames, AdvanceKeeps
  <2>. QED BY <1>7, <2>5 DEF Own
<1>9. CASE DeleteRaises(t)
  BY <1>2, <1>7, <1>9, DeleteRaisesKeeps DEF Own
<1>. QED BY <1>2, <1>8, <1>9

\* A delete that raises ends the task, or is swallowed in the list of a team.
LEMMA DeleteFailsKeeps ==
  ASSUME Invariant, NEW t \in Tasks, PromisesStep(t), DeleteFails(t)
  PROVE  Own(t)'
<1>1. pc[t] = "delete" /\ DeleteRaises(t) /\ UNCHANGED resolved /\ UNCHANGED grants /\ UNCHANGED changed
  BY DEF DeleteFails
<1>2. Follows(t)' /\ Written(t)'
  BY <1>1, ReadKeeps
<1>. QED BY <1>1, <1>2, DeleteRaisesKeeps DEF Own

-----------------------------------------------------------------------------
(* The invariant. *)

\* The invariant holds at first.
LEMMA InvariantInit == ASSUME PromisesInit PROVE Invariant
<1>1. \A t \in Tasks : request[t] \in AllRequests
  <2>1. request \in Requests
    BY DEF PromisesInit, Init
  <2>2. request \in [Tasks -> AllRequests]
    BY <2>1, GrantsAssumption
  <2>. QED BY <2>2
<1>2. \A t \in Tasks : Len(request[t].objects) \in Nat /\ 1 \in 1..Len(request[t].objects)
                      /\ DOMAIN request[t].objects = 1..Len(request[t].objects)
  <2> SUFFICES ASSUME NEW t \in Tasks
               PROVE  Len(request[t].objects) \in Nat /\ 1 \in 1..Len(request[t].objects)
                      /\ DOMAIN request[t].objects = 1..Len(request[t].objects)
    OBVIOUS
  <2>1. CASE request[t] \in [who : Users \cup Teams, role : Roles, state : States, inList : {TRUE}, objects : Seq(Objects) \ {<<>>}]
    <3>1. request[t].objects \in Seq(Objects) /\ request[t].objects # <<>>
      BY <2>1
    <3>. QED BY <3>1, EmptySeq
  <2>2. CASE request[t] \in [who : Users \cup Teams, role : Roles, state : States, inList : {FALSE}, objects : {<<o>> : o \in Objects}]
    <3>1. PICK o \in Objects : request[t].objects = <<o>>
      BY <2>2
    <3>. QED BY <3>1
  <2>. QED BY <1>1, <2>1, <2>2 DEF AllRequests
<1>3. TypeOK /\ Unique
  <2>1. CASE grants = <<>>
    BY <1>2, <2>1, GrantsAssumption DEF PromisesInit, Init, TypeOK, Unique, Live
  <2>2. ASSUME NEW g \in Grant, grants = <<g>>
        PROVE  TypeOK /\ Unique
    <3>1. grants \in Seq(Grant \cup {Gone})
      BY <2>2
    <3>2. DOMAIN grants = {1}
      BY <2>2
    <3>. QED BY <1>2, <3>1, <3>2, GrantsAssumption DEF PromisesInit, Init, TypeOK, Unique, Live
  <2>. QED BY <2>1, <2>2 DEF PromisesInit, Init
<1>4. ASSUME NEW t \in Tasks
      PROVE  Own(t)
  <2>1. pc[t] = "begin" /\ at[t] = 1 /\ ~changed[t] /\ ~wrote[t]
    BY DEF PromisesInit, Init
  <2>2. \A k \in DOMAIN request[t].objects : ~DoneWith(t, k)
    BY <1>2, <2>1 DEF DoneWith
  <2>. QED BY <2>1, <2>2 DEF Own, FoundRight, Paths, Follows, Running, Written, Kept
<1>. QED BY <1>3, <1>4 DEF Invariant

\* Every step keeps the invariant, for its own task and for the others.
LEMMA InvariantStep == ASSUME Invariant, [PromisesNext]_promiseVars PROVE Invariant'
<1>1. CASE PromisesNext
  <2>1. PICK t \in Tasks : PromisesStep(t)
    BY <1>1 DEF PromisesNext
  <2>2. TypeOK' /\ Unique'
    BY <2>1, TypeStep, UniqueStep DEF Invariant, PromisesStep
  <2>3. \A u \in Tasks : u # t => Own(u)'
    BY <2>1, OtherKeeps
  <2>4. Own(t)'
    BY <2>1, ResolveKeeps, FindKeeps, FindRaisesKeeps, CreateKeeps, CreateFailsKeeps, DeleteKeeps,
       DeleteFailsKeeps DEF PromisesStep, Step
  <2>. QED BY <2>2, <2>3, <2>4 DEF Invariant
<1>2. CASE UNCHANGED promiseVars
  <2>1. /\ UNCHANGED <<grants, request, pc, at, resolved, found, seen, changed>>
        /\ UNCHANGED <<had, lacked, wrote>>
    BY <1>2 DEF promiseVars, grantVars
  <2>2. TypeOK' /\ Unique'
    BY <2>1 DEF Invariant, TypeOK, Unique, Live
  <2>3. ASSUME NEW t \in Tasks
        PROVE  Own(t)'
    <3>1. FoundRight(t)' /\ Paths(t)'
      BY <2>1, <2>3 DEF Invariant, Own, FoundRight, Respects, Paths, Live, Object, ByUser, Knows, Named
    <3>2. Follows(t)'
      BY <2>1, <2>3 DEF Invariant, Own, Follows, Running, Asked, Has, Wanted, Object, Live
    <3>3. Written(t)'
      BY <2>1, <2>3 DEF Invariant, Own, Written, Swallows, ByUser, Knows, Named
    <3>4. Kept(t)'
      BY <2>1, <2>3 DEF Invariant, Own, Kept, DoneWith, ByUser, Knows, Named
    <3>. QED BY <3>1, <3>2, <3>3, <3>4 DEF Own
  <2>. QED BY <2>2, <2>3 DEF Invariant
<1>. QED BY <1>1, <1>2

\* The invariant that the theorems below rest on holds throughout, for every number
\* of tasks and lists of any length (role_user_assignment.py, role_team_assignment.py).
THEOREM InvariantHolds == PromisesSpec => []Invariant
BY InvariantInit, InvariantStep, PTL DEF PromisesSpec

-----------------------------------------------------------------------------
(* What the plugins promise. *)

\* Every variable stays within its type.
THEOREM TypeCorrect == PromisesSpec => []TypeOK
<1>1. Invariant => TypeOK
  BY DEF Invariant
<1>. QED BY <1>1, InvariantHolds, PTL

\* Every object that a present task with both ids is done with had the very role
\* granted to the very user or team at some moment.
THEOREM PresentIsReal == PromisesSpec => []PresentWasGranted
<1>1. Invariant => PresentWasGranted
  BY DEF Invariant, Own, Kept, PresentWasGranted
<1>. QED BY <1>1, InvariantHolds, PTL

\* Every object that the revocation of a user's list is done with was without
\* the grant at some moment.
THEOREM AbsentIsReal == PromisesSpec => []AbsentWasRevoked
<1>1. Invariant => AbsentWasRevoked
  BY DEF Invariant, Own, Kept, AbsentWasRevoked
<1>. QED BY <1>1, InvariantHolds, PTL

\* changed means a write, and but for a team's list a write means changed.
THEOREM ChangedIsHonest == PromisesSpec => []ChangedIsTrue
<1>1. Invariant => ChangedIsTrue
  BY DEF Invariant, Own, Written, Swallows, ChangedIsTrue
<1>. QED BY <1>1, InvariantHolds, PTL

\* A task with both ids that finds everything in place writes nothing.
THEOREM SecondRunIsQuiet == PromisesSpec => []SecondRunWritesNothing
<1>1. Invariant => SecondRunWritesNothing
  BY DEF Invariant, Own, Written, SecondRunWritesNothing
<1>. QED BY <1>1, InvariantHolds, PTL

\* The grant a task revokes is on its object, and agrees with every name that the
\* plugin has the id of.
THEOREM KnownRevokesAreItsOwn == PromisesSpec => KnownRevokesOnlyItsOwn
<1>1. Invariant => \A t \in Tasks : Delete(t) => Respects(t, resolved[t], grants[found[t]])
  BY DEF Invariant, Own, FoundRight, Delete
<1>2. Invariant => \A t \in Tasks : Delete(t) =>
        LET g == grants[found[t]]
        IN  /\ g.object = Object(t)
            /\ request[t].who \in resolved[t] => g.who = request[t].who
            /\ request[t].role \in resolved[t] => g.role = request[t].role
  BY <1>1 DEF Respects
<1>. QED BY <1>2, InvariantHolds, PTL DEF KnownRevokesOnlyItsOwn

=============================================================================
