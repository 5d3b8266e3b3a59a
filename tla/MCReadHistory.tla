---------------------------- MODULE MCReadHistory ----------------------------
(***************************************************************************)
(* Instances of ReadHistory for TLC.                                       *)
(***************************************************************************)
EXTENDS ReadHistory, TLC

CONSTANTS r1, r2  \* the calls

One(kind, items) == [kind : {kind}, items : {<<x>> : x \in items}]

Pages(kind) == [kind : {kind}, items : {<<>>}]
TwoNames == [kind : {"ids"}, items : {nm \in Names \X Names : nm[1] # nm[2]}]

Pairs(first, second) == {(r1 :> p) @@ (r2 :> q) : p \in first, q \in second}

\* Calls of the kinds that share a part of the cache beside each other, or two
\* searches.
SomeQueries ==
  Pairs(TwoNames, One("names", {1}))
    \cup Pairs(One("ids", Names) \cup One("names", {1}), One("ids", Names) \cup One("names", {1}))
    \cup Pairs(One("resource", Names), One("resource", Names \cup {1}))
    \cup Pairs(Pages("search"), Pages("search") \cup Pages("list"))

Symmetry == Permutations(Names)
===============================================================================
