------------------------------ MODULE ChainWalk ------------------------------
(***************************************************************************)
(* What POST /api/complete promises of one call, however its chain was     *)
(* chosen: the providers of a chain of its own that can be reached are     *)
(* asked from the first to the last, none of them more often than the      *)
(* budget allows, and a call that ends with a retryable error has been     *)
(* failed by all of them.                                                  *)
(***************************************************************************)
EXTENDS Integers

CONSTANTS Chains,  \* the chains the call may be sent along
          Budget   \* second tries at one provider

VARIABLE walk      \* [st, way, todo, tries]

\* way is the chain it walks; todo, the positions it has not given up, the least of
\* them the one it is at; tries, the second tries there.
Still(st) == [st |-> st, way |-> << >>, todo |-> {}, tries |-> 0]
Walking(way, todo, tries) == [st |-> "walking", way |-> way, todo |-> todo, tries |-> tries]

WInit == walk = Still("new")

Least(J) == {j \in J : \A k \in J : j <= k}

\* The chain is chosen, without the providers that cannot be reached.
Begins ==
  /\ walk.st = "new"
  /\ \E way \in Chains : \E todo \in SUBSET DOMAIN way :
       walk' = IF todo = {} THEN Still("refused") ELSE Walking(way, todo, 0)

\* The provider it is at fails it, and is asked again, or is given up for the next.
AsksOnceMore ==
  /\ walk.st = "walking" /\ walk.tries < Budget
  /\ walk' = Walking(walk.way, walk.todo, walk.tries + 1)
MovesOn ==
  /\ walk.st = "walking"
  /\ \E j \in Least(walk.todo) :
       walk.todo # {j} /\ walk' = Walking(walk.way, walk.todo \ {j}, 0)

\* It ends: with the answer, with an error no other provider would mend, or because
\* the last provider has failed it.
Ends ==
  /\ walk.st = "walking"
  /\ \/ walk' \in {Still("done"), Still("fatal")}
     \/ walk.todo = Least(walk.todo) /\ walk' = Still("exhausted")

WNext == Begins \/ AsksOnceMore \/ MovesOn \/ Ends

WSpec == WInit /\ [][WNext]_walk
=============================================================================
