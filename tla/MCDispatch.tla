----------------------------- MODULE MCDispatch -----------------------------
(* Instances of Dispatch for TLC: a, b and c open the first three turns of  *)
(* a conversation with an agent, l is a loop call of the first one.         *)
EXTENDS Dispatch

CONSTANTS a, b, c, l, s, cluster, copilot

MCSessionOf == [r \in Request |-> s]
MCTurnOf == [r \in Request |-> CASE r = b -> 2 [] r = c -> 3 [] OTHER -> 1]

\* An agent goes on once it has its answer, while the loop of a turn it left is
\* still running; or it sends turns 2 and 3 together.
MCFollows == [r \in Request |-> CASE r \in {b, l} -> {a} [] r = c -> {b} [] OTHER -> {}]
MCFollowsFirst == [r \in Request |-> IF r = a THEN {} ELSE {a}]

MCChain == [r \in Request |-> <<copilot>>]
MCOffloadChain == [r \in Request |-> <<cluster, copilot>>]
=============================================================================
