------------------------------ MODULE MCDaemon ------------------------------
(* Instances of Offload: f and g open two turns of a session, l is a loop   *)
(* call of the first one; x and y are two endpoints the user switches       *)
(* between.                                                                 *)
EXTENDS Offload

CONSTANTS f, g, l, s, x, y

Target(on, url, bands, classifier) ==
  [on |-> on, url |-> url, bands |-> bands, models |-> {"small"}, classifier |-> classifier]

MCFirst == Target(TRUE, x, {"small"}, TRUE)
MCConfig == {MCFirst, Target(TRUE, y, {"small", "medium"}, FALSE), Target(FALSE, NoUrl, {}, FALSE)}
MCDeclared == [c \in Call |-> IF c = f THEN CallerBand("low", "opus") ELSE CallerBand("", "opus")]
MCPrompt == [c \in Call |-> IF c = l THEN "loop" ELSE "plain"]
MCTurnOf == [c \in Call |-> IF c = g THEN 2 ELSE 1]
MCTurnIndex == MCTurnOf
MCSessionOf == [c \in Call |-> s]
MCFollows == [c \in Call |-> IF c = l THEN {f} ELSE {}]
=============================================================================
