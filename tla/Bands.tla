------------------------------- MODULE Bands --------------------------------
(***************************************************************************)
(* Complexity bands: the order of prompt-classifier.mjs, what the          *)
(* classifier may do to a declared band, the band an intercepted agent     *)
(* asks for (offload.mjs), and the records turn-band.mjs keeps of a        *)
(* session. All of it is pure; a verdict is whatever the model behind the  *)
(* classifier answers, an answer that is no band included.                 *)
(***************************************************************************)
EXTENDS Naturals

\* BAND_ORDER, cheapest first.
Band == {"small", "medium", "high"}
Rank(b) == CASE b = "small" -> 1 [] b = "medium" -> 2 [] b = "high" -> 3

-----------------------------------------------------------------------------
(* The classifier.                                                         *)

\* applyDowngrade: only an easier band is taken.
ApplyDowngrade(declared, verdict) ==
  IF verdict \in Band /\ Rank(verdict) < Rank(declared) THEN verdict ELSE declared

\* The gates before the model is asked (classifierEligibility, lastUserText,
\* vetoesDowngrade). A prompt is one of: "plain", "loop", "large", "empty",
\* "vetoed".
Eligible(delegated, declared, prompt) ==
  delegated /\ declared # "small" /\ prompt = "plain"

\* The band after the verdict: what is no band, or a band the operator did not
\* allow, changes nothing.
Judged(declared, allowed, verdict) ==
  IF verdict \in allowed THEN ApplyDowngrade(declared, verdict) ELSE declared

\* All the bands the classifier may leave, an error included.
Outcomes(declared, allowed) ==
  {Judged(declared, allowed, v) : v \in Band \cup {"error"}}

-----------------------------------------------------------------------------
(* What an intercepted agent asks for: its reasoning effort, else the tier *)
(* of the model it picked.                                                 *)

CallerBand(effort, tier) ==
  CASE effort \in {"minimal", "low", "none"} -> "small"
    [] effort = "medium" -> "medium"
    [] effort \in {"high", "xhigh"} -> "high"
    [] effort = "" /\ tier = "mini" -> "small"
    [] effort = "" /\ tier = "opus" -> "high"
    [] OTHER -> "medium"

-----------------------------------------------------------------------------
(* Sessions.                                                               *)

SessionRecord == [kind : {"none", "offloaded", "promoted"}, at : Nat]
NoSession == [kind |-> "none", at |-> 0]

\* sessionVerdict: a promotion decides the turns after the one that caused it.
PromotedBefore(rec, turn) == rec.kind = "promoted" /\ turn > rec.at

\* nextSessionRecord, or rec itself where the code leaves the record alone.
NextSession(rec, turn, offloadable) ==
  IF rec.kind = "promoted" THEN rec
  ELSE IF offloadable THEN [kind |-> "offloaded", at |-> turn]
  ELSE IF rec.kind = "offloaded" THEN [kind |-> "promoted", at |-> turn]
  ELSE rec
=============================================================================
