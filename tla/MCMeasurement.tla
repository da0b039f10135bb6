--------------------------- MODULE MCMeasurement ----------------------------
(* The rows and the spans side by side: a behaviour is one of either. A row  *)
(* is written with the task that the spans bound, and shares nothing else.   *)
(* A tap has nothing in common with the other calls, so each has behaviours  *)
(* of its own, under the same commands.                                      *)
EXTENDS TokenUsage, Spans

CONSTANTS m, n, a, d, e, q, rec, rep, amb

MCHash == [c \in Call |-> IF c \in {m, n} THEN "machine" ELSE "adapter"]
MCReq == [c \in Call |-> IF c \in {a, d} THEN q ELSE NoReq]
\* A database from before the index may hold both rows of q, the poorer one first.
MCOldRow(c, id) == [hash |-> "adapter", id |-> id, req |-> q, split |-> c = a, win |-> 1, of |-> c]
MCOldRows == {MCOldRow(d, 1), MCOldRow(a, 2)}

MCMode == [s \in {rec, rep, amb} |-> IF s = rec THEN "record" ELSE IF s = rep THEN "replay" ELSE "off"]
MCFrom == [s \in {rec, rep, amb} |-> rec]

VARIABLE part

mcvars == <<rvars, pvars, part>>

Init ==
  /\ part \in {"rows", "spans", "taps"} /\ RInit /\ PInit
  /\ mods /\ part # "rows" => db = "absent"

Next ==
  /\ UNCHANGED part
  /\ \/ part = "rows" /\ RNext /\ UNCHANGED pvars
     \/ part = "spans" /\ PNext /\ UNCHANGED <<rvars, [j \in Tap |-> bound[j]]>>
     \/ part = "taps" /\ PNext /\ UNCHANGED <<rvars, [j \in Job \ Tap |-> bound[j]]>>

Spec == Init /\ [][Next]_mcvars
=============================================================================
