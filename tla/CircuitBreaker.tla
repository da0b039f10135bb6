--------------------------- MODULE CircuitBreaker ---------------------------
(***************************************************************************)
(* The circuit breaker of src/circuit-breaker.ts, the record it keeps for  *)
(* one provider and its operations. Time is left out: a breaker that is    *)
(* open has waited its reset timeout out (cooled) or not. Failures above   *)
(* the threshold count as the threshold, nothing tells them apart.         *)
(***************************************************************************)
EXTENDS Integers

CONSTANTS Threshold,  \* failures that open the circuit
          MaxMult     \* maxResetMs / baseResetMs

ASSUME BreakerAssumption ==
  Threshold \in Nat \ {0} /\ MaxMult \in Nat \ {0, 1}

Breaker == [failures : 0 .. Threshold, mult : 1 .. MaxMult, cooled : BOOLEAN]

AtMost(n, bound) == IF n < bound THEN n ELSE bound

Closed == [failures |-> 0, mult |-> 1, cooled |-> FALSE]

\* isOpen: half-open, that is cooled, lets calls through.
IsOpen(b) == b.failures >= Threshold /\ ~b.cooled

\* tripImmediately
Trip(b) == [failures |-> Threshold, mult |-> AtMost(2 * b.mult, MaxMult), cooled |-> FALSE]

\* recordFailure: the wait doubles from the threshold on.
RecordFailure(b) ==
  IF b.failures + 1 >= Threshold THEN Trip(b)
  ELSE [failures |-> b.failures + 1, mult |-> b.mult, cooled |-> FALSE]

\* Mutant: the wait is not reset.
RecordSuccessKeepsWait(b) == [b EXCEPT !.failures = 0, !.cooled = FALSE]

\* recordSuccess
RecordSuccess(b) == Closed

\* External: the reset timeout passes.
Cooled(b) == [b EXCEPT !.cooled = TRUE]
=============================================================================
