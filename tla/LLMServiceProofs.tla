-------------------------- MODULE LLMServiceProofs --------------------------
(***************************************************************************)
(* Proofs about LLMService: its inductive invariant, that a call found     *)
(* sensitive stays local, that an uncached public call with a schema only  *)
(* resolves with an answer that passes its check, and that the chain of a  *)
(* call is walked in turn and to its end; about QuotaTracker: that no      *)
(* provider is refused for longer than its wait; and about Registry: that  *)
(* once every start is over the registry in use is a filled one.           *)
(***************************************************************************)
EXTENDS LLMService, QuotaTracker, Registry, TLAPS

Backed(b) == b.mult > 1 <=> b.failures >= Threshold

\* Each operation of the breaker keeps the link between its counter and its wait.
LEMMA BreakerOps ==
  ASSUME NEW b \in Breaker, Backed(b)
  PROVE  /\ Closed \in Breaker /\ Backed(Closed)
         /\ Trip(b) \in Breaker /\ Backed(Trip(b))
         /\ RecordFailure(b) \in Breaker /\ Backed(RecordFailure(b))
         /\ RecordSuccess(b) \in Breaker /\ Backed(RecordSuccess(b))
         /\ Cooled(b) \in Breaker /\ Backed(Cooled(b))
<1> USE BreakerAssumption
<1>b. b.failures \in 0 .. Threshold /\ b.mult \in 1 .. MaxMult /\ b.cooled \in BOOLEAN
      /\ b = [failures |-> b.failures, mult |-> b.mult, cooled |-> b.cooled]
  BY DEF Breaker
<1>1. Closed \in Breaker /\ Backed(Closed)
  BY DEF Closed, Breaker, Backed
<1>2. Trip(b) \in Breaker /\ Backed(Trip(b))
  <2>1. AtMost(2 * b.mult, MaxMult) \in 2 .. MaxMult
    BY <1>b DEF AtMost
  <2>2. QED
    BY <1>b, <2>1 DEF Trip, Breaker, Backed
<1>3. RecordFailure(b) \in Breaker /\ Backed(RecordFailure(b))
  <2>1. CASE b.failures + 1 >= Threshold
    BY <1>2, <2>1 DEF RecordFailure
  <2>2. CASE ~(b.failures + 1 >= Threshold)
    <3>1. RecordFailure(b) = [failures |-> b.failures + 1, mult |-> b.mult, cooled |-> FALSE]
      BY <2>2 DEF RecordFailure
    <3>2. QED
      BY <1>b, <2>2, <3>1 DEF Breaker, Backed
  <2>3. QED
    BY <2>1, <2>2
<1>4. RecordSuccess(b) \in Breaker /\ Backed(RecordSuccess(b))
  BY <1>1 DEF RecordSuccess
<1>5. Cooled(b) \in Breaker /\ Backed(Cooled(b))
  BY <1>b DEF Cooled, Breaker, Backed
<1>6. QED
  BY <1>1, <1>2, <1>3, <1>4, <1>5

Breakers(f) == f \in [Provider -> Breaker] /\ \A p \in Provider : Backed(f[p])

\* The breakers are in type and order.
LEMMA BreakersOfInv ==
  ASSUME IInv
  PROVE  Breakers(breaker)
BY DEF IInv, TypeOK, BackoffOnlyWhileTripped, Breakers, Backed

\* One breaker changes by an operation, the others stay.
LEMMA BreakersSet ==
  ASSUME IInv, NEW p \in Provider, NEW b,
         b \in {breaker[p], Trip(breaker[p]), RecordFailure(breaker[p]),
                RecordSuccess(breaker[p]), Cooled(breaker[p])},
         breaker' = [breaker EXCEPT ![p] = b]
  PROVE  Breakers(breaker')
<1>1. Breakers(breaker) /\ breaker[p] \in Breaker /\ Backed(breaker[p])
  BY BreakersOfInv DEF Breakers
<1>2. b \in Breaker /\ Backed(b)
  BY <1>1, BreakerOps
<1>3. breaker' \in [Provider -> Breaker]
  BY <1>1, <1>2 DEF Breakers
<1>4. \A q \in Provider : breaker'[q] = IF q = p THEN b ELSE breaker[q]
  BY <1>1 DEF Breakers
<1>5. QED
  BY <1>1, <1>2, <1>3, <1>4 DEF Breakers

-----------------------------------------------------------------------------
(* Where the continuations may leave a call.                               *)

\* A state of one call that keeps the type and the pointer right.
Sound(r, c) ==
  /\ c \in [pc : {"new"} \cup Waiting \cup Settled, i : Nat, ok : BOOLEAN]
  /\ c.pc = "quota" => c.i \in 1 .. Len(Subscription)
  /\ c.pc = "local" => c.i \in 1 .. Len(LocalOrder)
  /\ c.pc \in {"asking", "booking", "fixing"} => c.i \in 1 .. Len(Chain[r])

\* What a step may do to the calls: one moves, to a sound state.
Moves(r) == \E c : Sound(r, c) /\ call' = [call EXCEPT ![r] = c]

\* The lists are finite and name providers.
LEMMA Lengths ==
  /\ Len(LocalOrder) \in Nat /\ Len(Subscription) \in Nat
  /\ \A r \in Request : Len(Chain[r]) \in Nat
  /\ \A i \in 1 .. Len(LocalOrder) : LocalOrder[i] \in Provider
  /\ \A i \in 1 .. Len(Subscription) : Subscription[i] \in Provider
  /\ \A r \in Request : \A i \in 1 .. Len(Chain[r]) : Chain[r][i] \in Provider
BY ServiceAssumption

\* Each continuation of a call leaves it in a state its lists allow: the walk of the chain, ...
LEMMA ChainMoves ==
  ASSUME NEW r \in Request, NEW i \in Nat \ {0}, EnterChain(r, i)
  PROVE  Moves(r)
<1>1. CASE \E j \in FirstUsable(Chain[r], i) : At(r, "asking", j, FALSE)
  <2>1. PICK j \in FirstUsable(Chain[r], i) : At(r, "asking", j, FALSE)
    BY <1>1
  <2>2. j \in 1 .. Len(Chain[r]) /\ j \in Nat
    BY <2>1, Lengths DEF FirstUsable
  <2>3. Sound(r, [pc |-> "asking", i |-> j, ok |-> FALSE])
    BY <2>2 DEF Sound, Waiting
  <2>4. QED
    BY <2>1, <2>3 DEF At, Moves
<1>2. CASE At(r, "failed", 1, FALSE)
  <2>1. Sound(r, [pc |-> "failed", i |-> 1, ok |-> FALSE])
    BY DEF Sound, Settled
  <2>2. QED
    BY <1>2, <2>1 DEF At, Moves
<1>3. QED
  BY <1>1, <1>2 DEF EnterChain

\* ... the public route, ...
LEMMA PublicMoves ==
  ASSUME NEW r \in Request, EnterPublic(r)
  PROVE  Moves(r)
<1>1. CASE At(r, "done", 1, cache[PromptOf[r]] = "good")
  <2>1. Sound(r, [pc |-> "done", i |-> 1, ok |-> cache[PromptOf[r]] = "good"])
    BY DEF Sound, Settled
  <2>2. QED
    BY <1>1, <2>1 DEF At, Moves
<1>2. CASE At(r, "classifying", 1, FALSE)
  <2>1. Sound(r, [pc |-> "classifying", i |-> 1, ok |-> FALSE])
    BY DEF Sound, Waiting
  <2>2. QED
    BY <1>2, <2>1 DEF At, Moves
<1>3. QED
  BY <1>1, <1>2 DEF EnterPublic

\* ... the local route, ...
LEMMA LocalMoves ==
  ASSUME NEW r \in Request, NEW i \in Nat \ {0}, EnterLocal(r, i)
  PROVE  Moves(r)
<1>1. CASE \E j \in FirstUsable(LocalOrder, i) : At(r, "local", j, FALSE)
  <2>1. PICK j \in FirstUsable(LocalOrder, i) : At(r, "local", j, FALSE)
    BY <1>1
  <2>2. j \in 1 .. Len(LocalOrder) /\ j \in Nat
    BY <2>1, Lengths DEF FirstUsable
  <2>3. Sound(r, [pc |-> "local", i |-> j, ok |-> FALSE])
    BY <2>2 DEF Sound, Waiting
  <2>4. QED
    BY <2>1, <2>3 DEF At, Moves
<1>2. QED
  BY <1>1, PublicMoves DEF EnterLocal

\* ... the checks of the quotas.
LEMMA QuotaMoves ==
  ASSUME TypeOK, NEW r \in Request, NEW i \in Nat \ {0}, EnterQuota(r, i)
  PROVE  Moves(r) /\ quota' \in [Provider -> {"ok", "exhausted", "rested"}]
<1>1. CASE i <= Len(Subscription)
  <2> DEFINE p == Subscription[i]
  <2>1. /\ quota' = [quota EXCEPT ![p] = IF quota[p] = "rested" THEN "ok" ELSE quota[p]]
        /\ At(r, "quota", i, quota[p] # "exhausted")
    BY <1>1, Lengths DEF EnterQuota
  <2>2. i \in 1 .. Len(Subscription) /\ p \in Provider
    BY <1>1, Lengths
  <2>3. Sound(r, [pc |-> "quota", i |-> i, ok |-> quota[p] # "exhausted"])
    BY <2>2 DEF Sound, Waiting
  <2>4. Moves(r)
    BY <2>1, <2>3 DEF At, Moves
  <2>5. quota[p] \in {"ok", "exhausted", "rested"}
    BY <2>2 DEF TypeOK
  <2>6. quota' \in [Provider -> {"ok", "exhausted", "rested"}]
    BY <2>1, <2>5 DEF TypeOK
  <2>7. QED
    BY <2>4, <2>6
<1>2. CASE ~(i <= Len(Subscription))
  <2>1. UNCHANGED quota /\ EnterChain(r, 1)
    BY <1>2 DEF EnterQuota
  <2>2. QED
    BY <2>1, ChainMoves DEF TypeOK
<1>3. QED
  BY <1>1, <1>2

-----------------------------------------------------------------------------
(* The inductive invariant.                                                *)

Quotas(f) == f \in [Provider -> {"ok", "exhausted", "rested"}]
Caches(f) == f \in [Prompt -> Answer \cup {"none"}]

\* The shared parts are in type.
LEMMA TypesOfInv ==
  ASSUME IInv
  PROVE  Breakers(breaker) /\ Quotas(quota) /\ Caches(cache)
BY BreakersOfInv DEF IInv, TypeOK, Quotas, Caches

\* A step that moves at most one call, and keeps the rest in type, keeps IInv.
LEMMA Combine ==
  ASSUME IInv, UNCHANGED call \/ \E r \in Request : Moves(r),
         Breakers(breaker'), Quotas(quota'), Caches(cache')
  PROVE  IInv'
<1>1. \A p \in Provider : breaker'[p].mult > 1 <=> breaker'[p].failures >= Threshold
  BY DEF Breakers, Backed
<1>2. breaker' \in [Provider -> Breaker] /\ quota' \in [Provider -> {"ok", "exhausted", "rested"}]
      /\ cache' \in [Prompt -> Answer \cup {"none"}]
  BY DEF Breakers, Quotas, Caches
<1>3. \A q \in Request : Sound(q, call[q])
  BY DEF IInv, TypeOK, PointsInto, Sound
<1>4. call' \in [Request -> [pc : {"new"} \cup Waiting \cup Settled, i : Nat, ok : BOOLEAN]]
      /\ \A q \in Request : Sound(q, call'[q])
  <2>1. CASE UNCHANGED call
    BY <1>3, <2>1 DEF IInv, TypeOK
  <2>2. CASE \E r \in Request : Moves(r)
    <3>0. PICK r \in Request : Moves(r)
      BY <2>2
    <3>1. PICK c : Sound(r, c) /\ call' = [call EXCEPT ![r] = c]
      BY <3>0 DEF Moves
    <3>2. c \in [pc : {"new"} \cup Waiting \cup Settled, i : Nat, ok : BOOLEAN]
      BY <3>1 DEF Sound
    <3>3. call \in [Request -> [pc : {"new"} \cup Waiting \cup Settled, i : Nat, ok : BOOLEAN]]
      BY DEF IInv, TypeOK
    <3>4. \A q \in Request : call'[q] = IF q = r THEN c ELSE call[q]
      BY <3>1, <3>3
    <3>5. call' \in [Request -> [pc : {"new"} \cup Waiting \cup Settled, i : Nat, ok : BOOLEAN]]
      BY <3>1, <3>2, <3>3
    <3>6. QED
      BY <1>3, <3>1, <3>4, <3>5
  <2>3. QED
    BY <2>1, <2>2
<1>5. \A q \in Request : PointsInto(q)'
  BY <1>4 DEF Sound, PointsInto
<1>6. TypeOK' /\ BackoffOnlyWhileTripped'
  BY <1>1, <1>2, <1>4 DEF TypeOK, BackoffOnlyWhileTripped
<1>7. QED
  BY <1>5, <1>6 DEF IInv

\* Where a call points.
LEMMA Pointers ==
  ASSUME IInv, NEW r \in Request
  PROVE  /\ call[r].i \in Nat
         /\ call[r].pc = "quota" =>
              /\ call[r].i + 1 \in Nat \ {0}
              /\ Subscription[call[r].i] \in Provider
         /\ call[r].pc = "local" =>
              /\ call[r].i + 1 \in Nat \ {0}
              /\ LocalOrder[call[r].i] \in Provider
         /\ call[r].pc \in {"asking", "booking", "fixing"} =>
              /\ call[r].i + 1 \in Nat \ {0}
              /\ call[r].i \in 1 .. Len(Chain[r])
              /\ Chain[r][call[r].i] \in Provider
BY Lengths DEF IInv, TypeOK, PointsInto

\* So does a failure that is caught; the breaker it books is in type.
LEMMA CaughtMoves ==
  ASSUME IInv, NEW r \in Request, call[r].pc \in {"asking", "fixing"}, Caught(r)
  PROVE  Moves(r) /\ Breakers(breaker') /\ Quotas(quota') /\ Caches(cache')
<1> DEFINE p == Chain[r][call[r].i]
<1>1. p \in Provider /\ call[r].i + 1 \in Nat \ {0}
  BY Pointers
<1>2. \/ breaker' = [breaker EXCEPT ![p] = Trip(breaker[p])]
      \/ breaker' = [breaker EXCEPT ![p] = RecordFailure(breaker[p])]
  BY DEF Caught
<1>3. Breakers(breaker')
  BY <1>1, <1>2, BreakersSet
<1>4. Quotas(quota')
  BY TypesOfInv DEF Caught, Quotas
<1>5. Caches(cache')
  BY TypesOfInv DEF Caught, Caches
<1>6. Moves(r)
  BY <1>1, ChainMoves DEF Caught
<1>7. QED
  BY <1>3, <1>4, <1>5, <1>6

\* An answer settles the call.
LEMMA DoneMoves ==
  ASSUME NEW r \in Request, NEW ok \in BOOLEAN, At(r, "done", 1, ok)
  PROVE  Moves(r)
<1>1. Sound(r, [pc |-> "done", i |-> 1, ok |-> ok])
  BY DEF Sound, Settled
<1>2. QED
  BY <1>1 DEF At, Moves

\* A step of a call moves that call only, and keeps the rest in type.
LEMMA ResumeSound ==
  ASSUME IInv, NEW r \in Request, Complete(r) \/ Resume(r)
  PROVE  Moves(r) /\ Breakers(breaker') /\ Quotas(quota') /\ Caches(cache')
<1> USE TypesOfInv
<1>t. TypeOK
  BY DEF IInv
<1>1. CASE Complete(r)
  <2>1. Moves(r)
    BY <1>1, LocalMoves, PublicMoves DEF Complete
  <2>2. QED
    BY <1>1, <2>1 DEF Complete
<1>2. CASE Classified(r)
  <2>1. Moves(r) /\ Quotas(quota')
    <3>1. CASE EnterLocal(r, 1) /\ UNCHANGED quota
      BY <3>1, LocalMoves
    <3>2. CASE At(r, "affording", 1, FALSE) /\ UNCHANGED quota
      <4>1. Sound(r, [pc |-> "affording", i |-> 1, ok |-> FALSE])
        BY DEF Sound, Waiting
      <4>2. QED
        BY <3>2, <4>1 DEF At, Moves
    <3>3. CASE EnterQuota(r, 1)
      BY <1>t, <3>3, QuotaMoves DEF Quotas
    <3>4. QED
      BY <1>2, <3>1, <3>2, <3>3 DEF Classified
  <2>2. QED
    BY <1>2, <2>1 DEF Classified
<1>3. CASE Afforded(r)
  <2>1. Moves(r) /\ Quotas(quota')
    BY <1>t, <1>3, LocalMoves, QuotaMoves DEF Afforded, Quotas
  <2>2. QED
    BY <1>3, <2>1 DEF Afforded
<1>4. CASE QuotaChecked(r)
  <2> DEFINE p == Subscription[call[r].i]
  <2>1. p \in Provider /\ call[r].i + 1 \in Nat \ {0}
    BY <1>4, Pointers DEF QuotaChecked
  <2>2. \/ breaker' = [breaker EXCEPT ![p] = breaker[p]]
        \/ breaker' = [breaker EXCEPT ![p] = RecordFailure(breaker[p])]
    BY <1>4 DEF QuotaChecked
  <2>3. Breakers(breaker')
    BY <2>1, <2>2, BreakersSet
  <2>4. Moves(r) /\ Quotas(quota')
    BY <1>t, <1>4, <2>1, QuotaMoves DEF QuotaChecked, Quotas
  <2>5. QED
    BY <1>4, <2>3, <2>4 DEF QuotaChecked
<1>5. CASE LocalAnswers(r)
  <2> DEFINE p == LocalOrder[call[r].i]
  <2>1. p \in Provider /\ breaker' = [breaker EXCEPT ![p] = RecordSuccess(breaker[p])]
    BY <1>5, Pointers DEF LocalAnswers
  <2>2. Breakers(breaker')
    BY <2>1, BreakersSet
  <2>3. Moves(r)
    BY <1>5, DoneMoves DEF LocalAnswers
  <2>4. QED
    BY <1>5, <2>2, <2>3 DEF LocalAnswers
<1>6. CASE LocalFails(r)
  <2> DEFINE p == LocalOrder[call[r].i]
  <2>1. p \in Provider /\ call[r].i + 1 \in Nat \ {0}
    BY <1>6, Pointers DEF LocalFails
  <2>2. \/ breaker' = [breaker EXCEPT ![p] = Trip(breaker[p])]
        \/ breaker' = [breaker EXCEPT ![p] = RecordFailure(breaker[p])]
    BY <1>6 DEF LocalFails
  <2>3. Breakers(breaker')
    BY <2>1, <2>2, BreakersSet
  <2>4. Moves(r)
    BY <1>6, <2>1, LocalMoves DEF LocalFails
  <2>5. QED
    BY <1>6, <2>3, <2>4 DEF LocalFails
<1>7. CASE Answers(r)
  <2> DEFINE p == Chain[r][call[r].i]
  <2>1. /\ p \in Provider /\ breaker' = [breaker EXCEPT ![p] = RecordSuccess(breaker[p])]
        /\ call[r].i \in 1 .. Len(Chain[r]) /\ call[r].i \in Nat
    BY <1>7, Pointers DEF Answers
  <2>2. Breakers(breaker')
    BY <2>1, BreakersSet
  <2>3. Quotas(quota')
    BY <1>7, <2>1 DEF Answers, Quotas
  <2>4. PICK ok \in BOOLEAN : At(r, "booking", call[r].i, ok)
    BY <1>7 DEF Answers
  <2>5. Sound(r, [pc |-> "booking", i |-> call[r].i, ok |-> ok])
    BY <2>1 DEF Sound, Waiting
  <2>6. Moves(r)
    BY <2>4, <2>5 DEF At, Moves
  <2>7. QED
    BY <1>7, <2>2, <2>3, <2>6 DEF Answers
<1>8. CASE Fails(r)
  BY <1>8, CaughtMoves DEF Fails
<1>9. CASE Booked(r)
  <2>1. call[r].i \in 1 .. Len(Chain[r]) /\ call[r].i \in Nat /\ call[r].ok \in BOOLEAN
    BY <1>9, <1>t, Pointers DEF Booked, TypeOK
  <2>2. Moves(r)
    <3>1. CASE At(r, "fixing", call[r].i, FALSE)
      <4>1. Sound(r, [pc |-> "fixing", i |-> call[r].i, ok |-> FALSE])
        BY <2>1 DEF Sound, Waiting
      <4>2. QED
        BY <3>1, <4>1 DEF At, Moves
    <3>2. CASE At(r, "done", 1, call[r].ok)
      BY <2>1, <3>2, DoneMoves
    <3>3. QED
      BY <1>9, <3>1, <3>2 DEF Booked
  <2>3. Caches(cache')
    BY <1>9 DEF Booked, Caches, Answer
  <2>4. QED
    BY <1>9, <2>2, <2>3 DEF Booked
<1>10. CASE Fixed(r)
  <2>1. CASE At(r, "done", 1, TRUE) /\ UNCHANGED <<breaker, quota, cache>>
    BY <2>1, DoneMoves
  <2>2. CASE Caught(r)
    BY <1>10, <2>2, CaughtMoves DEF Fixed
  <2>3. QED
    BY <1>10, <2>1, <2>2 DEF Fixed
<1>11. QED
  BY <1>1, <1>2, <1>3, <1>4, <1>5, <1>6, <1>7, <1>8, <1>9, <1>10 DEF Resume

\* The invariant holds at first.
LEMMA InitInv == Init => IInv
<1> SUFFICES ASSUME Init PROVE IInv
  OBVIOUS
<1>1. \A p \in Provider : breaker[p] = Closed
  BY DEF Init
<1>2. Closed \in Breaker /\ Backed(Closed)
  BY BreakerAssumption DEF Closed, Breaker, Backed
<1>3. BackoffOnlyWhileTripped
  BY <1>1, <1>2 DEF BackoffOnlyWhileTripped, Backed
<1>4. TypeOK
  BY <1>2 DEF Init, TypeOK
<1>5. \A r \in Request : PointsInto(r)
  BY DEF Init, PointsInto
<1>6. QED
  BY <1>3, <1>4, <1>5 DEF IInv

\* Every step preserves it.
LEMMA StepInv ==
  ASSUME IInv, [Next]_vars
  PROVE  IInv'
<1> USE TypesOfInv
<1>1. ASSUME NEW r \in Request, Complete(r) \/ Resume(r) PROVE IInv'
  BY <1>1, ResumeSound, Combine
<1>2. ASSUME NEW p \in Provider, CoolDown(p) PROVE IInv'
  <2>1. Breakers(breaker')
    BY <1>2, BreakersSet DEF CoolDown
  <2>2. QED
    BY <1>2, <2>1, Combine DEF CoolDown
<1>3. ASSUME NEW p \in Provider, Rest(p) PROVE IInv'
  <2>1. Quotas(quota')
    BY <1>3 DEF Rest, Quotas
  <2>2. QED
    BY <1>3, <2>1, Combine DEF Rest
<1>4. ASSUME NEW k \in Prompt, Forget(k) PROVE IInv'
  <2>1. Caches(cache')
    BY <1>4 DEF Forget, Caches
  <2>2. QED
    BY <1>4, <2>1, Combine DEF Forget
<1>5. CASE UNCHANGED vars
  BY <1>5, Combine DEF vars
<1>6. QED
  BY <1>1, <1>2, <1>3, <1>4, <1>5 DEF Next

\* Types, pointers, and the wait of a breaker that is longer than the base
\* exactly while it has tripped (recordFailure, tripImmediately, recordSuccess).
THEOREM Invariance == Spec => []IInv
<1>1. IInv /\ [Next]_vars => IInv'
  BY StepInv
<1>2. QED
  BY InitInv, <1>1, PTL DEF Spec

-----------------------------------------------------------------------------
(* The other properties.                                                   *)

\* A step of a call leaves the others alone.
LEMMA OthersKept ==
  ASSUME IInv, NEW q \in Request, Complete(q) \/ Resume(q), NEW r \in Request, r # q
  PROVE  call'[r] = call[r]
<1>1. Moves(q)
  BY ResumeSound
<1>2. QED
  BY <1>1 DEF IInv, TypeOK, Moves

\* A step of anything but a call leaves the calls alone.
LEMMA WhoMoves ==
  ASSUME IInv, [Next]_vars, NEW r \in Request, call'[r] # call[r]
  PROVE  Complete(r) \/ Resume(r)
BY OthersKept DEF Next, CoolDown, Rest, Forget, vars

\* What a continuation sets.
LEMMA AtSets ==
  ASSUME TypeOK, NEW r \in Request
  PROVE  \A pc, i, ok : At(r, pc, i, ok) =>
           call'[r].pc = pc /\ call'[r].i = i /\ call'[r].ok = ok
<1>1. TAKE pc, i, ok
<1>2. HAVE At(r, pc, i, ok)
<1>3. call' = [call EXCEPT ![r] = [pc |-> pc, i |-> i, ok |-> ok]]
  BY <1>2 DEF At
<1>4. r \in DOMAIN call
  BY DEF TypeOK
<1>5. QED
  BY <1>3, <1>4

\* What the continuations make of a call.
LEMMA Continuations ==
  ASSUME IInv, NEW r \in Request
  PROVE  /\ EnterPublic(r) => call'[r].pc \in {"classifying", "done"}
         /\ EnterPublic(r) /\ r \in SkipCache => call'[r].pc = "classifying"
         /\ \A i \in Nat : EnterLocal(r, i) => call'[r].pc \in {"local", "classifying", "done"}
         /\ \A i \in Nat : EnterChain(r, i) => call'[r].pc \in {"asking", "failed"}
         /\ \A i \in Nat : EnterQuota(r, i) => call'[r].pc \in {"quota", "asking", "failed"}
         /\ \A i \in Nat : EnterQuota(r, i) => call'[r].pc = "quota" \/ EnterChain(r, 1)
<1>0. \A pc, i, ok : At(r, pc, i, ok) => call'[r].pc = pc /\ call'[r].ok = ok
  BY AtSets DEF IInv
<1>1. EnterPublic(r) => call'[r].pc \in {"classifying", "done"}
  BY <1>0 DEF EnterPublic
<1>2. EnterPublic(r) /\ r \in SkipCache => call'[r].pc = "classifying"
  BY <1>0 DEF EnterPublic
<1>3. \A i \in Nat : EnterLocal(r, i) => call'[r].pc \in {"local", "classifying", "done"}
  BY <1>0, <1>1 DEF EnterLocal
<1>4. \A i \in Nat : EnterChain(r, i) => call'[r].pc \in {"asking", "failed"}
  BY <1>0 DEF EnterChain
<1>q. \A i \in Nat : EnterQuota(r, i) => EnterChain(r, 1) \/ \E ok : At(r, "quota", i, ok)
  BY DEF EnterQuota
<1>5. \A i \in Nat : EnterQuota(r, i) => call'[r].pc \in {"quota", "asking", "failed"}
  BY <1>0, <1>4, <1>q
<1>6. \A i \in Nat : EnterQuota(r, i) => call'[r].pc = "quota" \/ EnterChain(r, 1)
  BY <1>0, <1>q
<1>7. QED
  BY <1>1, <1>2, <1>3, <1>4, <1>5, <1>6

\* Where a step of a call can leave it, from where it stood.
LEMMA Routes ==
  ASSUME IInv, NEW r \in Request, Complete(r) \/ Resume(r)
  PROVE  \/ /\ call[r].pc = "new"
            /\ \/ r \notin LocalOnly /\ EnterPublic(r)
               \/ r \in LocalOnly /\ \E i \in Nat : EnterLocal(r, i)
         \/ /\ call[r].pc = "classifying"
            /\ \/ r \in Sensitive /\ \E i \in Nat : EnterLocal(r, i)
               \/ /\ r \notin Sensitive \/ ClassifierFails
                  /\ \/ r \in Metered /\ call'[r].pc = "affording"
                     \/ EnterQuota(r, 1)
         \/ /\ call[r].pc = "affording"
            /\ (\E i \in Nat : EnterLocal(r, i)) \/ EnterQuota(r, 1)
         \/ /\ call[r].pc = "quota"
            /\ EnterQuota(r, call[r].i + 1)
         \/ /\ call[r].pc = "local"
            /\ call'[r].pc = "done" \/ \E i \in Nat : EnterLocal(r, i)
         \/ /\ call[r].pc = "asking"
            /\ \/ call'[r].pc = "booking" /\ call'[r].i = call[r].i
               \/ EnterChain(r, call[r].i + 1)
         \/ /\ call[r].pc = "booking"
            /\ \/ call'[r].pc = "fixing" /\ call'[r].i = call[r].i
               \/ /\ call'[r].pc = "done"
                  /\ r \in Schema => call'[r].ok
         \/ /\ call[r].pc = "fixing"
            /\ \/ call'[r].pc = "done" /\ call'[r].ok
               \/ EnterChain(r, call[r].i + 1)
<1>0. /\ \A pc, i, ok : At(r, pc, i, ok) =>
            call'[r].pc = pc /\ call'[r].i = i /\ call'[r].ok = ok
      /\ 1 \in Nat /\ call[r].i \in Nat /\ call[r].ok \in BOOLEAN /\ call[r].i + 1 \in Nat
  BY AtSets DEF IInv, TypeOK
<1>1. CASE Complete(r)
  BY <1>0, <1>1 DEF Complete
<1>2. CASE Classified(r)
  BY <1>0, <1>2 DEF Classified
<1>3. CASE Afforded(r)
  BY <1>0, <1>3 DEF Afforded
<1>4. CASE QuotaChecked(r)
  BY <1>0, <1>4 DEF QuotaChecked
<1>5. CASE LocalAnswers(r)
  <2>1. PICK ok : At(r, "done", 1, ok)
    BY <1>5 DEF LocalAnswers
  <2>2. QED
    BY <1>0, <1>5, <2>1 DEF LocalAnswers
<1>6. CASE LocalFails(r)
  BY <1>0, <1>6 DEF LocalFails
<1>7. CASE Answers(r)
  <2>1. PICK ok : At(r, "booking", call[r].i, ok)
    BY <1>7 DEF Answers
  <2>2. QED
    BY <1>0, <1>7, <2>1 DEF Answers
<1>8. CASE Fails(r)
  BY <1>8 DEF Fails, Caught
<1>9. CASE Booked(r)
  <2>1. CASE r \in Schema /\ ~call[r].ok /\ At(r, "fixing", call[r].i, FALSE)
    BY <1>0, <1>9, <2>1 DEF Booked
  <2>2. CASE ~(r \in Schema /\ ~call[r].ok) /\ At(r, "done", 1, call[r].ok)
    BY <1>0, <1>9, <2>2 DEF Booked
  <2>3. QED
    BY <1>9, <2>1, <2>2 DEF Booked
<1>10. CASE Fixed(r)
  BY <1>0, <1>10 DEF Fixed, Caught
<1>11. QED
  BY <1>1, <1>2, <1>3, <1>4, <1>5, <1>6, <1>7, <1>8, <1>9, <1>10 DEF Resume

\* However often its local route gives up, a sensitive call never reaches the
\* public chain while the classifier does not throw (completeWithLocal and
\* completePublic call each other).
THEOREM Privacy == Spec => []SensitiveStaysLocal
<1>1. Init => SensitiveStaysLocal
  BY ServiceAssumption DEF Init, SensitiveStaysLocal
<1>2. ASSUME IInv, SensitiveStaysLocal, [Next]_vars
      PROVE  SensitiveStaysLocal'
  <2>1. SUFFICES ASSUME NEW r \in Sensitive, ~ClassifierFails
                 PROVE  call'[r].pc \notin {"affording", "quota", "asking", "booking", "fixing"}
    BY DEF SensitiveStaysLocal
  <2>2. r \in Request /\ call[r].pc \notin {"affording", "quota", "asking", "booking", "fixing"}
    BY <1>2, <2>1, ServiceAssumption DEF SensitiveStaysLocal
  <2>3. CASE call'[r] = call[r]
    BY <2>2, <2>3
  <2>4. CASE call'[r] # call[r]
    <3>1. Complete(r) \/ Resume(r)
      BY <1>2, <2>2, <2>4, WhoMoves
    <3>2. EnterPublic(r) \/ (\E i \in Nat : EnterLocal(r, i)) \/ call'[r].pc = "done"
      BY <1>2, <2>1, <2>2, <3>1, Routes
    <3>3. QED
      BY <1>2, <2>2, <3>2, Continuations
  <2>5. QED
    BY <2>3, <2>4
<1>3. QED
  BY <1>1, <1>2, Invariance, PTL DEF Spec

\* An uncached public call with a schema never takes the local route, which does
\* not check the schema.
Checked(r) ==
  /\ call[r].pc \notin {"local", "affording"}
  /\ call[r].pc = "done" => call[r].ok

AllChecked ==
  \A r \in (Schema \cap SkipCache) \ (LocalOnly \cup Sensitive \cup Metered) : Checked(r)

\* Such a call is resolved with a matching answer only: the first answer is
\* checked, the second too, and no other route resolves it.
THEOREM SchemaChecked == Spec => []SchemaHonouredUncached
<1>1. Init => AllChecked
  BY ServiceAssumption DEF Init, AllChecked, Checked
<1>2. ASSUME IInv, AllChecked, [Next]_vars
      PROVE  AllChecked'
  <2>1. SUFFICES ASSUME NEW r \in (Schema \cap SkipCache) \ (LocalOnly \cup Sensitive \cup Metered)
                 PROVE  Checked(r)'
    BY DEF AllChecked
  <2>2. r \in Request /\ Checked(r)
    BY <1>2, <2>1, ServiceAssumption DEF AllChecked
  <2>3. CASE call'[r] = call[r]
    BY <2>2, <2>3 DEF Checked
  <2>4. CASE call'[r] # call[r]
    <3>1. Complete(r) \/ Resume(r)
      BY <1>2, <2>2, <2>4, WhoMoves
    <3>2. \/ EnterPublic(r)
          \/ \E i \in Nat : EnterQuota(r, i) \/ EnterChain(r, i)
          \/ call'[r].pc \in {"booking", "fixing"}
          \/ call'[r].pc = "done" /\ call'[r].ok
      <4>1. r \in Schema /\ r \notin LocalOnly /\ r \notin Sensitive /\ r \notin Metered
            /\ call[r].i + 1 \in Nat /\ 1 \in Nat
        BY <1>2, <2>1, <2>2 DEF IInv, TypeOK
      <4>2. QED
        BY <1>2, <2>2, <3>1, <4>1, Routes DEF Checked
    <3>3. QED
      BY <1>2, <2>1, <2>2, <3>2, Continuations DEF Checked
  <2>5. QED
    BY <2>3, <2>4
<1>3. AllChecked => SchemaHonouredUncached
  BY DEF AllChecked, Checked, SchemaHonouredUncached
<1>4. QED
  BY <1>1, <1>2, <1>3, Invariance, PTL DEF Spec

\* Both at once: no call is sent where it must not go, nor resolved with an answer that
\* fails its check.
THEOREM Honoured == Spec => []RequestHonoured
BY Privacy, SchemaChecked, PTL DEF RequestHonoured

-----------------------------------------------------------------------------
(* The walk of the chain. What is noted of a call is what lies before the   *)
(* provider that it is with, and nothing before it has reached its chain.   *)

Noting(r) ==
  /\ call[r].pc \in {"asking", "booking", "fixing"} => past[r] = 1 .. call[r].i - 1
  /\ call[r].pc = "failed" => past[r] = 1 .. Len(Chain[r])
  /\ call[r].pc \notin {"asking", "booking", "fixing", "failed"} => past[r] = {}

WalkInv == past \in [Request -> SUBSET Nat] /\ \A r \in Request : Noting(r)

\* A call that enters its chain behind the provider it was with, or at its head, notes
\* all that it leaves behind.
LEMMA WalkNoted ==
  ASSUME IInv, WalkInv, Noted, NEW r \in Request, call'[r] # call[r],
         NEW here \in Nat, EnterChain(r, here + 1),
         \/ call[r].pc \in {"asking", "fixing"} /\ here = call[r].i /\ here \in 1 .. Len(Chain[r])
         \/ call[r].pc \notin {"asking", "booking", "fixing", "failed"} /\ here = 0
  PROVE  Noting(r)'
<1>1. Len(Chain[r]) \in Nat /\ call[r].i \in Nat
  BY Lengths DEF IInv, TypeOK
<1>2. here = IF call[r].pc \in {"asking", "fixing"} THEN call[r].i ELSE 0
  OBVIOUS
<1>3. past[r] \cup {j \in 1 .. Len(Chain[r]) : j = here} = 1 .. here
  BY <1>1 DEF WalkInv, Noting
<1>4. WalksOn(r) => past'[r] = past[r] \cup Left(r)
  BY DEF Noted
<1>5. CASE \E j \in FirstUsable(Chain[r], here + 1) : At(r, "asking", j, FALSE)
  <2>1. PICK j \in FirstUsable(Chain[r], here + 1) : At(r, "asking", j, FALSE)
    BY <1>5
  <2>2. call'[r].pc = "asking" /\ call'[r].i = j
    BY <2>1, AtSets DEF IInv
  <2>3. /\ j \in here + 1 .. Len(Chain[r])
        /\ \A k \in here + 1 .. j - 1 : IsOpen(breaker'[Chain[r][k]])
    BY <2>1 DEF FirstUsable
  <2>4. Left(r) = {k \in 1 .. Len(Chain[r]) : k = here} \cup (here + 1 .. j - 1)
    BY <1>1, <1>2, <2>2, <2>3 DEF Left
  <2>5. past'[r] = past[r] \cup Left(r)
    BY <1>4, <2>2 DEF WalksOn
  <2>6. past'[r] = (1 .. here) \cup (here + 1 .. j - 1)
    BY <1>3, <2>4, <2>5
  <2>7. past'[r] = 1 .. j - 1
    BY <1>1, <2>3, <2>6
  <2>8. QED
    BY <2>2, <2>7 DEF Noting
<1>6. CASE AllOpen(Chain[r], here + 1) /\ At(r, "failed", 1, FALSE)
  <2>1. call'[r].pc = "failed"
    BY <1>6, AtSets DEF IInv
  <2>2. \A k \in here + 1 .. Len(Chain[r]) : IsOpen(breaker'[Chain[r][k]])
    BY <1>6 DEF AllOpen
  <2>3. Left(r) = {k \in 1 .. Len(Chain[r]) : k = here} \cup (here + 1 .. Len(Chain[r]))
    BY <1>1, <1>2, <2>1, <2>2 DEF Left
  <2>4. here \in 0 .. Len(Chain[r])
    BY <1>1
  <2>5. past'[r] = past[r] \cup Left(r)
    BY <1>4, <2>1 DEF WalksOn
  <2>6. past'[r] = (1 .. here) \cup (here + 1 .. Len(Chain[r]))
    BY <1>3, <2>3, <2>5
  <2>7. past'[r] = 1 .. Len(Chain[r])
    BY <1>1, <2>4, <2>6
  <2>8. QED
    BY <2>1, <2>7 DEF Noting
<1>7. QED
  BY <1>5, <1>6 DEF EnterChain

\* No step of any call takes a call out of its turn, or notes of it what is not so.
LEMMA WalkKept ==
  ASSUME IInv, WalkInv, [HNext]_<<vars, past>>
  PROVE  WalkInv'
<1>1. CASE UNCHANGED <<vars, past>>
  BY <1>1 DEF WalkInv, Noting, vars
<1>2. CASE HNext
  <2>1. [Next]_vars /\ Noted
    BY <1>2 DEF HNext
  <2>2. past' \in [Request -> SUBSET Nat]
    <3>1. \A r \in Request : Left(r) \subseteq Nat /\ past[r] \subseteq Nat
      BY Lengths DEF Left, WalkInv
    <3>2. QED
      BY <2>1, <3>1 DEF Noted
  <2>3. ASSUME NEW r \in Request PROVE Noting(r)'
    <3>0. call[r].i \in Nat /\ call[r].i + 1 \in Nat /\ 0 \in Nat /\ Noting(r)
      BY DEF IInv, TypeOK, WalkInv
    <3>1. past'[r] = IF WalksOn(r) THEN past[r] \cup Left(r)
                     ELSE IF call'[r].pc = "done" THEN {} ELSE past[r]
      BY <2>1 DEF Noted
    <3>2. CASE call'[r] = call[r]
      BY <3>0, <3>1, <3>2 DEF Noting, WalksOn
    <3>3. CASE call'[r] # call[r]
      <4>1. Complete(r) \/ Resume(r)
        BY <2>1, <3>3, WhoMoves
      <4>2. \/ /\ call[r].pc \in {"new", "classifying", "affording", "quota", "local"}
               /\ \/ EnterChain(r, 1)
                  \/ call'[r].pc \in {"classifying", "affording", "quota", "local", "done"}
            \/ /\ call[r].pc \in {"asking", "booking", "fixing"}
               /\ \/ call'[r].pc \in {"booking", "fixing"} /\ call'[r].i = call[r].i
                  \/ call'[r].pc = "done"
            \/ call[r].pc \in {"asking", "fixing"} /\ EnterChain(r, call[r].i + 1)
        BY <3>0, <4>1, Routes, Continuations
      <4>3. CASE call[r].pc \in {"new", "classifying", "affording", "quota", "local"} /\ EnterChain(r, 0 + 1)
        BY <2>1, <3>0, <3>3, <4>3, WalkNoted
      <4>4. CASE call[r].pc \in {"asking", "fixing"} /\ EnterChain(r, call[r].i + 1)
        <5>1. call[r].i \in 1 .. Len(Chain[r])
          BY <4>4, Pointers
        <5>2. QED
          BY <2>1, <3>0, <3>3, <4>4, <5>1, WalkNoted
      <4>5. CASE /\ call[r].pc \in {"new", "classifying", "affording", "quota", "local"}
                 /\ call'[r].pc \in {"classifying", "affording", "quota", "local", "done"}
        BY <3>0, <3>1, <4>5 DEF Noting, WalksOn
      <4>6. CASE /\ call[r].pc \in {"asking", "booking", "fixing"}
                 /\ \/ call'[r].pc \in {"booking", "fixing"} /\ call'[r].i = call[r].i
                    \/ call'[r].pc = "done"
        BY <3>0, <3>1, <4>6 DEF Noting, WalksOn
      <4>7. QED
        BY <4>2, <4>3, <4>4, <4>5, <4>6
    <3>4. QED
      BY <3>2, <3>3
  <2>4. QED
    BY <2>2, <2>3 DEF WalkInv
<1>3. QED
  BY <1>1, <1>2

\* However other calls move the breakers between one provider of a call and its next
\* (llm-service.ts, the loop of completePublic): a provider is asked when each before it
\* failed the call or was passed with its circuit open, and the call fails when all were.
THEOREM WalksInTurn == HSpec => []InTurn
<1>1. HInit => IInv /\ WalkInv
  <2>1. HInit => IInv
    BY InitInv DEF HInit
  <2>2. HInit => WalkInv
    BY DEF HInit, Init, WalkInv, Noting
  <2>3. QED
    BY <2>1, <2>2
<1>2. IInv /\ WalkInv /\ [HNext]_<<vars, past>> => IInv' /\ WalkInv'
  <2> SUFFICES ASSUME IInv, WalkInv, [HNext]_<<vars, past>> PROVE IInv' /\ WalkInv'
    OBVIOUS
  <2>1. [Next]_vars
    BY DEF HNext, vars
  <2>2. QED
    BY <2>1, StepInv, WalkKept
<1>3. WalkInv => InTurn
  BY DEF WalkInv, Noting, InTurn
<1>4. QED
  BY <1>1, <1>2, <1>3, PTL DEF HSpec
-----------------------------------------------------------------------------
(* The quota tracker. A mark is copied: into the file, into saves that are  *)
(* under way, and back into memory. What makes its age reliable is that no  *)
(* copy, wherever it lies, looks younger than the provider's last word.     *)

Datum == [out : BOOLEAN, age : 0 .. Longest, fails : Nat]
Data == [Plan -> Datum]
CallerRecord ==
  [pc : {"new", "reading", "pruning", "checking", "passing", "asking", "refused", "booking", "done"},
   p : Plan]
\* No mark of the data is younger than what the provider said.
Dated(d, ages) == \A p \in Plan : d[p].out => ages[p] <= d[p].age
Copy(d) == d \in Data /\ Dated(d, since)

QuotaInv ==
  /\ since \in [Plan -> 0 .. Longest]
  /\ caller \in [Caller -> CallerRecord]
  /\ saves \in [Caller \X Kinds -> [pc : {"none", "mkdir", "write"}, d : Data]]
  /\ file \in [ok : BOOLEAN, d : Data]
  /\ Copy(data) /\ Copy(file.d) /\ \A s \in Caller \X Kinds : Copy(saves[s].d)

\* The schedule's last wait is one, and no other is longer.
LEMMA WaitsBounded ==
  /\ Longest \in Nat
  /\ \A i \in DOMAIN Backoff : Backoff[i] \in Nat /\ Backoff[i] <= Longest
<1>1. Len(Backoff) \in DOMAIN Backoff
  BY QuotaAssumption
<1>2. QED
  BY <1>1, QuotaAssumption DEF Longest

\* Data in which nothing is marked is a copy, as is data with one provider's mark taken off.
LEMMA NothingCopies ==
  ASSUME QuotaInv
  PROVE  /\ Fresh \in Datum /\ Copy(Nothing)
         /\ \A d, p : Copy(d) /\ p \in Plan =>
              Copy([d EXCEPT ![p] = Fresh]) /\ Copy([d EXCEPT ![p].out = FALSE, ![p].age = Never])
<1>1. Fresh \in Datum /\ Fresh.out = FALSE
  BY WaitsBounded DEF Fresh, Datum, Never
<1>2. Copy(Nothing)
  BY <1>1 DEF Nothing, Copy, Data, Dated
<1>3. ASSUME NEW d, NEW p \in Plan, Copy(d)
      PROVE  Copy([d EXCEPT ![p] = Fresh]) /\ Copy([d EXCEPT ![p].out = FALSE, ![p].age = Never])
  <2>1. Copy([d EXCEPT ![p] = Fresh])
    BY <1>1, <1>3 DEF Copy, Data, Dated
  <2>2. [d[p] EXCEPT !.out = FALSE, !.age = Never] \in Datum
    <3>1. d[p] \in Datum /\ Never \in 0 .. Longest
      BY <1>3, WaitsBounded DEF Copy, Data, Never
    <3>2. \A r \in Datum : [r EXCEPT !.out = FALSE] \in Datum
      BY DEF Datum
    <3>3. \A r \in Datum : \A age \in 0 .. Longest : [r EXCEPT !.age = age] \in Datum
      BY DEF Datum
    <3>4. [d[p] EXCEPT !.out = FALSE, !.age = Never] = [[d[p] EXCEPT !.out = FALSE] EXCEPT !.age = Never]
      OBVIOUS
    <3>5. QED
      BY <3>1, <3>2, <3>3, <3>4
  <2>3. [d EXCEPT ![p].out = FALSE, ![p].age = Never]
          = [d EXCEPT ![p] = [d[p] EXCEPT !.out = FALSE, !.age = Never]]
    BY <1>3 DEF Copy, Data
  <2>4. QED
    BY <1>3, <2>1, <2>2, <2>3 DEF Copy, Data, Dated, Datum
<1>4. QED
  BY <1>1, <1>2, <1>3

\* A call that goes on stays a call.
LEMMA ToKeeps ==
  ASSUME QuotaInv, NEW c \in Caller,
         NEW pc \in {"new", "reading", "pruning", "checking", "passing", "asking", "refused", "booking", "done"},
         To(c, pc)
  PROVE  caller' \in [Caller -> CallerRecord]
BY DEF QuotaInv, To, CallerRecord

\* A save that begins has nothing of its own yet.
LEMMA SavesKeep ==
  ASSUME QuotaInv, NEW c \in Caller, NEW kind \in Kinds, Saves(c, kind) \/ UNCHANGED saves
  PROVE  /\ saves' \in [Caller \X Kinds -> [pc : {"none", "mkdir", "write"}, d : Data]]
         /\ \A s \in Caller \X Kinds : saves'[s].d = saves[s].d
<1> DEFINE R == [pc : {"none", "mkdir", "write"}, d : Data]
           n == [saves[<<c, kind>>] EXCEPT !.pc = "mkdir"]
<1>1. <<c, kind>> \in Caller \X Kinds /\ saves \in [Caller \X Kinds -> R]
  BY DEF QuotaInv
<1>2. \A b \in R : [b EXCEPT !.pc = "mkdir"] \in R /\ [b EXCEPT !.pc = "mkdir"].d = b.d
  OBVIOUS
<1>3. n \in R /\ n.d = saves[<<c, kind>>].d
  BY <1>1, <1>2
<1>4. saves' = [saves EXCEPT ![<<c, kind>>] = n] \/ saves' = saves
  BY DEF Saves
<1> HIDE DEF n, R
<1>5. saves' \in [Caller \X Kinds -> R]
  BY <1>1, <1>3, <1>4
<1>6. \A s \in Caller \X Kinds : saves'[s].d = saves[s].d
  BY <1>1, <1>3, <1>4
<1>7. QED
  BY <1>5, <1>6 DEF R

\* When neither marks nor files change, data that is a copy keeps the invariant.
LEMMA CopyKeeps ==
  ASSUME QuotaInv, UNCHANGED since, caller' \in [Caller -> CallerRecord],
         saves' \in [Caller \X Kinds -> [pc : {"none", "mkdir", "write"}, d : Data]],
         \A s \in Caller \X Kinds : Copy(saves'[s].d),
         file' \in [ok : BOOLEAN, d : Data], Copy(file'.d), Copy(data')
  PROVE  QuotaInv'
BY DEF QuotaInv, Copy, Dated

\* The judgement of a call keeps data a copy, whichever data it is made with.
LEMMA JudgeKeeps ==
  ASSUME QuotaInv, NEW c \in Caller, NEW d, Copy(d), Judge(c, d)
  PROVE  /\ Copy(data') /\ caller' \in [Caller -> CallerRecord]
         /\ saves' \in [Caller \X Kinds -> [pc : {"none", "mkdir", "write"}, d : Data]]
         /\ \A s \in Caller \X Kinds : saves'[s].d = saves[s].d
<1>1. caller[c].p \in Plan
  BY DEF QuotaInv, CallerRecord
<1>2. CASE d[caller[c].p].out /\ CanRetry(d[caller[c].p])
  <2>1. Copy(data')
    <3>1. data' = [d EXCEPT ![caller[c].p].out = FALSE, ![caller[c].p].age = Never]
      BY <1>2 DEF Judge
    <3>2. Copy([d EXCEPT ![caller[c].p].out = FALSE, ![caller[c].p].age = Never])
      BY <1>1, NothingCopies
    <3>3. QED
      BY <3>1, <3>2
  <2>2. Saves(c, "own") /\ To(c, "passing")
    BY <1>2 DEF Judge
  <2>3. QED
    BY <2>1, <2>2, ToKeeps, SavesKeep DEF Kinds
<1>3. CASE ~(d[caller[c].p].out /\ CanRetry(d[caller[c].p]))
  <2>1. Copy(data') /\ UNCHANGED saves
    BY <1>3 DEF Judge
  <2>2. To(c, "refused") \/ To(c, "asking")
    BY <1>3 DEF Judge
  <2>3. QED
    BY <2>1, <2>2, ToKeeps DEF QuotaInv
<1>4. QED
  BY <1>2, <1>3

\* One more window of time leaves the order of ages as it was.
LEMMA AgedCopies ==
  ASSUME QuotaInv, NEW d \in Data, Dated(d, since), since' = [p \in Plan |-> Later(since[p])]
  PROVE  /\ Aged(d) \in Data /\ Dated(Aged(d), since')
         /\ since' \in [Plan -> 0 .. Longest]
<1>1. \A age \in 0 .. Longest : Later(age) \in 0 .. Longest
  BY WaitsBounded DEF Later
<1>2. \A a, b \in 0 .. Longest : a <= b => Later(a) <= Later(b)
  BY WaitsBounded DEF Later
<1>3. \A p \in Plan : /\ d[p].out \in BOOLEAN /\ d[p].age \in 0 .. Longest /\ d[p].fails \in Nat
                       /\ d[p] = [out |-> d[p].out, age |-> d[p].age, fails |-> d[p].fails]
                       /\ since[p] \in 0 .. Longest
  BY DEF Data, Datum, QuotaInv
<1>4. ASSUME NEW p \in Plan
      PROVE  Aged(d)[p] \in Datum /\ Aged(d)[p].age = Later(d[p].age) /\ Aged(d)[p].out = d[p].out
  <2>1. d[p] \in Datum /\ Later(d[p].age) \in 0 .. Longest
    BY <1>1, <1>3 DEF Data
  <2>2. Aged(d)[p] = [d[p] EXCEPT !.age = Later(d[p].age)]
    BY DEF Aged
  <2>3. \A r \in Datum : \A age \in 0 .. Longest :
          /\ [r EXCEPT !.age = age] \in Datum
          /\ [r EXCEPT !.age = age].age = age /\ [r EXCEPT !.age = age].out = r.out
    BY DEF Datum
  <2>4. QED
    BY <2>1, <2>2, <2>3
<1>5. Aged(d) \in Data
  BY <1>4 DEF Data, Aged
<1>6. since' \in [Plan -> 0 .. Longest]
  BY <1>1, <1>3
<1>7. Dated(Aged(d), since')
  <2> SUFFICES ASSUME NEW p \in Plan, Aged(d)[p].out PROVE since'[p] <= Aged(d)[p].age
    BY DEF Dated
  <2>1. since[p] <= d[p].age
    BY <1>4 DEF Dated
  <2>2. Later(since[p]) <= Later(d[p].age)
    BY <2>1, <1>2, <1>3
  <2>3. QED
    BY <2>2, <1>4
<1>8. QED
  BY <1>5, <1>6, <1>7

\* At the start nothing is marked anywhere.
LEMMA QuotaInvInit == QInit => QuotaInv
<1> SUFFICES ASSUME QInit PROVE QuotaInv
  OBVIOUS
<1>1. since \in [Plan -> 0 .. Longest]
  BY WaitsBounded DEF QInit, Never
<1>2. Nothing \in Data /\ Copy(Nothing)
  BY WaitsBounded DEF Nothing, Fresh, Never, Data, Datum, Copy, Dated
<1>3. caller \in [Caller -> CallerRecord]
  BY DEF QInit, CallerRecord
<1>4. saves \in [Caller \X Kinds -> [pc : {"none", "mkdir", "write"}, d : Data]]
      /\ \A s \in Caller \X Kinds : Copy(saves[s].d)
  BY <1>2 DEF QInit, NoSave
<1>5. file \in [ok : BOOLEAN, d : Data] /\ Copy(file.d)
  BY <1>2 DEF QInit, Bad
<1>6. QED
  BY <1>1, <1>2, <1>3, <1>4, <1>5 DEF QuotaInv, QInit

\* Every step keeps every copy's marks as old as the provider's words.
LEMMA QuotaInvNext ==
  ASSUME QuotaInv, [QNext]_qvars
  PROVE  QuotaInv'
<1>1. CASE UNCHANGED qvars
  BY <1>1 DEF qvars, QuotaInv, Copy
<1>2. CASE Passes
  <2>1. /\ since' = [p \in Plan |-> Later(since[p])] /\ UNCHANGED caller
        /\ data' = Aged(data) /\ file' = [file EXCEPT !.d = Aged(file.d)]
        /\ saves' = [s \in Caller \X Kinds |-> [saves[s] EXCEPT !.d = Aged(saves[s].d)]]
    BY <1>2 DEF Passes
  <2>2. \A d : Copy(d) => Aged(d) \in Data /\ Dated(Aged(d), since')
    BY <2>1, AgedCopies DEF Copy
  <2>3. since' \in [Plan -> 0 .. Longest]
    BY <2>1, AgedCopies DEF QuotaInv, Copy
  <2>4. file' \in [ok : BOOLEAN, d : Data] /\ file'.d = Aged(file.d)
    BY <2>1, <2>2 DEF QuotaInv
  <2>5. \A s \in Caller \X Kinds : saves'[s] \in [pc : {"none", "mkdir", "write"}, d : Data]
                                   /\ saves'[s].d = Aged(saves[s].d)
    BY <2>1, <2>2 DEF QuotaInv
  <2>6. saves' \in [Caller \X Kinds -> [pc : {"none", "mkdir", "write"}, d : Data]]
    BY <2>1, <2>5
  <2>7. Copy(data) /\ Copy(file.d) /\ \A s \in Caller \X Kinds : Copy(saves[s].d)
    BY DEF QuotaInv
  <2>8. Copy(data)' /\ Copy(file.d)'
    BY <2>1, <2>2, <2>4, <2>7 DEF Copy
  <2>9. (\A s \in Caller \X Kinds : Copy(saves[s].d))'
    BY <2>2, <2>5, <2>7 DEF Copy
  <2>10. caller' \in [Caller -> CallerRecord]
    BY <2>1 DEF QuotaInv
  <2>11. QED
    BY <2>3, <2>4, <2>6, <2>8, <2>9, <2>10 DEF QuotaInv
<1>3. CASE Restart
  <2>1. Copy(Nothing) /\ Nothing \in Data
    BY NothingCopies DEF Copy
  <2>2. file' \in [ok : BOOLEAN, d : Data] /\ Copy(file'.d)
    <3>1. file' = file \/ file' = Bad
      BY <1>3 DEF Restart
    <3>2. Bad \in [ok : BOOLEAN, d : Data] /\ Bad.d = Nothing
      BY <2>1 DEF Bad
    <3>3. QED
      BY <3>1, <3>2, <2>1 DEF QuotaInv
  <2>3. saves' \in [Caller \X Kinds -> [pc : {"none", "mkdir", "write"}, d : Data]]
        /\ \A s \in Caller \X Kinds : Copy(saves'[s].d)
    BY <1>3, <2>1 DEF Restart, NoSave
  <2>4. caller' \in [Caller -> CallerRecord]
    BY <1>3 DEF Restart, QuotaInv, CallerRecord
  <2>5. UNCHANGED since /\ Copy(data')
    BY <1>3, <2>1 DEF Restart
  <2>6. QED
    BY <2>2, <2>3, <2>4, <2>5, CopyKeeps
<1>4. ASSUME NEW c \in Caller, Ask(c) PROVE QuotaInv'
  <2>1. UNCHANGED file /\ UNCHANGED since
    BY <1>4 DEF Ask
  <2>2. CASE loaded
    <3>1. Judge(c, data)
      BY <1>4, <2>2 DEF Ask
    <3>2. QED
      BY <2>1, <3>1, JudgeKeeps, CopyKeeps DEF QuotaInv
  <2>3. CASE ~loaded
    <3>1. To(c, "reading") /\ UNCHANGED data /\ UNCHANGED saves
      BY <1>4, <2>3 DEF Ask
    <3>2. caller' \in [Caller -> CallerRecord]
      BY <3>1, ToKeeps
    <3>3. QED
      BY <2>1, <3>1, <3>2, CopyKeeps DEF QuotaInv
  <2>4. QED
    BY <2>2, <2>3
<1>5. ASSUME NEW c \in Caller, Load(c) PROVE QuotaInv'
  <2>1. UNCHANGED file /\ UNCHANGED since
    BY <1>5 DEF Load
  <2>2. CASE file.ok
    <3>1. data' = file.d /\ Saves(c, "own") /\ To(c, "pruning")
      BY <1>5, <2>2 DEF Load, Read
    <3>2. caller' \in [Caller -> CallerRecord]
      BY <3>1, ToKeeps
    <3>3. saves' \in [Caller \X Kinds -> [pc : {"none", "mkdir", "write"}, d : Data]]
          /\ \A s \in Caller \X Kinds : saves'[s].d = saves[s].d
      BY <3>1, SavesKeep DEF Kinds
    <3>4. QED
      BY <2>1, <3>1, <3>2, <3>3, CopyKeeps DEF QuotaInv
  <2>3. CASE ~file.ok
    <3>1. Judge(c, Nothing)
      BY <1>5, <2>3 DEF Load
    <3>2. QED
      BY <2>1, <3>1, NothingCopies, JudgeKeeps, CopyKeeps DEF QuotaInv
  <2>4. QED
    BY <2>2, <2>3
<1>6. ASSUME NEW c \in Caller, Initialized(c) PROVE QuotaInv'
  <2>1. UNCHANGED file /\ UNCHANGED since /\ Judge(c, data)
    BY <1>6 DEF Initialized
  <2>2. QED
    BY <2>1, JudgeKeeps, CopyKeeps DEF QuotaInv
<1>7. ASSUME NEW c \in Caller, Used(c) PROVE QuotaInv'
  <2>1. /\ data' = [data EXCEPT ![caller[c].p] = Fresh] /\ UNCHANGED file /\ UNCHANGED since
        /\ Saves(c, "own") /\ To(c, "booking")
    BY <1>7 DEF Used
  <2>2. caller[c].p \in Plan
    BY DEF QuotaInv, CallerRecord
  <2>3. Copy(data')
    BY <2>1, <2>2, NothingCopies DEF QuotaInv
  <2>4. caller' \in [Caller -> CallerRecord]
    BY <2>1, ToKeeps
  <2>5. saves' \in [Caller \X Kinds -> [pc : {"none", "mkdir", "write"}, d : Data]]
        /\ \A s \in Caller \X Kinds : saves'[s].d = saves[s].d
    BY <2>1, SavesKeep DEF Kinds
  <2>6. QED
    BY <2>1, <2>3, <2>4, <2>5, CopyKeeps DEF QuotaInv
<1>8. ASSUME NEW c \in Caller, Mark(c) PROVE QuotaInv'
  <2> DEFINE p == caller[c].p
             n == IF data[p].fails > Len(Backoff) THEN data[p].fails ELSE data[p].fails + 1
             m == [out |-> TRUE, age |-> 0, fails |-> n]
  <2>1. /\ data' = [data EXCEPT ![p] = m] /\ since' = [since EXCEPT ![p] = 0]
        /\ UNCHANGED file /\ Saves(c, "mark") /\ To(c, "done")
    BY <1>8 DEF Mark
  <2>2. p \in Plan
    BY DEF QuotaInv, CallerRecord
  <2>3. data[p].fails \in Nat
    BY <2>2 DEF QuotaInv, Copy, Data, Datum
  <2>4. m \in Datum
    BY <2>3, WaitsBounded DEF Datum
  <2>5. since' \in [Plan -> 0 .. Longest] /\ \A q \in Plan : since'[q] <= since[q]
    BY <2>1, <2>2, WaitsBounded DEF QuotaInv
  <2>6. \A d : Copy(d) => d \in Data /\ Dated(d, since')
    <3> SUFFICES ASSUME NEW d, Copy(d), NEW q \in Plan, d[q].out
                 PROVE  since'[q] <= d[q].age
      BY DEF Copy, Dated
    <3>1. since[q] <= d[q].age /\ d[q].age \in 0 .. Longest
      BY DEF Copy, Dated, Data, Datum
    <3>2. since[q] \in 0 .. Longest /\ since'[q] \in 0 .. Longest
      BY <2>5 DEF QuotaInv
    <3>3. QED
      BY <2>5, <3>1, <3>2, WaitsBounded
  <2>7. data' \in Data /\ Dated(data', since')
    <3>1. data \in Data /\ Dated(data, since')
      BY <2>6 DEF QuotaInv
    <3>2. data' \in Data
      BY <2>1, <2>2, <2>4, <3>1 DEF Data
    <3>3. since'[p] = 0 /\ data'[p].age = 0
      BY <2>1, <2>2, <3>1 DEF Data, QuotaInv
    <3>4. \A q \in Plan : q # p => data'[q] = data[q]
      BY <2>1, <2>2, <3>1 DEF Data
    <3>5. QED
      BY <3>1, <3>2, <3>3, <3>4 DEF Dated
  <2>8. caller' \in [Caller -> CallerRecord]
    BY <2>1, ToKeeps
  <2>9. saves' \in [Caller \X Kinds -> [pc : {"none", "mkdir", "write"}, d : Data]]
        /\ \A s \in Caller \X Kinds : saves'[s].d = saves[s].d
    BY <2>1, SavesKeep DEF Kinds
  <2> HIDE DEF p, n, m
  <2>10. QED
    BY <2>1, <2>5, <2>6, <2>7, <2>8, <2>9 DEF QuotaInv, Copy
<1>9. ASSUME NEW c \in Caller, Passed(c) \/ Anew(c) PROVE QuotaInv'
  <2>1. UNCHANGED data /\ UNCHANGED file /\ UNCHANGED saves /\ UNCHANGED since
    BY <1>9 DEF Passed, Anew
  <2>2. caller' \in [Caller -> CallerRecord]
    <3>1. CASE Passed(c)
      BY <3>1, ToKeeps DEF Passed
    <3>2. CASE Anew(c)
      BY <3>2 DEF Anew, QuotaInv, CallerRecord
    <3>3. QED
      BY <1>9, <3>1, <3>2
  <2>3. QED
    BY <2>1, <2>2, CopyKeeps DEF QuotaInv
<1>10. ASSUME NEW c \in Caller, NEW kind \in Kinds, Write(<<c, kind>>) PROVE QuotaInv'
  <2>1. /\ saves' = [saves EXCEPT ![<<c, kind>>] = [pc |-> "write", d |-> data]]
        /\ UNCHANGED data /\ UNCHANGED file /\ UNCHANGED caller /\ UNCHANGED since
    BY <1>10 DEF Write
  <2>2. saves' \in [Caller \X Kinds -> [pc : {"none", "mkdir", "write"}, d : Data]]
    BY <2>1 DEF QuotaInv, Copy
  <2>3. \A s \in Caller \X Kinds : saves'[s].d \in {data, saves[s].d}
    BY <2>1 DEF QuotaInv
  <2>4. \A s \in Caller \X Kinds : Copy(saves'[s].d)
    BY <2>3 DEF QuotaInv
  <2>5. QED
    BY <2>1, <2>2, <2>4, CopyKeeps DEF QuotaInv
<1>11. ASSUME NEW c \in Caller, NEW kind \in Kinds, Saved(c, kind) PROVE QuotaInv'
  <2>1. /\ file' \in {[ok |-> TRUE, d |-> saves[<<c, kind>>].d], file, Bad}
        /\ saves' = [saves EXCEPT ![<<c, kind>>] = NoSave]
        /\ UNCHANGED data /\ UNCHANGED since
    BY <1>11 DEF Saved
  <2>2. Copy(Nothing) /\ Nothing \in Data
    BY NothingCopies DEF Copy
  <2>3. file' \in [ok : BOOLEAN, d : Data] /\ Copy(file'.d)
    <3> DEFINE w == [ok |-> TRUE, d |-> saves[<<c, kind>>].d]
    <3>1. saves[<<c, kind>>].d \in Data /\ Copy(saves[<<c, kind>>].d)
      BY DEF QuotaInv
    <3>2. w \in [ok : BOOLEAN, d : Data] /\ w.d = saves[<<c, kind>>].d
      BY <3>1
    <3>3. Bad \in [ok : BOOLEAN, d : Data] /\ Bad.d = Nothing
      BY <2>2 DEF Bad
    <3>4. file' \in {w, file, Bad}
      BY <2>1
    <3> HIDE DEF w
    <3>5. QED
      BY <3>1, <3>2, <3>3, <3>4, <2>2 DEF QuotaInv
  <2>4. saves' \in [Caller \X Kinds -> [pc : {"none", "mkdir", "write"}, d : Data]]
    BY <2>1, <2>2 DEF QuotaInv, NoSave
  <2>5. \A s \in Caller \X Kinds : saves'[s].d \in {Nothing, saves[s].d}
    BY <2>1 DEF QuotaInv, NoSave
  <2>6. \A s \in Caller \X Kinds : Copy(saves'[s].d)
    BY <2>2, <2>5 DEF QuotaInv
  <2>7. caller' \in [Caller -> CallerRecord]
    <3>1. CASE kind = "mark"
      BY <1>11, <3>1 DEF Saved, QuotaInv
    <3>2. CASE kind # "mark"
      <4>1. To(c, "checking") \/ To(c, "asking") \/ To(c, "done")
        BY <1>11, <3>2 DEF Saved
      <4>2. QED
        BY <4>1, ToKeeps
    <3>3. QED
      BY <3>1, <3>2
  <2>8. QED
    BY <2>1, <2>3, <2>4, <2>6, <2>7, CopyKeeps DEF QuotaInv
<1>12. QED
  BY <1>1, <1>2, <1>3, <1>4, <1>5, <1>6, <1>7, <1>8, <1>9, <1>10, <1>11 DEF QNext

\* Whichever load or save comes last and whatever a crash leaves, a provider is refused
\* only within the longest wait after it last said that its quota is gone.
THEOREM QuotaComesBack == QSpec => []RefusedForReason
<1>1. QuotaInv => RefusedForReason
  <2> SUFFICES ASSUME QuotaInv, NEW p \in Plan, Refuses(data[p])
               PROVE  since[p] < Longest
    BY DEF RefusedForReason
  <2>1. /\ since[p] \in 0 .. Longest /\ data[p].age \in 0 .. Longest
        /\ data[p].out /\ since[p] <= data[p].age
    BY DEF QuotaInv, Copy, Dated, Data, Datum, Refuses
  <2>2. data[p].age < Longest
    BY <2>1, WaitsBounded DEF Refuses, CanRetry
  <2>3. QED
    BY <2>1, <2>2, WaitsBounded
<1>2. QuotaInv /\ [QNext]_qvars => QuotaInv'
  BY QuotaInvNext
<1>3. QED
  BY <1>1, <1>2, QuotaInvInit, PTL DEF QSpec

-----------------------------------------------------------------------------
(* The start.                                                              *)

Phase == {"new", "loading", "detecting", "filling", "ready"}

RTypes ==
  /\ started \in BOOLEAN /\ registry \in Starter \cup {NoStarter}
  /\ registered \in [Starter -> SUBSET Vendor] /\ left \in [Starter -> SUBSET Vendor]
  /\ starter \in [Starter -> [pc : Phase, todo : SUBSET Vendor]]

\* Each provider of a registry that is filled is waited for, in it, or left out of it.
Split(s) ==
  /\ starter[s].pc # "filling" => starter[s].todo = {}
  /\ starter[s].pc \in {"new", "loading", "detecting"} => registered[s] = {}
  /\ starter[s].pc = "filling" =>
       /\ registered[s] \cup left[s] \cup starter[s].todo = Vendor
       /\ registered[s] \cap left[s] = {} /\ starter[s].todo \cap (registered[s] \cup left[s]) = {}

\* The call that made the registry in use has put it there, and has filled it once it is
\* ready.
InUse ==
  /\ started => registry # NoStarter
  /\ \A s \in Starter : starter[s].pc \in Unfilled => registry # NoStarter
  /\ registry # NoStarter =>
       /\ starter[registry].pc \in Unfilled \cup {"ready"}
       /\ starter[registry].pc = "ready" => registered[registry] = Vendor \ left[registry]

RInv == RTypes /\ (\A s \in Starter : Split(s)) /\ InUse

\* One call of the start changes: its own part of the split, and of the registry if it is
\* the one in use.
LEMMA OneStarter ==
  ASSUME RInv, NEW s \in Starter, NEW x \in [pc : Phase, todo : SUBSET Vendor],
         NEW g \in SUBSET Vendor, NEW l \in SUBSET Vendor,
         starter' = [starter EXCEPT ![s] = x],
         registered' = [registered EXCEPT ![s] = g], left' = [left EXCEPT ![s] = l],
         registry' = registry, started' \in BOOLEAN, started' => started \/ starter[s].pc \in Unfilled,
         x.pc \in Unfilled => starter[s].pc \in Unfilled,
         starter[s].pc \in Unfilled => x.pc \in Unfilled \cup {"ready"},
         starter[s].pc # "ready", Split(s)',
         x.pc = "ready" /\ starter[s].pc \in Unfilled => g = Vendor \ l
  PROVE  RInv'
<1>1. /\ \A r \in Starter \ {s} : starter'[r] = starter[r] /\ registered'[r] = registered[r] /\ left'[r] = left[r]
      /\ starter'[s] = x /\ registered'[s] = g /\ left'[s] = l
  BY DEF RInv, RTypes
<1>2. RTypes'
  BY DEF RInv, RTypes
<1>3. \A r \in Starter : Split(r)'
  <2>1. ASSUME NEW r \in Starter \ {s} PROVE Split(r)'
    BY <1>1, <2>1 DEF RInv, Split
  <2>2. QED
    BY <2>1
<1>4. InUse'
  <2>1. (started => registry # NoStarter)'
    BY DEF RInv, InUse
  <2>2. (\A r \in Starter : starter[r].pc \in Unfilled => registry # NoStarter)'
    BY <1>1 DEF RInv, InUse, Unfilled
  <2>3. ASSUME registry # NoStarter
        PROVE  (/\ starter[registry].pc \in Unfilled \cup {"ready"}
                /\ starter[registry].pc = "ready" => registered[registry] = Vendor \ left[registry])'
    <3>1. registry \in Starter /\ starter[registry].pc \in Unfilled \cup {"ready"}
      BY <2>3 DEF RInv, RTypes, InUse
    <3>2. CASE registry = s
      BY <1>1, <3>1, <3>2 DEF Unfilled
    <3>3. CASE registry # s
      BY <1>1, <2>3, <3>1, <3>3 DEF RInv, InUse, Unfilled
    <3>4. QED
      BY <3>2, <3>3
  <2>4. QED
    BY <2>1, <2>2, <2>3 DEF InUse
<1>5. QED
  BY <1>2, <1>3, <1>4 DEF RInv

\* At first there is no registry but the constructor's.
LEMMA RInvInit == RInit => RInv
<1> SUFFICES ASSUME RInit PROVE RInv
  OBVIOUS
<1>1. \A s \in Starter : starter[s] = [pc |-> "new", todo |-> {}] /\ registered[s] = {}
  BY DEF RInit
<1>2. RTypes
  BY DEF RInit, RTypes, Phase
<1>3. InUse
  BY <1>1 DEF RInit, InUse, Unfilled
<1>4. QED
  BY <1>1, <1>2, <1>3 DEF RInv, Split

\* Every step keeps the split, and the registry in use that of a call under way or ready.
LEMMA RInvNext == RInv /\ [RNext]_rvars => RInv'
<1> SUFFICES ASSUME RInv, [RNext]_rvars PROVE RInv'
  OBVIOUS
<1>0. ASSUME NEW s \in Starter
      PROVE  /\ starter[s] \in [pc : Phase, todo : SUBSET Vendor] /\ Split(s)
             /\ registered[s] \subseteq Vendor /\ left[s] \subseteq Vendor
             /\ registered = [registered EXCEPT ![s] = registered[s]]
             /\ left = [left EXCEPT ![s] = left[s]]
             /\ starter \in [Starter -> [pc : Phase, todo : SUBSET Vendor]]
             /\ registered \in [Starter -> SUBSET Vendor] /\ left \in [Starter -> SUBSET Vendor]
  BY DEF RInv, RTypes
<1>1. ASSUME NEW s \in Starter, Begin(s) PROVE RInv'
  <2> DEFINE x == [starter[s] EXCEPT !.pc = IF started THEN "ready" ELSE "loading"]
  <2>1. x \in [pc : Phase, todo : SUBSET Vendor] /\ x.pc \in {"ready", "loading"}
        /\ x.todo = starter[s].todo
    BY <1>0 DEF Phase
  <2>2. starter' = [starter EXCEPT ![s] = x] /\ starter[s].pc = "new"
        /\ UNCHANGED <<started, registry, registered, left>>
    BY <1>1 DEF Begin
  <2> HIDE DEF x
  <2>3. Split(s)'
    BY <1>0, <2>1, <2>2 DEF Split
  <2>4. started \in BOOLEAN
    BY DEF RInv, RTypes
  <2>5. registered' = [registered EXCEPT ![s] = registered[s]] /\ left' = [left EXCEPT ![s] = left[s]]
    BY <1>0, <2>2
  <2>6. /\ starter[s].pc \notin Unfilled /\ x.pc \notin Unfilled /\ starter[s].pc # "ready"
        /\ registered[s] \in SUBSET Vendor /\ left[s] \in SUBSET Vendor
        /\ registry' = registry /\ started' = started
    BY <1>0, <2>1, <2>2 DEF Unfilled
  <2>7. x \in [pc : Phase, todo : SUBSET Vendor] /\ starter' = [starter EXCEPT ![s] = x]
    BY <2>1, <2>2
  <2>8. QED
    BY <2>3, <2>4, <2>5, <2>6, <2>7, OneStarter
<1>2. ASSUME NEW s \in Starter, Replace(s) PROVE RInv'
  <2> DEFINE x == [starter[s] EXCEPT !.pc = "detecting"]
  <2>1. x \in [pc : Phase, todo : SUBSET Vendor] /\ x.pc = "detecting" /\ x.todo = starter[s].todo
    BY <1>0 DEF Phase
  <2>2. starter' = [starter EXCEPT ![s] = x] /\ starter[s].pc = "loading" /\ registry' = s
        /\ UNCHANGED <<started, registered, left>>
    BY <1>2 DEF Replace
  <2> HIDE DEF x
  <2>3. starter'[s] = x /\ \A r \in Starter \ {s} : starter'[r] = starter[r]
    BY <1>0, <2>2
  <2>4. RTypes'
    BY <2>1, <2>2 DEF RInv, RTypes
  <2>5. \A r \in Starter : Split(r)'
    <3>1. Split(s)'
      BY <1>0, <2>1, <2>2, <2>3 DEF Split
    <3>2. ASSUME NEW r \in Starter \ {s} PROVE Split(r)'
      BY <2>2, <2>3 DEF RInv, Split
    <3>3. QED
      BY <3>1, <3>2
  <2>6. InUse'
    BY <2>1, <2>2, <2>3, RegistryAssumption DEF InUse, Unfilled
  <2>7. QED
    BY <2>4, <2>5, <2>6 DEF RInv
<1>3. ASSUME NEW s \in Starter, Detect(s) PROVE RInv'
  <2>1. PICK m : mode' = m
    OBVIOUS
  <2> DEFINE x == [pc |-> "filling", todo |-> Fills(s, m)]
             l == IF m = "corporate" THEN Blocked ELSE {}
  <2>2. /\ starter' = [starter EXCEPT ![s] = x] /\ left' = [left EXCEPT ![s] = l]
        /\ starter[s].pc = "detecting" /\ UNCHANGED <<started, registry, registered>>
    BY <1>3, <2>1 DEF Detect
  <2>3. l \subseteq Vendor /\ Fills(s, m) = Vendor \ l
    BY RegistryAssumption DEF Fills
  <2>4. x \in [pc : Phase, todo : SUBSET Vendor] /\ x.pc = "filling" /\ x.todo = Vendor \ l
    BY <2>3 DEF Phase
  <2> HIDE DEF x, l
  <2>5. starter'[s] = x /\ left'[s] = l /\ registered'[s] = {}
    BY <1>0, <2>2 DEF Split
  <2>6. Split(s)'
    BY <2>3, <2>4, <2>5 DEF Split
  <2>7. started \in BOOLEAN
    BY DEF RInv, RTypes
  <2>8. registered' = [registered EXCEPT ![s] = registered[s]]
    BY <1>0, <2>2
  <2>9. QED
    BY <1>0, <2>2, <2>3, <2>4, <2>6, <2>7, <2>8, OneStarter DEF Unfilled
<1>4. ASSUME NEW s \in Starter, NEW v \in Vendor, Up(s, v) \/ Down(s, v) PROVE RInv'
  <2> DEFINE x == [starter[s] EXCEPT !.todo = @ \ {v}]
  <2>1. PICK g \in SUBSET Vendor, l \in SUBSET Vendor :
          /\ registered' = [registered EXCEPT ![s] = g] /\ left' = [left EXCEPT ![s] = l]
          /\ \/ g = registered[s] \cup {v} /\ l = left[s]
             \/ g = registered[s] /\ l = left[s] \cup {v}
    <3>1. CASE Up(s, v)
      <4>1. registered' = [registered EXCEPT ![s] = registered[s] \cup {v}] /\ left' = [left EXCEPT ![s] = left[s]]
        BY <1>0, <3>1 DEF Up
      <4>2. QED
        BY <1>0, <4>1
    <3>2. CASE Down(s, v)
      <4>1. left' = [left EXCEPT ![s] = left[s] \cup {v}] /\ registered' = [registered EXCEPT ![s] = registered[s]]
        BY <1>0, <3>2 DEF Down
      <4>2. QED
        BY <1>0, <4>1
    <3>3. QED
      BY <1>4, <3>1, <3>2
  <2>2. /\ starter' = [starter EXCEPT ![s] = x] /\ v \in starter[s].todo
        /\ UNCHANGED <<started, registry>>
    BY <1>4 DEF Up, Down, GivenUp
  <2>3. x \in [pc : Phase, todo : SUBSET Vendor] /\ x.pc = starter[s].pc /\ x.todo = starter[s].todo \ {v}
    BY <1>0
  <2>4. starter[s].pc = "filling"
    BY <1>0, <2>2 DEF Split
  <2> HIDE DEF x
  <2>5. starter'[s] = x /\ registered'[s] = g /\ left'[s] = l
    BY <1>0, <2>1, <2>2
  <2>6. Split(s)'
    BY <1>0, <2>1, <2>2, <2>3, <2>4, <2>5 DEF Split
  <2>7. started \in BOOLEAN
    BY DEF RInv, RTypes
  <2>8. QED
    BY <2>1, <2>2, <2>3, <2>4, <2>6, <2>7, OneStarter DEF Unfilled
<1>5. ASSUME NEW s \in Starter, Done(s) PROVE RInv'
  <2> DEFINE x == [starter[s] EXCEPT !.pc = "ready"]
  <2>1. x \in [pc : Phase, todo : SUBSET Vendor] /\ x.pc = "ready" /\ x.todo = starter[s].todo
    BY <1>0 DEF Phase
  <2>2. /\ starter' = [starter EXCEPT ![s] = x] /\ starter[s].pc = "filling" /\ starter[s].todo = {}
        /\ started' = TRUE /\ UNCHANGED <<registry, registered, left>>
    BY <1>5 DEF Done
  <2> HIDE DEF x
  <2>3. registered[s] = Vendor \ left[s]
    BY <1>0, <2>2 DEF Split
  <2>4. starter'[s] = x
    BY <1>0, <2>2
  <2>5. Split(s)'
    BY <2>1, <2>2, <2>4 DEF Split
  <2>6. registered' = [registered EXCEPT ![s] = registered[s]] /\ left' = [left EXCEPT ![s] = left[s]]
    BY <1>0, <2>2
  <2>7. QED
    BY <1>0, <2>1, <2>2, <2>3, <2>5, <2>6, OneStarter DEF Unfilled
<1>6. ASSUME UNCHANGED <<started, registry, registered, left, starter>> PROVE RInv'
  BY <1>6 DEF RInv, RTypes, Split, InUse
<1>7. QED
  BY <1>1, <1>2, <1>3, <1>4, <1>5, <1>6 DEF RNext, Outdated, rvars

\* However many calls start the service and however each of their providers comes up: the
\* registry that is left in use is one that its own maker has filled (llm-service.ts,
\* initialize; provider-registry.ts, initializeAll).
THEOREM StartsLeaveWhole == RSpec => []RegistryWhole
<1>1. RInv => RegistryWhole
  BY DEF RInv, RTypes, InUse, RegistryWhole
<1>2. QED
  BY <1>1, RInvInit, RInvNext, PTL DEF RSpec
=============================================================================
