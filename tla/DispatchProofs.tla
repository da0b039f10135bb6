--------------------------- MODULE DispatchProofs ---------------------------
(***************************************************************************)
(* Proofs about Dispatch: its inductive invariant (types, positions in the *)
(* chain, exact in-flight counts, the order of the walk), that a           *)
(* foreground call is sent only into a free slot of the offload target,    *)
(* that no provider of the chain is left out, and that each call is a walk *)
(* that ChainWalk allows.                                                  *)
(***************************************************************************)
EXTENDS Dispatch, FiniteSetTheorems, TLAPS

Call == [pc : {"new", "classifying", "asking", "pausing"} \cup Settled, open : Nat,
         seen : Record, off : BOOLEAN, hops : SUBSET Nat, i : Nat, used : Nat,
         tried : SUBSET Provider, gone : BOOLEAN, err : FailureClass \cup {"none"}]

Way(r, off) == IF off THEN OffloadChain[r] ELSE Chain[r]

\* What the invariant says of one call.
Sound(r, c) ==
  /\ c \in Call
  /\ c.hops \subseteq DOMAIN Way(r, c.off)
  /\ c.pc \in {"asking", "pausing"} =>
       /\ c.i \in c.hops
       /\ \A j \in c.hops : j < c.i => Way(r, c.off)[j] \in c.tried

On(r, c, p) == c.pc = "asking" /\ Way(r, c.off)[c.i] = p

\* The invariant, call by call.
LEMMA CallByCall ==
  IInv <=> /\ call \in [Request -> Call]
           /\ \A r \in Request : Sound(r, call[r])
           /\ inFlight \in [Provider -> Nat]
           /\ available \subseteq Provider
           /\ session \in [Session -> Record]
           /\ lowered \subseteq Session \X Nat
           /\ CountsMatch
BY DEF IInv, TypeOK, OnChain, WalkedInOrder, Path, Way, Sound, Call

\* Either way of a call is a sequence of providers.
LEMMA ChainsOfProviders ==
  ASSUME NEW r \in Request, NEW off \in BOOLEAN
  PROVE  /\ Way(r, off) \in Seq(Provider)
         /\ DOMAIN Way(r, off) \subseteq Nat
         /\ \A j \in DOMAIN Way(r, off) : Way(r, off)[j] \in Provider
BY DispatchAssumption DEF Way

\* A call record made by one of the constructors is sound if it asks nobody, ...
LEMMA SoundAt ==
  ASSUME NEW r \in Request, NEW pc \in {"new", "classifying"}, NEW open \in Nat, NEW seen \in Record
  PROVE  /\ Sound(r, At(pc, open, seen, FALSE, "none"))
         /\ At(pc, open, seen, FALSE, "none").pc = pc
         /\ \A p : ~On(r, At(pc, open, seen, FALSE, "none"), p)
<1>1. At(pc, open, seen, FALSE, "none") \in Call
  BY DEF At, Call, Settled
<1>2. QED
  BY <1>1 DEF At, Sound, On, Settled

\* ... or if it is over, ...
LEMMA SoundEnded ==
  ASSUME NEW r \in Request, NEW pc \in Settled, NEW err \in FailureClass \cup {"none"}
  PROVE  /\ Sound(r, Ended(pc, err))
         /\ Ended(pc, err).pc = pc /\ Ended(pc, err).err = err
         /\ \A p : ~On(r, Ended(pc, err), p)
<1>1. Ended(pc, err) \in Call
  BY DEF Ended, At, Call, Settled, NoRecord, Record
<1>2. QED
  BY <1>1 DEF Ended, At, Sound, On, Settled

\* ... or the first of the positions it walks.
LEMMA SoundAsking ==
  ASSUME NEW r \in Request, NEW off \in BOOLEAN,
         NEW hops \in SUBSET DOMAIN Way(r, off), NEW i \in Nearest(hops), NEW gone \in BOOLEAN
  PROVE  /\ Sound(r, Asking(off, hops, i, gone))
         /\ Way(r, off)[i] \in Provider
         /\ Asking(off, hops, i, gone).pc = "asking"
         /\ Asking(off, hops, i, gone).off = off
         /\ Asking(off, hops, i, gone).i = i
<1>1. i \in hops /\ hops \subseteq Nat /\ \A k \in hops : i <= k
  BY ChainsOfProviders DEF Nearest
<1>2. NoRecord \in Record
  BY DEF NoRecord, Record
<1>3. Asking(off, hops, i, gone) \in Call
  BY <1>1, <1>2 DEF Asking, Call
<1>4. QED
  BY <1>1, <1>3, ChainsOfProviders DEF Asking, Sound

-----------------------------------------------------------------------------
(* Counting.                                                               *)

\* Sets of calls are finite.
LEMMA Finite ==
  ASSUME NEW S \in SUBSET Request
  PROVE  IsFiniteSet(S) /\ Cardinality(S) \in Nat
BY DispatchAssumption, FS_Subset, FS_CardinalityType

OpenCalls(f, p) == {r \in Request : On(r, f[r], p)}

\* The calls open on a provider, read off the call records.
LEMMA OpenCallsAreOpen ==
  ASSUME NEW p
  PROVE  OpenOn(p) = OpenCalls(call, p) /\ OpenOn(p)' = OpenCalls(call', p)
BY DEF OpenOn, OpenCalls, On, Asked, Path, Way

\* One call changes: it may leave the provider it was on and enter another.
LEMMA Recount ==
  ASSUME NEW f, NEW g, NEW r \in Request, NEW p,
         \A q \in Request \ {r} : g[q] = f[q]
  PROVE  /\ Cardinality(OpenCalls(f, p)) \in Nat /\ Cardinality(OpenCalls(g, p)) \in Nat
         /\ r \in OpenCalls(f, p) /\ r \in OpenCalls(g, p) =>
              Cardinality(OpenCalls(g, p)) = Cardinality(OpenCalls(f, p))
         /\ r \in OpenCalls(f, p) /\ r \notin OpenCalls(g, p) =>
              Cardinality(OpenCalls(g, p)) = Cardinality(OpenCalls(f, p)) - 1
         /\ r \notin OpenCalls(f, p) /\ r \in OpenCalls(g, p) =>
              Cardinality(OpenCalls(g, p)) = Cardinality(OpenCalls(f, p)) + 1
         /\ r \notin OpenCalls(f, p) /\ r \notin OpenCalls(g, p) =>
              Cardinality(OpenCalls(g, p)) = Cardinality(OpenCalls(f, p))
<1> DEFINE rest == OpenCalls(f, p) \ {r}
<1>1. rest \in SUBSET Request /\ OpenCalls(f, p) \in SUBSET Request
      /\ OpenCalls(g, p) \in SUBSET Request
  BY DEF OpenCalls
<1>2. IsFiniteSet(rest) /\ IsFiniteSet(OpenCalls(f, p)) /\ IsFiniteSet(OpenCalls(g, p))
      /\ Cardinality(rest) \in Nat /\ Cardinality(OpenCalls(f, p)) \in Nat
      /\ Cardinality(OpenCalls(g, p)) \in Nat
  BY <1>1, Finite
<1>3. Cardinality(rest) =
        IF r \in OpenCalls(f, p) THEN Cardinality(OpenCalls(f, p)) - 1
                                 ELSE Cardinality(OpenCalls(f, p))
  BY <1>2, FS_RemoveElement
<1>4. OpenCalls(g, p) = IF r \in OpenCalls(g, p) THEN rest \cup {r} ELSE rest
  BY DEF OpenCalls
<1>5. Cardinality(rest \cup {r}) = Cardinality(rest) + 1
  BY <1>2, FS_AddElement
<1>6. /\ r \in OpenCalls(f, p) => Cardinality(rest) = Cardinality(OpenCalls(f, p)) - 1
      /\ r \notin OpenCalls(f, p) => Cardinality(rest) = Cardinality(OpenCalls(f, p))
      /\ r \in OpenCalls(g, p) => Cardinality(OpenCalls(g, p)) = Cardinality(rest) + 1
      /\ r \notin OpenCalls(g, p) => Cardinality(OpenCalls(g, p)) = Cardinality(rest)
  BY <1>3, <1>4, <1>5
<1> HIDE DEF rest
<1>7. QED
  BY <1>2, <1>6

\* The counts a call's change leaves.
Shifted(r, c) ==
  [p \in Provider |-> inFlight[p] - (IF On(r, call[r], p) THEN 1 ELSE 0)
                                  + (IF On(r, c, p) THEN 1 ELSE 0)]

\* A step that changes one call, and the counts by as much as that call moves.
LEMMA OneCall ==
  ASSUME IInv, NEW r \in Request, NEW c, Set(r, c), Sound(r, c),
         inFlight' = Shifted(r, c),
         available' \subseteq Provider, session' \in [Session -> Record],
         lowered' \subseteq Session \X Nat
  PROVE  IInv'
<1>1. call \in [Request -> Call] /\ (\A q \in Request : Sound(q, call[q])) /\ CountsMatch
  BY CallByCall
<1>2. call' = [call EXCEPT ![r] = c] /\ c \in Call
  BY DEF Set, Sound
<1>3. call' \in [Request -> Call] /\ \A q \in Request : Sound(q, call'[q])
  BY <1>1, <1>2
<1>4. \A p \in Provider :
       inFlight'[p] = Cardinality(OpenCalls(call, p)) - (IF On(r, call[r], p) THEN 1 ELSE 0)
                                                         + (IF On(r, c, p) THEN 1 ELSE 0)
  <2>1. \A p \in Provider : inFlight[p] = Cardinality(OpenCalls(call, p))
    BY <1>1, OpenCallsAreOpen DEF CountsMatch
  <2>2. QED
    BY <2>1 DEF Shifted
<1>5. \A p \in Provider : inFlight'[p] = Cardinality(OpenCalls(call', p))
                          /\ Cardinality(OpenCalls(call', p)) \in Nat
  <2>1. SUFFICES ASSUME NEW p \in Provider
                 PROVE  inFlight'[p] = Cardinality(OpenCalls(call', p))
                        /\ Cardinality(OpenCalls(call', p)) \in Nat
    OBVIOUS
  <2> DEFINE was == OpenCalls(call, p)
             is == OpenCalls(call', p)
  <2>2. \A q \in Request \ {r} : call'[q] = call[q]
    BY <1>1, <1>2
  <2>3. /\ r \in was <=> On(r, call[r], p)
        /\ r \in is <=> On(r, c, p)
    BY <1>1, <1>2 DEF OpenCalls
  <2>4. /\ Cardinality(was) \in Nat /\ Cardinality(is) \in Nat
        /\ r \in was /\ r \in is => Cardinality(is) = Cardinality(was)
        /\ r \in was /\ r \notin is => Cardinality(is) = Cardinality(was) - 1
        /\ r \notin was /\ r \in is => Cardinality(is) = Cardinality(was) + 1
        /\ r \notin was /\ r \notin is => Cardinality(is) = Cardinality(was)
    BY <2>2, Recount
  <2>5. inFlight'[p] = Cardinality(was) - (IF On(r, call[r], p) THEN 1 ELSE 0)
                                       + (IF On(r, c, p) THEN 1 ELSE 0)
    BY <1>4
  <2> HIDE DEF was, is
  <2>6. inFlight'[p] = Cardinality(is) /\ Cardinality(is) \in Nat
    BY <2>3, <2>4, <2>5
  <2>7. QED
    BY <2>6 DEF is
<1>6. CountsMatch' /\ inFlight' \in [Provider -> Nat]
  <2>1. inFlight' = [p \in Provider |-> inFlight'[p]]
    BY DEF Shifted
  <2>2. inFlight' \in [Provider -> Nat]
    BY <1>5, <2>1
  <2>3. \A p \in Provider : inFlight'[p] = Cardinality(OpenOn(p)')
    BY <1>5, OpenCallsAreOpen
  <2>4. QED
    BY <2>2, <2>3 DEF CountsMatch
<1>7. QED
  BY <1>3, <1>6, CallByCall DEF IInv, TypeOK, OnChain, WalkedInOrder, Path, Way, Sound, Call

\* The forms the counts take: the call stays, enters, leaves or moves on.
LEMMA Stays ==
  ASSUME IInv, NEW r \in Request, NEW c, \A p : On(r, c, p) <=> On(r, call[r], p)
  PROVE  inFlight = Shifted(r, c)
<1>1. inFlight \in [Provider -> Nat]
  BY CallByCall
<1>2. QED
  BY <1>1 DEF Shifted

\* What opening and closing an attempt do to the counts.
LEMMA Tallies ==
  ASSUME NEW f \in [Provider -> Int], NEW p
  PROVE  /\ Opened(f, p) = [q \in Provider |-> f[q] + (IF q = p THEN 1 ELSE 0)]
         /\ Closed(f, p) = [q \in Provider |-> f[q] - (IF q = p THEN 1 ELSE 0)]
         /\ Opened(f, p) \in [Provider -> Int] /\ Closed(f, p) \in [Provider -> Int]
<1>1. Opened(f, p) \in [Provider -> Int] /\ Closed(f, p) \in [Provider -> Int]
  <2>1. CASE p \in Provider
    <3>1. f[p] + 1 \in Int /\ f[p] - 1 \in Int
      BY <2>1
    <3>2. QED
      BY <2>1, <3>1 DEF Opened, Closed
  <2>2. CASE p \notin Provider
    BY <2>2 DEF Opened, Closed
  <2>3. QED
    BY <2>1, <2>2
<1>2. \A q \in Provider : /\ Opened(f, p)[q] = f[q] + (IF q = p THEN 1 ELSE 0)
                          /\ Closed(f, p)[q] = f[q] - (IF q = p THEN 1 ELSE 0)
  BY DEF Opened, Closed
<1>3. QED
  BY <1>1, <1>2

\* A call that begins to ask adds one to the provider it asks.
LEMMA Enters ==
  ASSUME IInv, NEW r \in Request, NEW c, call[r].pc # "asking", c.pc = "asking",
         NEW to, to = Way(r, c.off)[c.i]
  PROVE  Opened(inFlight, to) = Shifted(r, c)
<1>1. inFlight \in [Provider -> Nat] /\ inFlight \in [Provider -> Int]
  BY CallByCall
<1>2. \A p : ~On(r, call[r], p) /\ (On(r, c, p) <=> p = to)
  BY DEF On
<1>3. Opened(inFlight, to) = [q \in Provider |-> inFlight[q] + (IF q = to THEN 1 ELSE 0)]
  BY <1>1, Tallies
<1>4. QED
  BY <1>1, <1>2, <1>3 DEF Shifted

\* One that stops asking takes one from the provider it asked.
LEMMA Leaves ==
  ASSUME IInv, NEW r \in Request, NEW c, call[r].pc = "asking", c.pc # "asking",
         NEW from, from = Asked(r)
  PROVE  Closed(inFlight, from) = Shifted(r, c)
<1>1. inFlight \in [Provider -> Nat] /\ inFlight \in [Provider -> Int]
  BY CallByCall
<1>2. \A p : ~On(r, c, p) /\ (On(r, call[r], p) <=> p = from)
  BY DEF On, Asked, Path, Way
<1>3. Closed(inFlight, from) = [q \in Provider |-> inFlight[q] - (IF q = from THEN 1 ELSE 0)]
  BY <1>1, Tallies
<1>4. QED
  BY <1>1, <1>2, <1>3 DEF Shifted

\* One that asks the next provider does both.
LEMMA Moves ==
  ASSUME IInv, NEW r \in Request, NEW c, call[r].pc = "asking", c.pc = "asking",
         NEW from, from = Asked(r), NEW to, to = Way(r, c.off)[c.i]
  PROVE  Opened(Closed(inFlight, from), to) = Shifted(r, c)
<1> DEFINE g == Closed(inFlight, from)
<1>1. inFlight \in [Provider -> Nat] /\ inFlight \in [Provider -> Int]
  BY CallByCall
<1>2. \A p : (On(r, c, p) <=> p = to) /\ (On(r, call[r], p) <=> p = from)
  BY DEF On, Asked, Path, Way
<1>3. /\ g = [q \in Provider |-> inFlight[q] - (IF q = from THEN 1 ELSE 0)]
      /\ g \in [Provider -> Int]
  BY <1>1, Tallies
<1> HIDE DEF g
<1>4. Opened(g, to) = [q \in Provider |-> g[q] + (IF q = to THEN 1 ELSE 0)]
  BY <1>3, Tallies
<1>5. \A q \in Provider : g[q] + (IF q = to THEN 1 ELSE 0) =
        inFlight[q] - (IF On(r, call[r], q) THEN 1 ELSE 0) + (IF On(r, c, q) THEN 1 ELSE 0)
  BY <1>1, <1>2, <1>3
<1>6. Opened(g, to) = Shifted(r, c)
  BY <1>4, <1>5 DEF Shifted
<1>7. QED
  BY <1>6 DEF g

-----------------------------------------------------------------------------
(* The steps.                                                              *)

\* A step of a call changes its record only.
LEMMA SetCall ==
  ASSUME IInv, NEW r \in Request, NEW c, Set(r, c)
  PROVE  call'[r] = c /\ \A q \in Request \ {r} : call'[q] = call[q]
BY CallByCall DEF Set

Typed ==
  available' \subseteq Provider /\ session' \in [Session -> Record]
    /\ lowered' \subseteq Session \X Nat

\* What a step leaves alone keeps its type.
LEMMA TypedKept ==
  ASSUME IInv
  PROVE  /\ UNCHANGED available => available' \subseteq Provider
         /\ UNCHANGED session => session' \in [Session -> Record]
         /\ UNCHANGED lowered => lowered' \subseteq Session \X Nat
BY CallByCall

\* The decision sends the call to the first available provider, and counts it there.
LEMMA Routed ==
  ASSUME IInv, NEW r \in Request, call[r].pc # "asking", NEW band, NEW open,
         Route(r, band, open), Typed
  PROVE  /\ IInv'
         /\ \A q \in Request \ {r} : call'[q] = call[q]
         /\ call'[r].pc \in {"asking", "refused"}
         /\ call'[r].pc = "asking" =>
              /\ call'[r].off = Offloads(r, band, open)
              /\ inFlight' = Opened(inFlight, Way(r, call'[r].off)[call'[r].i])
<1> DEFINE off  == Offloads(r, band, open)
           list == IF off THEN OffloadChain[r] ELSE Chain[r]
           hops == {j \in DOMAIN list : list[j] \in available}
<1>1. off \in BOOLEAN /\ list = Way(r, off)
  BY DEF Offloads, Way
<1>2. hops \in SUBSET DOMAIN Way(r, off) /\ call[r].gone \in BOOLEAN
  BY <1>1, CallByCall DEF Call
<1>3. \/ \E j \in Nearest(hops) :
              /\ Set(r, Asking(off, hops, j, call[r].gone))
              /\ inFlight' = Opened(inFlight, list[j])
      \/ hops = {} /\ Set(r, Ended("refused", "none")) /\ UNCHANGED inFlight
  BY DEF Route
<1> HIDE DEF off, list, hops
<1>4. ASSUME NEW j \in Nearest(hops), Set(r, Asking(off, hops, j, call[r].gone)),
             inFlight' = Opened(inFlight, list[j])
      PROVE  /\ IInv' /\ (\A q \in Request \ {r} : call'[q] = call[q])
             /\ call'[r].pc = "asking" /\ call'[r].off = off
             /\ inFlight' = Opened(inFlight, Way(r, call'[r].off)[call'[r].i])
  <2> DEFINE gone == call[r].gone
             c == Asking(off, hops, j, gone)
             to == list[j]
  <2>0. gone \in BOOLEAN
    BY <1>2
  <2> HIDE DEF gone
  <2>1. Sound(r, c) /\ c.pc = "asking" /\ c.off = off /\ c.i = j
    BY <1>1, <1>2, <2>0, SoundAsking
  <2>2. Set(r, c) /\ inFlight' = Opened(inFlight, to)
    BY <1>4 DEF gone
  <2> HIDE DEF c
  <2>3. to = Way(r, c.off)[c.i]
    BY <1>1, <2>1
  <2> HIDE DEF to
  <2>4. inFlight' = Shifted(r, c)
    BY <2>1, <2>2, <2>3, Enters
  <2>5. IInv'
    BY <2>1, <2>2, <2>4, OneCall DEF Typed
  <2>6. QED
    BY <2>1, <2>2, <2>3, <2>5, SetCall
<1>5. ASSUME Set(r, Ended("refused", "none")), UNCHANGED inFlight
      PROVE  IInv' /\ (\A q \in Request \ {r} : call'[q] = call[q]) /\ call'[r].pc = "refused"
  <2> DEFINE c == Ended("refused", "none")
  <2>1. Sound(r, c) /\ c.pc = "refused" /\ \A p : ~On(r, c, p)
    <3>1. "refused" \in Settled /\ "none" \in FailureClass \cup {"none"}
      BY DEF Settled
    <3>2. QED
      BY <3>1, SoundEnded
  <2>2. \A p : ~On(r, call[r], p)
    BY DEF On
  <2> HIDE DEF c
  <2>3. Set(r, c) /\ inFlight' = Shifted(r, c)
    BY <1>5, <2>1, <2>2, Stays DEF c
  <2>4. IInv'
    BY <2>1, <2>3, OneCall DEF Typed
  <2>5. QED
    BY <2>1, <2>3, <2>4, SetCall
<1>6. QED
  BY <1>3, <1>4, <1>5 DEF off

\* The parts a decision reads have their types.
LEMMA RecordsTyped ==
  ASSUME IInv, NEW r \in Request
  PROVE  /\ inFlight[Target] \in Nat /\ call[r] \in Call /\ call[r].seen \in Record
         /\ session[SessionOf[r]] \in Record /\ NoRecord \in Record
         /\ SessionOf[r] \in Session /\ TurnOf[r] \in Nat
<1>1. call[r] \in Call
  BY CallByCall
<1>2. call[r].seen \in Record
  BY <1>1 DEF Call
<1>3. SessionOf[r] \in Session /\ TurnOf[r] \in Nat /\ Target \in Provider
  BY DispatchAssumption
<1>4. NoRecord \in Record
  BY DEF NoRecord, Record
<1>5. QED
  BY <1>1, <1>2, <1>3, <1>4, CallByCall

\* A request that arrives is routed on the counts it reads, or awaits the classifier.
LEMMA Arrives ==
  ASSUME IInv, NEW r \in Request, Arrive(r)
  PROVE  /\ IInv'
         /\ \A q \in Request \ {r} : call'[q] = call[q]
         /\ \/ \E band : Route(r, band, inFlight[Target])
            \/ call'[r].pc = "classifying"
<1>1. Typed /\ call[r].pc = "new"
  BY TypedKept DEF Arrive, Typed
<1>2. ASSUME NEW band, Route(r, band, inFlight[Target])
      PROVE  IInv' /\ \A q \in Request \ {r} : call'[q] = call[q]
  <2> DEFINE open == inFlight[Target]
  <2>1. Route(r, band, open)
    BY <1>2
  <2> HIDE DEF open
  <2>2. QED
    BY <1>1, <2>1, Routed
<1>3. ASSUME Set(r, At("classifying", inFlight[Target],
                       IF First(r) THEN session[SessionOf[r]] ELSE NoRecord, FALSE, "none")),
             UNCHANGED inFlight
      PROVE  IInv' /\ (\A q \in Request \ {r} : call'[q] = call[q])
             /\ call'[r].pc = "classifying"
  <2> DEFINE open == inFlight[Target]
             seen == IF First(r) THEN session[SessionOf[r]] ELSE NoRecord
             c    == At("classifying", open, seen, FALSE, "none")
  <2>1. open \in Nat /\ seen \in Record
    BY RecordsTyped
  <2>2. Set(r, c)
    BY <1>3
  <2> HIDE DEF open, seen
  <2>3. Sound(r, c) /\ c.pc = "classifying" /\ \A p : ~On(r, c, p)
    <3>1. "classifying" \in {"new", "classifying"}
      OBVIOUS
    <3>2. QED
      BY <2>1, <3>1, SoundAt
  <2> HIDE DEF c
  <2>4. \A p : ~On(r, call[r], p)
    BY <1>1 DEF On
  <2>5. inFlight' = Shifted(r, c)
    BY <1>3, <2>3, <2>4, Stays
  <2>6. IInv'
    BY <1>1, <2>2, <2>3, <2>5, OneCall DEF Typed
  <2>7. QED
    BY <2>2, <2>3, <2>6, SetCall
<1>4. QED
  BY <1>2, <1>3 DEF Arrive

\* What a turn leaves is a record.
LEMMA LeavesRecord ==
  ASSUME IInv, NEW r \in Request, NEW band, NEW judged, Leave(r, band, judged)
  PROVE  session' \in [Session -> Record]
<1> DEFINE next == NextRecord(call[r].seen, TurnOf[r], band)
<1>1. next \in SUBSET Record
  BY RecordsTyped DEF NextRecord, Record
<1>2. session \in [Session -> Record]
  BY CallByCall
<1>3. \/ \E rec \in next : session' = [session EXCEPT ![SessionOf[r]] = rec]
      \/ UNCHANGED session
  BY DEF Leave
<1> HIDE DEF next
<1>4. QED
  BY <1>1, <1>2, <1>3

\* The classified call is routed on the counts of that moment.
LEMMA Classifies ==
  ASSUME IInv, NEW r \in Request, Classified(r)
  PROVE  /\ IInv'
         /\ \A q \in Request \ {r} : call'[q] = call[q]
         /\ \E band : Route(r, band, inFlight[Target])
         /\ call'[r].pc \in {"asking", "refused"}
<1>1. Counted(r) = inFlight[Target]
  BY DEF Counted
<1>2. /\ \E band, judged : Leave(r, band, judged) /\ Route(r, band, inFlight[Target])
      /\ lowered' = lowered \/ lowered' = lowered \cup {TurnKey(r)}
      /\ UNCHANGED available /\ call[r].pc = "classifying"
  BY <1>1 DEF Classified
<1>3. Typed
  <2>1. session' \in [Session -> Record]
    BY <1>2, LeavesRecord
  <2>2. lowered' \subseteq Session \X Nat
    BY <1>2, CallByCall, RecordsTyped DEF TurnKey
  <2>3. QED
    BY <1>2, <2>1, <2>2, TypedKept DEF Typed
<1>4. PICK band : Route(r, band, inFlight[Target])
  BY <1>2
<1> DEFINE open == inFlight[Target]
<1>5. Route(r, band, open)
  BY <1>4
<1> HIDE DEF open
<1>6. IInv' /\ (\A q \in Request \ {r} : call'[q] = call[q])
      /\ call'[r].pc \in {"asking", "refused"}
  BY <1>2, <1>3, <1>5, Routed
<1>7. QED
  BY <1>4, <1>6

\* An attempt that ends, with an answer or an error, and ends the call.
LEMMA Ends ==
  ASSUME IInv, NEW r \in Request, call[r].pc = "asking",
         NEW pc \in Settled, NEW err \in FailureClass \cup {"none"},
         Set(r, Ended(pc, err)), inFlight' = Closed(inFlight, Asked(r)),
         UNCHANGED <<available, session, lowered>>
  PROVE  /\ IInv' /\ \A q \in Request \ {r} : call'[q] = call[q]
         /\ call'[r].pc = pc /\ call'[r].err = err
<1> DEFINE c == Ended(pc, err)
           from == Asked(r)
<1>1. Sound(r, c) /\ c.pc = pc /\ c.err = err
  BY SoundEnded
<1>2. Set(r, c) /\ inFlight' = Closed(inFlight, from) /\ from = Asked(r)
  OBVIOUS
<1>3. c.pc # "asking"
  BY <1>1 DEF Settled
<1> HIDE DEF c, from
<1>4. inFlight' = Shifted(r, c)
  BY <1>2, <1>3, Leaves
<1>5. IInv'
  BY <1>1, <1>2, <1>4, OneCall, TypedKept
<1>6. QED
  BY <1>1, <1>2, <1>5, SetCall

\* A call that walks its chain stays sound: it may pause, ask again, move on to the
\* next position, or lose its client.
LEMMA SoundSteps ==
  ASSUME IInv, NEW r \in Request, call[r].pc \in {"asking", "pausing"}
  PROVE  /\ Asked(r) = Way(r, call[r].off)[call[r].i] /\ Asked(r) \in Provider
         /\ Sound(r, [call[r] EXCEPT !.pc = "asking"])
         /\ Sound(r, [call[r] EXCEPT !.pc = "pausing", !.used = @ + 1,
                                     !.tried = @ \cup {Asked(r)}])
         /\ \A j \in Nearest(Rest(r)) :
              Sound(r, [call[r] EXCEPT !.i = j, !.used = 0, !.tried = @ \cup {Asked(r)}])
<1> DEFINE c == call[r]
           asked == Asked(r)
<1>1. /\ c \in Call /\ c.hops \subseteq DOMAIN Way(r, c.off) /\ c.i \in c.hops
      /\ \A j \in c.hops : j < c.i => Way(r, c.off)[j] \in c.tried
  BY CallByCall DEF Sound
<1>2. c.off \in BOOLEAN /\ c.hops \subseteq Nat /\ c.i \in Nat /\ c.used \in Nat
      /\ c.tried \subseteq Provider /\ c.pc \in {"asking", "pausing"}
  BY <1>1 DEF Call
<1>3. asked = Way(r, c.off)[c.i] /\ asked \in Provider
  BY <1>1, <1>2, ChainsOfProviders DEF Asked, Path, Way
<1>4. \A j \in Nearest(Rest(r)) : /\ j \in c.hops /\ j > c.i
                                  /\ \A k \in c.hops : k < j => k <= c.i
  BY <1>1, <1>2 DEF Nearest, Rest
<1> HIDE DEF c, asked
<1>5. Sound(r, [c EXCEPT !.pc = "asking"])
  BY <1>1, <1>2 DEF Call, Sound
<1>6. Sound(r, [c EXCEPT !.pc = "pausing", !.used = @ + 1, !.tried = @ \cup {asked}])
  <2> DEFINE d == [c EXCEPT !.pc = "pausing", !.used = @ + 1, !.tried = @ \cup {asked}]
  <2>1. /\ d.hops = c.hops /\ d.off = c.off /\ d.i = c.i /\ d.pc = "pausing"
        /\ d.tried = c.tried \cup {asked}
    BY <1>1 DEF Call
  <2>2. c.used + 1 \in Nat /\ c.tried \cup {asked} \subseteq Provider
    BY <1>2, <1>3
  <2>3. d \in Call
    BY <1>1, <2>2 DEF Call
  <2> HIDE DEF d
  <2>4. Sound(r, d)
    BY <1>1, <2>1, <2>3 DEF Sound
  <2>5. QED
    BY <2>4 DEF d
<1>7. ASSUME NEW j \in Nearest(Rest(r))
      PROVE  Sound(r, [c EXCEPT !.i = j, !.used = 0, !.tried = @ \cup {asked}])
  <2> DEFINE d == [c EXCEPT !.i = j, !.used = 0, !.tried = @ \cup {asked}]
  <2>1. d.hops = c.hops /\ d.off = c.off /\ d.i = j /\ d.tried = c.tried \cup {asked}
    BY <1>1 DEF Call
  <2>2. d \in Call
    BY <1>1, <1>2, <1>3, <1>4 DEF Call
  <2>3. \A k \in c.hops : k < j => k < c.i \/ k = c.i
    BY <1>2, <1>4
  <2> HIDE DEF d
  <2>4. Sound(r, d)
    BY <1>1, <1>3, <1>4, <2>1, <2>2, <2>3 DEF Sound
  <2>5. QED
    BY <2>4 DEF d
<1>8. QED
  BY <1>3, <1>5, <1>6, <1>7 DEF c, asked

\* The catch block.
LEMMA FailsSound ==
  ASSUME IInv, NEW r \in Request, NEW class \in FailureClass, Fails(r, class)
  PROVE  /\ IInv' /\ \A q \in Request \ {r} : call'[q] = call[q]
         /\ call'[r].pc \in {"asking", "pausing", "failed"}
         /\ call'[r].pc = "failed" =>
              call'[r].err = class /\ (class \notin RetryOn \/ Rest(r) = {})
<1> DEFINE from == Asked(r)
<1>1. call[r].pc = "asking" /\ call[r] \in Call /\ UNCHANGED <<available, session, lowered>>
  BY RecordsTyped DEF Fails
<1>2. CASE /\ Set(r, [call[r] EXCEPT !.pc = "pausing", !.used = @ + 1, !.tried = @ \cup {Asked(r)}])
           /\ inFlight' = Closed(inFlight, Asked(r))
  <2> DEFINE c == [call[r] EXCEPT !.pc = "pausing", !.used = @ + 1, !.tried = @ \cup {Asked(r)}]
  <2>1. Sound(r, c) /\ c.pc = "pausing"
    BY <1>1, SoundSteps DEF Call
  <2>2. Set(r, c) /\ inFlight' = Closed(inFlight, from) /\ from = Asked(r)
    BY <1>2
  <2> HIDE DEF c, from
  <2>3. inFlight' = Shifted(r, c)
    BY <1>1, <2>1, <2>2, Leaves
  <2>4. IInv'
    BY <1>1, <2>1, <2>2, <2>3, OneCall, TypedKept
  <2>5. QED
    BY <2>1, <2>2, <2>4, SetCall
<1>3. ASSUME NEW j \in Nearest(Rest(r)),
             Set(r, [call[r] EXCEPT !.i = j, !.used = 0, !.tried = @ \cup {Asked(r)}]),
             inFlight' = Opened(Closed(inFlight, Asked(r)), Path(r)[j])
      PROVE  /\ IInv' /\ \A q \in Request \ {r} : call'[q] = call[q]
             /\ call'[r].pc = "asking"
  <2> DEFINE c  == [call[r] EXCEPT !.i = j, !.used = 0, !.tried = @ \cup {Asked(r)}]
             to == Path(r)[j]
  <2>1. Sound(r, c) /\ c.pc = "asking" /\ to = Way(r, c.off)[c.i]
    BY <1>1, <1>3, SoundSteps DEF Call, Path, Way
  <2>2. Set(r, c) /\ inFlight' = Opened(Closed(inFlight, from), to) /\ from = Asked(r)
    BY <1>3
  <2> HIDE DEF c, from, to
  <2>3. inFlight' = Shifted(r, c)
    BY <1>1, <2>1, <2>2, Moves
  <2>4. IInv'
    BY <1>1, <2>1, <2>2, <2>3, OneCall, TypedKept
  <2>5. QED
    BY <2>1, <2>2, <2>4, SetCall
<1>4. CASE /\ class \notin RetryOn \/ Rest(r) = {}
           /\ Set(r, Ended("failed", class))
           /\ inFlight' = Closed(inFlight, Asked(r))
  <2> DEFINE pc == "failed"
  <2>1. pc \in Settled /\ class \in FailureClass \cup {"none"} /\ Set(r, Ended(pc, class))
        /\ pc = "failed"
    BY <1>4 DEF Settled
  <2> HIDE DEF pc
  <2>2. IInv' /\ (\A q \in Request \ {r} : call'[q] = call[q])
        /\ call'[r].pc = pc /\ call'[r].err = class
    BY <1>1, <1>4, <2>1, Ends
  <2>3. QED
    BY <1>4, <2>1, <2>2
<1>5. QED
  BY <1>2, <1>3, <1>4 DEF Fails

\* The attempt that answers.
LEMMA AnswersSound ==
  ASSUME IInv, NEW r \in Request, Answers(r)
  PROVE  /\ IInv' /\ \A q \in Request \ {r} : call'[q] = call[q]
         /\ call'[r].pc = "done"
<1> DEFINE pc == "done"
           err == "none"
<1>1. pc \in Settled /\ err \in FailureClass \cup {"none"} /\ Set(r, Ended(pc, err)) /\ pc = "done"
  BY DEF Settled, Answers
<1>2. /\ call[r].pc = "asking" /\ inFlight' = Closed(inFlight, Asked(r))
      /\ UNCHANGED <<available, session, lowered>>
  BY DEF Answers
<1> HIDE DEF pc, err
<1>3. QED
  BY <1>1, <1>2, Ends

\* The end of the pause counts the second try.
LEMMA AsksAgainSound ==
  ASSUME IInv, NEW r \in Request, AsksAgain(r)
  PROVE  /\ IInv' /\ \A q \in Request \ {r} : call'[q] = call[q]
         /\ call'[r].pc = "asking" /\ call[r].pc = "pausing"
<1> DEFINE c  == [call[r] EXCEPT !.pc = "asking"]
           to == Asked(r)
<1>1. call[r].pc = "pausing" /\ call[r] \in Call /\ UNCHANGED <<available, session, lowered>>
  BY RecordsTyped DEF AsksAgain
<1>2. Sound(r, c) /\ c.pc = "asking" /\ to = Way(r, c.off)[c.i]
  BY <1>1, SoundSteps DEF Call
<1>3. Set(r, c) /\ inFlight' = Opened(inFlight, to)
  BY DEF AsksAgain
<1> HIDE DEF c, to
<1>4. inFlight' = Shifted(r, c)
  BY <1>1, <1>2, <1>3, Enters
<1>5. IInv'
  BY <1>1, <1>2, <1>3, <1>4, OneCall, TypedKept
<1>6. QED
  BY <1>1, <1>2, <1>3, <1>5, SetCall

\* A client that leaves changes nothing else.
LEMMA DisconnectsSound ==
  ASSUME IInv, NEW r \in Request, Disconnects(r)
  PROVE  /\ IInv' /\ \A q \in Request \ {r} : call'[q] = call[q]
         /\ call'[r].pc = call[r].pc
<1> DEFINE c == [call[r] EXCEPT !.gone = TRUE]
<1>1. call[r] \in Call /\ Sound(r, call[r]) /\ UNCHANGED <<inFlight, available, session, lowered>>
  BY CallByCall DEF Disconnects
<1>2. /\ c \in Call /\ c.pc = call[r].pc /\ c.off = call[r].off /\ c.hops = call[r].hops
      /\ c.i = call[r].i /\ c.tried = call[r].tried
  BY <1>1 DEF Call
<1>3. Set(r, c)
  BY DEF Disconnects
<1> HIDE DEF c
<1>4. Sound(r, c) /\ \A p : On(r, c, p) <=> On(r, call[r], p)
  BY <1>1, <1>2 DEF Sound, On
<1>5. inFlight' = Shifted(r, c)
  BY <1>1, <1>4, Stays
<1>6. IInv'
  BY <1>1, <1>3, <1>4, <1>5, OneCall, TypedKept
<1>7. QED
  BY <1>2, <1>3, <1>6, SetCall

\* Steps that change no call keep the invariant.
LEMMA CallsUnchanged ==
  ASSUME IInv, UNCHANGED <<call, inFlight>>, Typed
  PROVE  IInv'
<1>1. \A p : OpenOn(p)' = OpenOn(p)
  BY DEF OpenOn, Asked, Path
<1>2. CountsMatch'
  BY <1>1 DEF IInv, CountsMatch
<1>3. QED
  BY <1>2 DEF IInv, TypeOK, OnChain, WalkedInOrder, Path, Typed

\* Probes and records that expire change no call and no count.
LEMMA Surroundings ==
  ASSUME IInv,
         \/ \E p \in Local : Probed(p)
         \/ \E s \in Session : Expires(s)
         \/ \E k \in lowered : TurnExpires(k)
         \/ UNCHANGED vars
  PROVE  UNCHANGED <<call, inFlight>> /\ IInv'
<1>1. UNCHANGED <<call, inFlight>>
  BY DEF Probed, Expires, TurnExpires, vars
<1>2. Typed
  <2>1. CASE \E p \in Local : Probed(p)
    <3>1. PICK p \in Local : Probed(p)
      BY <2>1
    <3>2. p \in Provider /\ available \subseteq Provider
      BY CallByCall, DispatchAssumption
    <3>3. QED
      BY <3>1, <3>2, TypedKept DEF Probed, Typed
  <2>2. CASE \E s \in Session : Expires(s)
    <3>1. NoRecord \in Record /\ session \in [Session -> Record]
      BY CallByCall DEF NoRecord, Record
    <3>2. QED
      BY <2>2, <3>1, TypedKept DEF Expires, Typed
  <2>3. CASE \E k \in lowered : TurnExpires(k)
    BY <2>3, CallByCall DEF TurnExpires, Typed
  <2>4. CASE UNCHANGED vars
    BY <2>4, CallByCall DEF vars, Typed
  <2>5. QED
    BY <2>1, <2>2, <2>3, <2>4
<1>3. QED
  BY <1>1, <1>2, CallsUnchanged

\* The invariant holds at first.
LEMMA Initially ==
  Init => IInv
<1> SUFFICES ASSUME Init PROVE IInv
  OBVIOUS
<1>1. \A r \in Request : Sound(r, call[r]) /\ call[r].pc = "new" /\ call[r] \in Call
  <2>1. "new" \in {"new", "classifying"} /\ 0 \in Nat /\ NoRecord \in Record
    BY DEF NoRecord, Record
  <2>2. QED
    BY <2>1, SoundAt DEF Init, Sound
<1>2. call \in [Request -> Call]
  BY <1>1 DEF Init
<1>3. \A p : OpenOn(p) = {}
  BY <1>1 DEF OpenOn
<1>4. CountsMatch
  BY <1>3, FS_EmptySet DEF CountsMatch, Init
<1>5. session \in [Session -> Record] /\ inFlight \in [Provider -> Nat]
      /\ available \subseteq Provider /\ lowered \subseteq Session \X Nat
  BY DEF Init, NoRecord, Record
<1>6. QED
  BY <1>1, <1>2, <1>4, <1>5, CallByCall

\* The calls of a step: one request's handler moves, or no call does.
LEMMA WhoSteps ==
  ASSUME [Next]_vars
  PROVE  \/ \E r \in Request :
              \/ Arrive(r) \/ Classified(r) \/ Answers(r)
              \/ (\E class \in FailureClass : Fails(r, class))
              \/ AsksAgain(r) \/ Disconnects(r)
         \/ \E p \in Local : Probed(p)
         \/ \E s \in Session : Expires(s)
         \/ \E k \in lowered : TurnExpires(k)
         \/ UNCHANGED vars
BY DEF Next, Proceeds

\* A call's record changes only by a step of its own.
LEMMA OwnStep ==
  ASSUME IInv, [Next]_vars, NEW r \in Request, call'[r] # call[r]
  PROVE  \/ Arrive(r) \/ Classified(r) \/ Answers(r)
         \/ (\E class \in FailureClass : Fails(r, class))
         \/ AsksAgain(r) \/ Disconnects(r)
<1>1. ASSUME NEW q \in Request, q # r,
             \/ Arrive(q) \/ Classified(q) \/ Answers(q)
             \/ (\E class \in FailureClass : Fails(q, class))
             \/ AsksAgain(q) \/ Disconnects(q)
      PROVE  FALSE
  BY <1>1, Arrives, Classifies, AnswersSound, FailsSound, AsksAgainSound, DisconnectsSound
<1>2. QED
  BY <1>1, WhoSteps, Surroundings

-----------------------------------------------------------------------------
(* Theorems.                                                               *)

\* Types, positions, exact counts and the order of the walk, in every state.
THEOREM Invariance == Spec => []IInv
<1>1. IInv /\ [Next]_vars => IInv'
  <2> SUFFICES ASSUME IInv, [Next]_vars PROVE IInv'
    OBVIOUS
  <2>1. ASSUME NEW r \in Request,
               \/ Arrive(r) \/ Classified(r) \/ Answers(r)
               \/ (\E class \in FailureClass : Fails(r, class))
               \/ AsksAgain(r) \/ Disconnects(r)
        PROVE  IInv'
    BY <2>1, Arrives, Classifies, AnswersSound, FailsSound, AsksAgainSound, DisconnectsSound
  <2>2. QED
    BY <2>1, WhoSteps, Surroundings
<1>2. QED
  BY <1>1, Initially, PTL DEF Spec

\* The in-flight counts are exact.
THEOREM ExactCounts == Spec => []CountsMatch
<1>1. IInv => CountsMatch
  BY DEF IInv
<1>2. QED
  BY <1>1, Invariance, PTL

\* A provider is asked only after those before it have failed the call.
THEOREM Order == Spec => []WalkedInOrder
<1>1. IInv => WalkedInOrder
  BY DEF IInv
<1>2. QED
  BY <1>1, Invariance, PTL

\* The decision taken again after the classifier is the one that counts.
THEOREM FreeSlot == Spec => SentOnlyIntoSlot
<1> DEFINE Step == \A r \in Foreground :
              /\ call[r].pc \in {"new", "classifying"} /\ call'[r].pc = "asking"
              /\ call'[r].off /\ OffloadChain[r][call'[r].i] = Target
              => inFlight'[Target] <= MaxInFlight
<1>1. ASSUME IInv, [Next]_vars
      PROVE  Step
  <2>1. SUFFICES ASSUME NEW r \in Foreground,
                        call[r].pc \in {"new", "classifying"}, call'[r].pc = "asking",
                        call'[r].off, OffloadChain[r][call'[r].i] = Target
                 PROVE  inFlight'[Target] <= MaxInFlight
    OBVIOUS
  <2>2. r \in Request /\ Target \in Provider /\ MaxInFlight \in Nat
        /\ inFlight \in [Provider -> Nat]
    BY <1>1, DispatchAssumption, CallByCall
  <2>3. Arrive(r) \/ Classified(r)
    <3>1. ~Answers(r) /\ ~AsksAgain(r) /\ ~(\E class \in FailureClass : Fails(r, class))
      BY <2>1 DEF Answers, AsksAgain, Fails
    <3>2. ~Disconnects(r)
      BY <1>1, <2>1, <2>2, DisconnectsSound
    <3>3. call'[r] # call[r]
      BY <2>1
    <3>4. QED
      BY <1>1, <2>2, <3>1, <3>2, <3>3, OwnStep
  <2>4. PICK band : Route(r, band, inFlight[Target])
    BY <1>1, <2>1, <2>2, <2>3, Arrives, Classifies
  <2> DEFINE open == inFlight[Target]
  <2>5. Route(r, band, open)
    BY <2>4
  <2>6. open = inFlight[Target] /\ open \in Nat
    BY <2>2
  <2> HIDE DEF open
  <2>7. Typed
    <3>1. IInv'
      BY <1>1, <2>2, <2>3, Arrives, Classifies
    <3>2. QED
      BY <3>1 DEF IInv, TypeOK, Typed
  <2>8. call[r].pc # "asking"
    BY <2>1
  <2>9. Offloads(r, band, open) /\ inFlight' = Opened(inFlight, Way(r, call'[r].off)[call'[r].i])
    BY <1>1, <2>1, <2>2, <2>5, <2>7, <2>8, Routed
  <2>10. open < MaxInFlight
    BY <2>1, <2>9 DEF Offloads
  <2>11. Way(r, call'[r].off)[call'[r].i] = Target
    BY <2>1 DEF Way
  <2>12. inFlight'[Target] = open + 1
    BY <2>2, <2>6, <2>9, <2>11 DEF Opened
  <2>13. QED
    BY <2>2, <2>6, <2>10, <2>12
<1>2. IInv /\ [Next]_vars => [Step]_vars
  BY <1>1
<1>3. QED
  BY <1>2, Invariance, PTL DEF Spec, SentOnlyIntoSlot

\* Only an exhausted chain, or an error that is not to be retried, ends a call.
THEOREM WholeChain == Spec => WholeChainTried
<1> DEFINE Step == \A r \in Request :
              call'[r].pc = "failed" /\ call[r].pc # "failed" /\ call'[r].err \in RetryOn =>
                \A j \in call[r].hops : Path(r)[j] \in call[r].tried \cup {Asked(r)}
<1>1. ASSUME IInv, [Next]_vars
      PROVE  Step
  <2>1. SUFFICES ASSUME NEW r \in Request,
                        call'[r].pc = "failed", call[r].pc # "failed", call'[r].err \in RetryOn
                 PROVE  \A j \in call[r].hops : Path(r)[j] \in call[r].tried \cup {Asked(r)}
    OBVIOUS
  <2>2. \E class \in FailureClass : Fails(r, class)
    <3>1. ~Answers(r) /\ ~AsksAgain(r) /\ ~Disconnects(r) /\ ~Classified(r)
      BY <1>1, <2>1, AnswersSound, AsksAgainSound, DisconnectsSound, Classifies
    <3>2. ~Arrive(r)
      <4>1. ASSUME NEW band, Route(r, band, inFlight[Target]), call[r].pc = "new", IInv'
            PROVE  FALSE
        <5> DEFINE open == inFlight[Target]
        <5>1. Route(r, band, open) /\ call[r].pc # "asking"
          BY <4>1
        <5>2. Typed
          BY <4>1 DEF IInv, TypeOK, Typed
        <5> HIDE DEF open
        <5>3. QED
          BY <1>1, <2>1, <5>1, <5>2, Routed
      <4>2. Arrive(r) => call[r].pc = "new"
        BY DEF Arrive
      <4>3. QED
        BY <1>1, <2>1, <4>1, <4>2, Arrives
    <3>3. call'[r] # call[r]
      BY <2>1
    <3>4. QED
      BY <1>1, <3>1, <3>2, <3>3, OwnStep
  <2>3. Rest(r) = {} /\ call[r].pc = "asking"
    <3>1. PICK class \in FailureClass : Fails(r, class)
      BY <2>2
    <3>2. QED
      BY <1>1, <2>1, <3>1, FailsSound DEF Fails
  <2>4. Sound(r, call[r]) /\ call[r].hops \subseteq Nat /\ call[r].i \in Nat
    BY <1>1, CallByCall DEF Call
  <2>5. \A j \in call[r].hops : j < call[r].i \/ j = call[r].i
    BY <2>3, <2>4 DEF Rest
  <2>6. \A j \in call[r].hops : j < call[r].i => Path(r)[j] \in call[r].tried
    BY <2>3, <2>4 DEF Sound, Path, Way
  <2>7. QED
    BY <2>5, <2>6 DEF Asked
<1>2. IInv /\ [Next]_vars => [Step]_vars
  BY <1>1
<1>3. QED
  BY <1>2, Invariance, PTL DEF Spec, WholeChainTried

-----------------------------------------------------------------------------
(* The refinement: each call's walk is one that ChainWalk allows.          *)

To(c) == {j \in c.hops : j >= c.i}

\* What the mapping makes of a call record, at each of its places.
View(r, c) ==
  [st |-> Standing(c), way |-> IF Standing(c) = "walking" THEN Way(r, c.off) ELSE << >>,
   todo |-> IF Standing(c) = "walking" THEN To(c) ELSE {},
   tries |-> IF Standing(c) = "walking" THEN c.used ELSE 0]

LEMMA SeenIsView ==
  ASSUME NEW r
  PROVE  Seen(r) = View(r, call[r]) /\ Seen(r)' = View(r, call'[r])
BY DEF Seen, View, To, Path, Way

LEMMA Standings ==
  ASSUME NEW c
  PROVE  /\ c.pc \in {"new", "classifying"} => Standing(c) = "new"
         /\ c.pc \in {"asking", "pausing"} => Standing(c) = "walking"
         /\ c.pc = "failed" => Standing(c) = IF c.err \in RetryOn THEN "exhausted" ELSE "fatal"
         /\ c.pc \in {"done", "refused"} => Standing(c) = c.pc
BY DEF Standing

LEMMA Views ==
  ASSUME NEW r, NEW c
  PROVE  /\ c.pc \in {"new", "classifying"} => View(r, c) = Promise(r)!Still("new")
         /\ c.pc \in {"asking", "pausing"} =>
              View(r, c) = Promise(r)!Walking(Way(r, c.off), To(c), c.used)
         /\ c.pc = "failed" =>
              View(r, c) = Promise(r)!Still(IF c.err \in RetryOn THEN "exhausted" ELSE "fatal")
         /\ c.pc \in {"done", "refused"} => View(r, c) = Promise(r)!Still(c.pc)
BY Standings DEF View, Promise!Still, Promise!Walking

\* The choice of a chain begins the walk of all its positions that can be reached, from
\* the first of them, or refuses the call.
LEMMA RouteBegins ==
  ASSUME IInv, NEW r \in Request, call[r].pc \in {"new", "classifying"}, NEW band, NEW open,
         Route(r, band, open)
  PROVE  Promise(r)!Begins
<1> DEFINE off  == Offloads(r, band, open)
           list == IF off THEN OffloadChain[r] ELSE Chain[r]
           hops == {j \in DOMAIN list : list[j] \in available}
<1>1. off \in BOOLEAN /\ list = Way(r, off) /\ hops \in SUBSET DOMAIN list
      /\ list \in {Chain[r], OffloadChain[r]}
  BY DEF Offloads, Way
<1>2. \/ \E j \in Nearest(hops) : Set(r, Asking(off, hops, j, call[r].gone))
      \/ hops = {} /\ Set(r, Ended("refused", "none"))
  BY DEF Route
<1> HIDE DEF off, list, hops
<1>3. Seen(r) = Promise(r)!Still("new") /\ Seen(r).st = "new"
  BY SeenIsView, Views DEF Promise!Still
<1>4. ASSUME NEW j \in Nearest(hops), Set(r, Asking(off, hops, j, call[r].gone))
      PROVE  hops # {} /\ Seen(r)' = Promise(r)!Walking(list, hops, 0)
  <2> DEFINE gone == call[r].gone
             c == Asking(off, hops, j, gone)
  <2>1. c.pc = "asking" /\ c.off = off /\ c.hops = hops /\ c.i = j /\ c.used = 0
    BY DEF Asking
  <2>2. Set(r, c)
    BY <1>4
  <2> HIDE DEF c
  <2>3. call'[r] = c
    BY <2>2, SetCall
  <2>4. To(c) = hops /\ hops # {}
    BY <1>4, <2>1 DEF To, Nearest
  <2>5. QED
    BY <1>1, <2>1, <2>3, <2>4, SeenIsView, Views
<1>5. ASSUME hops = {}, Set(r, Ended("refused", "none"))
      PROVE  Seen(r)' = Promise(r)!Still("refused")
  <2>1. call'[r] = Ended("refused", "none") /\ Ended("refused", "none").pc = "refused"
    BY <1>5, SetCall DEF Ended, At
  <2>2. QED
    BY <2>1, SeenIsView, Views
<1>6. \E way \in {Chain[r], OffloadChain[r]} : \E todo \in SUBSET DOMAIN way :
        Seen(r)' = IF todo = {} THEN Promise(r)!Still("refused") ELSE Promise(r)!Walking(way, todo, 0)
  BY <1>1, <1>2, <1>4, <1>5
<1>7. QED
  BY <1>3, <1>6 DEF Promise!Begins

\* The catch block asks once more within the budget, moves to the nearest position left,
\* or ends the walk.
LEMMA FailsWalk ==
  ASSUME IInv, NEW r \in Request, NEW class \in FailureClass, Fails(r, class)
  PROVE  Promise(r)!AsksOnceMore \/ Promise(r)!MovesOn \/ Promise(r)!Ends
<1> DEFINE c == call[r]
           w == Promise(r)!Walking(Way(r, c.off), To(c), c.used)
<1>1. /\ c \in Call /\ c.pc = "asking" /\ c.hops \subseteq Nat /\ c.i \in c.hops /\ c.i \in Nat
      /\ c.used \in Nat /\ Rest(r) = {j \in c.hops : j > c.i}
  BY CallByCall DEF Fails, Sound, Call, Rest
<1>2. Seen(r) = w
  BY <1>1, SeenIsView, Views
<1>3. w.st = "walking" /\ w.way = Way(r, c.off) /\ w.todo = To(c) /\ w.tries = c.used
  BY DEF Promise!Walking
<1> HIDE DEF w
<1>4. c.i \in To(c) /\ Promise(r)!Least(To(c)) = {c.i}
  BY <1>1 DEF To, Promise!Least
<1>5. CASE /\ Retries(r, class)
           /\ Set(r, [c EXCEPT !.pc = "pausing", !.used = @ + 1, !.tried = @ \cup {Asked(r)}])
  <2> DEFINE d == [c EXCEPT !.pc = "pausing", !.used = @ + 1, !.tried = @ \cup {Asked(r)}]
  <2>1. d.pc = "pausing" /\ d.used = c.used + 1 /\ d.off = c.off /\ To(d) = To(c)
    BY <1>1 DEF Call, To
  <2>2. call'[r] = d
    BY <1>5, SetCall
  <2> HIDE DEF c, d
  <2>3. Seen(r)' = Promise(r)!Walking(Way(r, c.off), To(c), c.used + 1)
    BY <2>1, <2>2, SeenIsView, Views
  <2>4. c.used < RetryBudget
    BY <1>5 DEF Retries, c
  <2>5. QED
    BY <1>2, <1>3, <2>3, <2>4 DEF Promise!AsksOnceMore
<1>6. ASSUME NEW j \in Nearest(Rest(r)),
             Set(r, [c EXCEPT !.i = j, !.used = 0, !.tried = @ \cup {Asked(r)}])
      PROVE  Promise(r)!MovesOn
  <2> DEFINE d == [c EXCEPT !.i = j, !.used = 0, !.tried = @ \cup {Asked(r)}]
  <2>1. d.pc = "asking" /\ d.used = 0 /\ d.off = c.off /\ d.hops = c.hops /\ d.i = j
    BY <1>1 DEF Call
  <2>2. call'[r] = d
    BY <1>6, SetCall
  <2>3. j \in c.hops /\ j > c.i /\ \A k \in c.hops : k > c.i => j <= k
    BY <1>1, <1>6 DEF Nearest
  <2> HIDE DEF c, d
  <2>4. To(d) = To(c) \ {c.i} /\ To(c) # {c.i}
    BY <1>1, <2>1, <2>3 DEF To
  <2>5. Seen(r)' = Promise(r)!Walking(Way(r, c.off), To(c) \ {c.i}, 0)
    BY <2>1, <2>2, <2>4, SeenIsView, Views
  <2>6. QED
    BY <1>2, <1>3, <1>4, <2>4, <2>5 DEF Promise!MovesOn
<1>7. CASE /\ class \notin RetryOn \/ Rest(r) = {}
           /\ Set(r, Ended("failed", class))
  <2> DEFINE st == IF class \in RetryOn THEN "exhausted" ELSE "fatal"
  <2>1. call'[r] = Ended("failed", class) /\ Ended("failed", class).pc = "failed"
        /\ Ended("failed", class).err = class
    BY <1>7, SetCall DEF Ended, At
  <2>2. Seen(r)' = Promise(r)!Still(st)
    BY <2>1, SeenIsView, Views
  <2>3. class \in RetryOn => To(c) = Promise(r)!Least(To(c))
    BY <1>1, <1>4, <1>7 DEF To
  <2>4. QED
    BY <1>2, <1>3, <2>2, <2>3 DEF Promise!Ends
<1>8. QED
  BY <1>5, <1>6, <1>7 DEF Fails

\* Every step is a step of each call's walk, or leaves it where it is.
LEMMA WalkStep ==
  ASSUME IInv, [Next]_vars, NEW r \in Request
  PROVE  Promise(r)!WNext \/ UNCHANGED Seen(r)
<1>1. CASE call'[r] = call[r]
  BY <1>1, SeenIsView
<1>2. CASE Arrive(r)
  <2>1. call[r].pc = "new"
    BY <1>2 DEF Arrive
  <2>2. ASSUME NEW band, Route(r, band, inFlight[Target]) PROVE Promise(r)!Begins
    BY <2>1, <2>2, RouteBegins
  <2>3. call'[r].pc = "classifying" => UNCHANGED Seen(r)
    BY <2>1, SeenIsView, Views
  <2>4. QED
    BY <1>2, <2>2, <2>3, Arrives DEF Promise!WNext
<1>3. CASE Classified(r)
  <2>1. call[r].pc = "classifying"
    BY <1>3 DEF Classified
  <2>2. QED
    BY <1>3, <2>1, Classifies, RouteBegins DEF Promise!WNext
<1>4. CASE Answers(r)
  <2>1. call[r].pc = "asking" /\ call'[r].pc = "done"
    BY <1>4, AnswersSound DEF Answers
  <2>2. Seen(r).st = "walking" /\ Seen(r)' = Promise(r)!Still("done")
    BY <2>1, SeenIsView, Views DEF Promise!Walking
  <2>3. QED
    BY <2>2 DEF Promise!WNext, Promise!Ends
<1>5. CASE \E class \in FailureClass : Fails(r, class)
  BY <1>5, FailsWalk DEF Promise!WNext
<1>6. ASSUME AsksAgain(r) \/ Disconnects(r) PROVE UNCHANGED Seen(r)
  <2> DEFINE c == call[r]
             d == call'[r]
  <2>1. \/ c.pc = "pausing" /\ Set(r, [c EXCEPT !.pc = "asking"])
        \/ Set(r, [c EXCEPT !.gone = TRUE])
    BY <1>6 DEF AsksAgain, Disconnects
  <2>2. \/ c.pc = "pausing" /\ d = [c EXCEPT !.pc = "asking"]
        \/ d = [c EXCEPT !.gone = TRUE]
    BY <2>1, SetCall
  <2>3. c \in Call
    BY CallByCall
  <2> HIDE DEF c, d
  <2>4. /\ d.off = c.off /\ d.hops = c.hops /\ d.i = c.i /\ d.used = c.used /\ d.err = c.err
        /\ d.pc = c.pc \/ (c.pc = "pausing" /\ d.pc = "asking")
    BY <2>2, <2>3 DEF Call
  <2>5. Standing(d) = Standing(c)
    BY <2>3, <2>4, Standings DEF Call, Settled
  <2>6. View(r, d) = View(r, c)
    BY <2>4, <2>5 DEF View, To
  <2>7. QED
    BY <2>6, SeenIsView DEF c, d
<1>7. QED
  BY <1>1, <1>2, <1>3, <1>4, <1>5, <1>6, OwnStep

\* Dispatch implements ChainWalk, call by call: whatever the classifier, records, other
\* calls, probes and clients do, the reachable providers of a chain of the call's own are
\* asked from the first to the last, none more often than the budget allows, and a
\* retryable error ends it only when all have failed it.
THEOREM ChainsAreWalked == Spec => WalksAsPromised
<1>1. Init => \A r \in Request : Promise(r)!WInit
  <2>1. ASSUME Init, NEW r \in Request PROVE Promise(r)!WInit
    <3>1. call[r].pc = "new"
      BY <2>1 DEF Init, At
    <3>2. QED
      BY <3>1, SeenIsView, Views DEF Promise!WInit
  <2>2. QED
    BY <2>1
<1>2. IInv /\ [Next]_vars =>
        [\A r \in Request : Promise(r)!WNext \/ UNCHANGED Seen(r)]_vars
  BY WalkStep
<1>3. QED
  BY <1>1, <1>2, Invariance, PTL DEF Spec, WalksAsPromised
=============================================================================
