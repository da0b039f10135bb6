--------------------------- MODULE OffloadProofs ---------------------------
(***************************************************************************)
(* Theorems about Offload for any calls, turns, endpoints and              *)
(* configurations: the load of the target is counted exactly, verdicts are *)
(* those of the endpoint they name, the provider is the last resort, and   *)
(* the calls of a turn that was opened once stay together.                 *)
(***************************************************************************)
EXTENDS Offload, FiniteSetTheorems, TLAPS

CallRecord ==
  [pc : {"new", "classifying", "asking", "streaming", "forwarding"} \cup Over,
   with : SUBSET Config, seen : SessionRecord, url : Endpoint \cup {NoUrl},
   band : Band \cup {"none"}, wrote : BOOLEAN, fell : BOOLEAN, tries : 0 .. Attempts - 1]

On(x) == x.pc \in {"asking", "streaming"}

\* A call has an attempt left at its provider for as long as it is there.
Tried(c, x) == x.tries + 1 <= AttemptsOf(c)

\* Only the target writes to a client before an answer is whole.
Written(x) == x.wrote => x.pc = "streaming" \/ (x.pc = "forwarding" /\ x.fell)

Calls ==
  /\ call \in [Call -> CallRecord]
  /\ \A c \in Call : Tried(c, call[c]) /\ Written(call[c])

Probes ==
  /\ cfg \in Config /\ edits \in 0 .. MaxEdits
  /\ health \in [url : Endpoint \cup {NoUrl}, ok : BOOLEAN]
  /\ probing \subseteq Endpoint
  /\ answered \in [Endpoint -> BOOLEAN]

Records == turns \in [Turn -> TurnRecord] /\ sessions \in [Session -> SessionRecord]

PInv == Calls /\ Probes /\ Records /\ inFlight \in 0 .. MaxInFlight /\ TargetLoad /\ VerdictIsOfUrl

\* The strengthened invariant says all that the run checks.
LEMMA Strengthens == PInv => IInv
BY DEF PInv, Calls, Probes, Records, IInv, TypeOK, CallRecord

-----------------------------------------------------------------------------
(* What the pure operators return.                                         *)

\* The configurations are records of these fields.
LEMMA ConfigTyped ==
  ASSUME NEW g \in Config
  PROVE  g.url \in Endpoint \cup {NoUrl} /\ g.bands \subseteq Band
BY OffloadAssumption

\* A band is left a band by the classifier.
LEMMA OutcomesAreBands ==
  ASSUME NEW d \in Band, NEW A, NEW b \in Outcomes(d, A)
  PROVE  b \in Band
BY DEF Outcomes, Judged, ApplyDowngrade

\* A session's record stays a record.
LEMMA NextSessionTyped ==
  ASSUME NEW rec \in SessionRecord, NEW turn \in Nat, NEW offloadable
  PROVE  NextSession(rec, turn, offloadable) \in SessionRecord
BY DEF NextSession, SessionRecord

\* Records that are not there have their types.
LEMMA Defaults ==
  NoSession \in SessionRecord /\ NoTurn \in TurnRecord
BY DEF NoSession, SessionRecord, NoTurn, TurnRecord

\* So have a call's at its start and at its end, where nothing is written and nothing tried.
LEMMA FreshTyped ==
  ASSUME NEW c \in Call
  PROVE  Fresh \in CallRecord /\ Tried(c, Fresh) /\ Written(Fresh) /\ Fresh.pc = "new"
<1>1. 0 \in 0 .. Attempts - 1 /\ 1 <= AttemptsOf(c)
  BY OffloadAssumption DEF AttemptsOf
<1>2. QED
  BY <1>1, Defaults DEF Fresh, CallRecord, Tried, Written

\* A call that has ended is a record in order, with its end as its phase.
LEMMA EndedTyped ==
  ASSUME Calls, NEW c \in Call, NEW pc \in Over
  PROVE  /\ Ended(c, pc) \in CallRecord /\ Tried(c, Ended(c, pc)) /\ Written(Ended(c, pc))
         /\ Ended(c, pc).pc = pc
<1>1. call[c].fell \in BOOLEAN
  BY DEF Calls, CallRecord
<1>2. Fresh \in CallRecord /\ Tried(c, Fresh)
  BY FreshTyped
<1>3. Ended(c, pc) = [Fresh EXCEPT !.pc = pc, !.fell = call[c].fell]
  BY DEF Ended
<1>4. Ended(c, pc) \in CallRecord /\ Ended(c, pc).pc = pc /\ Ended(c, pc).tries = Fresh.tries
  BY <1>1, <1>2, <1>3 DEF CallRecord
<1>5. Ended(c, pc).wrote = FALSE
  BY <1>3 DEF Fresh
<1>6. QED
  BY <1>2, <1>4, <1>5 DEF Tried, Written

-----------------------------------------------------------------------------
(* The load of the target.                                                 *)

\* One call changes and enters the target, leaves it, or neither.
LEMMA OneCall ==
  ASSUME PInv, NEW c \in Call, NEW r \in CallRecord, Tried(c, r), Written(r),
         call' = [call EXCEPT ![c] = r],
         \/ (On(r) <=> On(call[c])) /\ inFlight' = inFlight
         \/ On(r) /\ ~On(call[c]) /\ Room(c) /\ inFlight' = inFlight + 1
         \/ ~On(r) /\ On(call[c]) /\ inFlight' = inFlight - 1
  PROVE  Calls' /\ inFlight' \in 0 .. MaxInFlight /\ TargetLoad'
<1> DEFINE rest == OnTarget \ {c}
<1>1. Calls'
  BY DEF PInv, Calls, Tried, AttemptsOf, Written
<1>2. OnTarget \subseteq Call /\ IsFiniteSet(OnTarget) /\ IsFiniteSet(rest)
  BY OffloadAssumption, FS_Subset DEF OnTarget
<1>3. Cardinality(rest) = IF c \in OnTarget THEN Cardinality(OnTarget) - 1 ELSE Cardinality(OnTarget)
  BY <1>2, FS_RemoveElement
<1>4. Cardinality(rest \cup {c}) = Cardinality(rest) + 1
  BY <1>2, FS_AddElement
<1>5. (c \in OnTarget <=> On(call[c])) /\ OnTarget' = IF On(r) THEN rest \cup {c} ELSE rest
  BY DEF OnTarget, On, PInv, Calls
<1>6. Cardinality(OnTarget) \in Nat /\ Cardinality(rest) \in Nat
  BY <1>2, FS_CardinalityType
<1>7. inFlight = Cardinality(OnTarget) /\ inFlight \in 0 .. MaxInFlight /\ MaxInFlight \in Nat
  BY OffloadAssumption DEF PInv, TargetLoad
<1>8. inFlight' = Cardinality(OnTarget') /\ inFlight' \in 0 .. MaxInFlight
  <2>1. CASE (On(r) <=> On(call[c])) /\ inFlight' = inFlight
    BY <2>1, <1>3, <1>4, <1>5, <1>6, <1>7
  <2>2. CASE On(r) /\ ~On(call[c]) /\ Room(c) /\ inFlight' = inFlight + 1
    BY <2>2, <1>3, <1>4, <1>5, <1>6, <1>7 DEF Room
  <2>3. CASE ~On(r) /\ On(call[c]) /\ inFlight' = inFlight - 1
    BY <2>3, <1>3, <1>4, <1>5, <1>6, <1>7
  <2>4. QED
    BY <2>1, <2>2, <2>3
<1>9. QED
  BY <1>1, <1>7, <1>8 DEF TargetLoad

\* So a step that changes one call that way, the records by others, and no probe keeps
\* the invariant.
LEMMA OneCallKeeps ==
  ASSUME PInv, UNCHANGED env, Records',
         NEW c \in Call, NEW r \in CallRecord, Tried(c, r), Written(r),
         call' = [call EXCEPT ![c] = r],
         \/ (On(r) <=> On(call[c])) /\ inFlight' = inFlight
         \/ On(r) /\ ~On(call[c]) /\ Room(c) /\ inFlight' = inFlight + 1
         \/ ~On(r) /\ On(call[c]) /\ inFlight' = inFlight - 1
  PROVE  PInv'
<1>1. Probes' /\ VerdictIsOfUrl'
  BY DEF PInv, Probes, VerdictIsOfUrl, env
<1>2. Calls' /\ inFlight' \in 0 .. MaxInFlight /\ TargetLoad'
  BY OneCall
<1>3. QED
  BY <1>1, <1>2 DEF PInv

-----------------------------------------------------------------------------
(* The decision.                                                           *)

Undecided(c) == call[c].pc \in {"new", "classifying"}

\* A call that is sent to its provider, its choice recorded for the turn or not.
LEMMA ForwardKeeps ==
  ASSUME PInv, UNCHANGED env, UNCHANGED inFlight, Records', NEW c \in Call, Undecided(c),
         \/ call' = [call EXCEPT ![c].pc = "forwarding"]
         \/ call' = [call EXCEPT ![c] = [@ EXCEPT !.pc = "forwarding", !.with = {}, !.seen = NoSession]]
  PROVE  PInv'
<1>1. call[c] \in CallRecord /\ Tried(c, call[c]) /\ ~call[c].wrote
  BY DEF PInv, Calls, Undecided, Written
<1>2. PICK r \in {[call[c] EXCEPT !.pc = "forwarding"],
                  [call[c] EXCEPT !.pc = "forwarding", !.with = {}, !.seen = NoSession]} :
        call' = [call EXCEPT ![c] = r]
  OBVIOUS
<1>3. r \in CallRecord /\ r.pc = "forwarding" /\ r.tries = call[c].tries
  BY <1>1, Defaults DEF CallRecord
<1>4. r.wrote = call[c].wrote
  BY <1>1 DEF CallRecord
<1>5. Tried(c, r) /\ Written(r) /\ ~On(r) /\ ~On(call[c])
  BY <1>1, <1>3, <1>4 DEF Tried, Written, On, Undecided
<1>6. QED
  BY <1>2, <1>3, <1>5, OneCallKeeps

\* What Finish leaves of the turn is a record of it.
LEMMA FinishTyped ==
  ASSUME Records, NEW c \in Call, NEW off \in BOOLEAN, NEW band \in Band \cup {"none"},
         Finish(c, off, band)
  PROVE  turns' \in [Turn -> TurnRecord]
BY OffloadAssumption DEF Records, Finish, TurnRecord

\* A call that stays with the origin keeps the invariant.
LEMMA KeepKeeps ==
  ASSUME PInv, UNCHANGED env, sessions' \in [Session -> SessionRecord],
         NEW c \in Call, Undecided(c), NEW band \in Band \cup {"none"}, Keep(c, band)
  PROVE  PInv'
<1>1. turns' \in [Turn -> TurnRecord]
  BY FinishTyped DEF Keep, PInv
<1>2. QED
  BY <1>1, ForwardKeeps DEF Keep, Records

\* A call that is sent to the target is sent there only when there is room.
LEMMA ServeKeeps ==
  ASSUME PInv, UNCHANGED env, sessions' \in [Session -> SessionRecord],
         NEW c \in Call, Undecided(c), NEW band \in Band \cup {"none"}, Serve(c, band), Room(c)
  PROVE  PInv'
<1> DEFINE r == [call[c] EXCEPT !.pc = "asking", !.with = {}, !.seen = NoSession,
                                !.band = band, !.url = cfg.url]
<1>1. call[c] \in CallRecord /\ Tried(c, call[c]) /\ ~call[c].wrote
  BY DEF PInv, Calls, Undecided, Written
<1>2. cfg.url \in Endpoint \cup {NoUrl}
  BY ConfigTyped DEF PInv, Probes
<1>3. r \in CallRecord /\ r.pc = "asking" /\ r.tries = call[c].tries
  BY <1>1, <1>2, Defaults DEF CallRecord
<1>4. r.wrote = call[c].wrote
  BY <1>1 DEF CallRecord
<1>5. Tried(c, r) /\ Written(r) /\ On(r) /\ ~On(call[c])
  BY <1>1, <1>3, <1>4 DEF Tried, Written, On, Undecided
<1>6. turns' \in [Turn -> TurnRecord]
  BY FinishTyped DEF Serve, PInv
<1>7. call' = [call EXCEPT ![c] = r] /\ inFlight' = inFlight + 1
  BY DEF Serve
<1>8. QED
  BY <1>3, <1>5, <1>6, <1>7, OneCallKeeps DEF Records

\* So do the gates after the classifier, whichever way they send the call.
LEMMA GatesKeeps ==
  ASSUME PInv, UNCHANGED env, sessions' \in [Session -> SessionRecord],
         NEW c \in Call, Undecided(c), NEW g, NEW band \in Band \cup {"none"}, Gates(c, g, band)
  PROVE  PInv'
<1>1. CASE band \in g.bands \cap g.models /\ c \notin Big /\ Room(c)
  BY <1>1, ServeKeeps DEF Gates
<1>2. CASE ~(band \in g.bands \cap g.models /\ c \notin Big /\ Room(c))
  BY <1>2, KeepKeeps DEF Gates
<1>3. QED
  BY <1>1, <1>2

\* The session's record is one after a judged turn.
LEMMA LeaveTyped ==
  ASSUME PInv, NEW c \in Call, NEW g, NEW seen \in SessionRecord, NEW band, Leave(c, g, seen, band)
  PROVE  sessions' \in [Session -> SessionRecord]
<1>1. NextSession(seen, TurnIndex[c], band \in g.bands) \in SessionRecord
  BY OffloadAssumption, NextSessionTyped
<1>2. QED
  BY <1>1 DEF Leave, PInv, Records

\* decide() keeps the invariant on each of its returns.
LEMMA DecideKeeps ==
  ASSUME PInv, UNCHANGED env, NEW c \in Call, call[c].pc = "new", Decide(c, cfg)
  PROVE  PInv'
<1> DEFINE plain == c \notin Chat \/ cfg.url = NoUrl
<1>1. RecordOf(c) \in TurnRecord /\ SeenOf(c) \in SessionRecord /\ cfg \in Config
  BY OffloadAssumption DEF PInv, Records, Probes, RecordOf, SeenOf
<1>2. RecordOf(c).band \in Band \cup {"none"} /\ Declared[c] \in Band
  BY <1>1, OffloadAssumption DEF TurnRecord
<1>3. Undecided(c) /\ sessions \in [Session -> SessionRecord]
  BY DEF Undecided, PInv, Records
<1>4. CASE plain
  <2>1. call' = [call EXCEPT ![c].pc = "forwarding"] /\ UNCHANGED <<turns, sessions, inFlight>>
    BY <1>4 DEF Decide
  <2>2. Records' /\ UNCHANGED inFlight
    BY <2>1 DEF PInv, Records
  <2>3. QED
    BY <1>3, <2>1, <2>2, ForwardKeeps
<1>5. CASE ~plain /\ Stays(c, cfg)
  <2>1. Keep(c, "none") /\ UNCHANGED sessions
    BY <1>5 DEF Decide
  <2>2. QED
    BY <1>3, <2>1, KeepKeeps
<1>6. CASE ~plain /\ ~Stays(c, cfg) /\ InLoop(c)
  <2>1. Gates(c, cfg, RecordOf(c).band) /\ UNCHANGED sessions
    BY <1>6 DEF Decide
  <2>2. QED
    BY <1>2, <1>3, <2>1, GatesKeeps
<1>7. CASE ~plain /\ ~Stays(c, cfg) /\ ~InLoop(c) /\ Asks(c, cfg)
  <2> DEFINE r == [call[c] EXCEPT !.pc = "classifying", !.with = {cfg}, !.seen = SeenOf(c)]
  <2>1. call' = [call EXCEPT ![c] = r] /\ UNCHANGED <<turns, sessions, inFlight>>
    BY <1>7 DEF Decide
  <2>2. call[c] \in CallRecord /\ Tried(c, call[c]) /\ ~call[c].wrote
    BY DEF PInv, Calls, Written
  <2>3. r \in CallRecord /\ r.pc = "classifying" /\ r.tries = call[c].tries
    BY <1>1, <2>2 DEF CallRecord
  <2>4. r.wrote = call[c].wrote
    BY <2>2 DEF CallRecord
  <2>5. Tried(c, r) /\ Written(r) /\ ~On(r) /\ ~On(call[c])
    BY <2>2, <2>3, <2>4 DEF Tried, Written, On
  <2>6. Records'
    BY <2>1 DEF PInv, Records
  <2>7. QED
    BY <2>1, <2>3, <2>5, <2>6, OneCallKeeps
<1>8. CASE ~plain /\ ~Stays(c, cfg) /\ ~InLoop(c) /\ ~Asks(c, cfg)
  <2>1. Gates(c, cfg, Declared[c]) /\ Leave(c, cfg, SeenOf(c), Declared[c])
    BY <1>8 DEF Decide
  <2>2. sessions' \in [Session -> SessionRecord]
    BY <1>1, <2>1, LeaveTyped
  <2>3. QED
    BY <1>2, <1>3, <2>1, <2>2, GatesKeeps
<1>9. QED
  BY <1>4, <1>5, <1>6, <1>7, <1>8

-----------------------------------------------------------------------------
(* The target and the forward.                                             *)

\* A call ends: it leaves the target or its provider.
LEMMA EndKeeps ==
  ASSUME PInv, UNCHANGED <<env, turns, sessions>>, NEW c \in Call, NEW pc \in Over,
         call' = [call EXCEPT ![c] = Ended(c, pc)],
         \/ On(call[c]) /\ Released
         \/ ~On(call[c]) /\ UNCHANGED inFlight
  PROVE  PInv'
<1>1. /\ Ended(c, pc) \in CallRecord /\ Tried(c, Ended(c, pc)) /\ Written(Ended(c, pc))
      /\ ~On(Ended(c, pc))
  BY EndedTyped DEF PInv, On, Over
<1>2. Records'
  BY DEF PInv, Records
<1>3. QED
  BY <1>1, <1>2, OneCallKeeps DEF Released

\* The target failed a call it had.
LEMMA FallBackKeeps ==
  ASSUME PInv, UNCHANGED <<env, sessions>>, NEW c \in Call, On(call[c]), FallBack(c)
  PROVE  PInv'
<1> DEFINE r == [call[c] EXCEPT !.pc = "forwarding", !.url = NoUrl, !.fell = TRUE]
<1>1. call[c] \in CallRecord /\ Tried(c, call[c])
  BY DEF PInv, Calls
<1>2. r \in CallRecord /\ r.pc = "forwarding" /\ r.tries = call[c].tries
  BY <1>1 DEF CallRecord
<1>3. r.fell
  BY <1>1 DEF CallRecord
<1>4. Tried(c, r) /\ Written(r) /\ ~On(r)
  BY <1>1, <1>2, <1>3 DEF Tried, Written, On
<1>5. call[c].band \in Band \cup {"none"}
  BY <1>1 DEF CallRecord
<1>6. Records'
  BY <1>5, OffloadAssumption DEF FallBack, PInv, Records, TurnRecord
<1>7. call' = [call EXCEPT ![c] = r] /\ inFlight' = inFlight - 1
  BY DEF FallBack, Released
<1>8. QED
  BY <1>2, <1>4, <1>6, <1>7, OneCallKeeps

\* The first bytes of its stream are with the client.
LEMMA StreamsKeeps ==
  ASSUME PInv, NEW c \in Call, TargetStreams(c)
  PROVE  PInv'
<1> DEFINE r == [call[c] EXCEPT !.pc = "streaming", !.wrote = TRUE]
<1>1. call[c] \in CallRecord /\ Tried(c, call[c])
  BY DEF PInv, Calls
<1>2. r \in CallRecord /\ r.pc = "streaming" /\ r.tries = call[c].tries
  BY <1>1 DEF CallRecord
<1>3. Tried(c, r) /\ Written(r) /\ On(r) /\ On(call[c])
  BY <1>1, <1>2 DEF Tried, Written, On, TargetStreams
<1>4. Records'
  BY DEF TargetStreams, PInv, Records
<1>5. QED
  BY <1>2, <1>3, <1>4, OneCallKeeps DEF TargetStreams

\* The provider fails an attempt: there is another, or the call ends.
LEMMA ProviderFailsKeeps ==
  ASSUME PInv, NEW c \in Call, ProviderFails(c)
  PROVE  PInv'
<1>1. ~On(call[c]) /\ UNCHANGED <<env, turns, sessions, inFlight>>
  BY DEF ProviderFails, On
<1>2. CASE Retries(c)
  <2> DEFINE r == [call[c] EXCEPT !.tries = call[c].tries + 1]
  <2>1. call[c] \in CallRecord /\ Written(call[c])
    BY DEF PInv, Calls
  <2>2. call[c].tries + 1 < AttemptsOf(c) /\ AttemptsOf(c) <= Attempts /\ AttemptsOf(c) \in Nat
    BY <1>2, OffloadAssumption DEF Retries, AttemptsOf
  <2>3. r \in CallRecord /\ r.tries = call[c].tries + 1 /\ r.pc = call[c].pc
    BY <2>1, <2>2, OffloadAssumption DEF CallRecord
  <2>4. r.wrote = call[c].wrote /\ r.fell = call[c].fell
    BY <2>1 DEF CallRecord
  <2>5. Tried(c, r)
    BY <2>1, <2>2, <2>3 DEF Tried, CallRecord
  <2>6. Written(r) /\ ~On(r)
    BY <1>1, <2>1, <2>3, <2>4 DEF Written, On
  <2>7. Records'
    BY <1>1 DEF PInv, Records
  <2>8. call' = [call EXCEPT ![c] = r]
    BY <1>2 DEF ProviderFails
  <2>9. QED
    BY <1>1, <2>3, <2>5, <2>6, <2>7, <2>8, OneCallKeeps
<1>3. CASE ~Retries(c)
  BY <1>1, <1>3, EndKeeps DEF ProviderFails, Over
<1>4. QED
  BY <1>2, <1>3

-----------------------------------------------------------------------------
(* The probes and the user.                                                *)

\* An edit, a probe and a record that expires leave the calls alone.
LEMMA AroundKeeps ==
  ASSUME PInv, UNCHANGED <<call, inFlight>>, Probes', Records', VerdictIsOfUrl'
  PROVE  PInv'
BY DEF PInv, Calls, Tried, AttemptsOf, Written, TargetLoad, OnTarget

\* An answer and the verdict of it are stored together.
LEMMA ProbeEndsKeeps ==
  ASSUME PInv, NEW u \in Endpoint, ProbeEnds(u)
  PROVE  PInv'
<1>1. PICK ok \in BOOLEAN : /\ health' = [url |-> u, ok |-> ok]
                            /\ answered' = [answered EXCEPT ![u] = ok]
  BY DEF ProbeEnds, ProbedUrl
<1>2. Probes'
  BY <1>1 DEF ProbeEnds, PInv, Probes
<1>3. VerdictIsOfUrl'
  BY <1>1, OffloadAssumption DEF VerdictIsOfUrl, PInv, Probes
<1>4. QED
  BY <1>2, <1>3, AroundKeeps DEF ProbeEnds, PInv, Records

-----------------------------------------------------------------------------
(* The theorems.                                                           *)

\* The start has no call under way.
LEMMA PInvInit == Init => PInv
<1> SUFFICES ASSUME Init PROVE PInv
  OBVIOUS
<1>1. Calls
  BY FreshTyped DEF Init, Calls
<1>2. Probes /\ Records /\ VerdictIsOfUrl
  BY OffloadAssumption, Defaults DEF Init, Probes, Records, VerdictIsOfUrl
<1>3. OnTarget = {}
  BY DEF Init, OnTarget, Fresh
<1>4. inFlight \in 0 .. MaxInFlight /\ TargetLoad
  BY <1>3, OffloadAssumption, FS_EmptySet DEF Init, TargetLoad
<1>5. QED
  BY <1>1, <1>2, <1>4 DEF PInv

\* Every step keeps the invariant.
LEMMA PInvNext == PInv /\ [Next]_vars => PInv'
<1> SUFFICES ASSUME PInv, [Next]_vars PROVE PInv'
  OBVIOUS
<1>1. ASSUME NEW c \in Call, Arrive(c) PROVE PInv'
  <2>1. CASE c \in Tapped /\ cfg.on /\ Decide(c, cfg)
    BY <1>1, <2>1, DecideKeeps DEF Arrive
  <2>2. CASE call' = [call EXCEPT ![c].pc = "forwarding"] /\ UNCHANGED <<turns, sessions, inFlight>>
    BY <1>1, <2>2, ForwardKeeps DEF Arrive, Undecided, PInv, Records
  <2>3. QED
    BY <1>1, <2>1, <2>2 DEF Arrive
<1>2. ASSUME NEW c \in Call, Classified(c) PROVE PInv'
  <2>1. PICK g \in call[c].with : \E band \in Outcomes(Declared[c], Allowed(g)) :
          Leave(c, g, call[c].seen, band) /\ Gates(c, g, band)
    BY <1>2 DEF Classified
  <2>2. PICK band \in Outcomes(Declared[c], Allowed(g)) :
          Leave(c, g, call[c].seen, band) /\ Gates(c, g, band)
    BY <2>1
  <2>3. band \in Band
    BY OffloadAssumption, OutcomesAreBands
  <2>4. call[c].seen \in SessionRecord
    BY DEF PInv, Calls, CallRecord
  <2>5. sessions' \in [Session -> SessionRecord]
    BY <2>2, <2>4, LeaveTyped
  <2>6. QED
    BY <1>2, <2>2, <2>3, <2>5, GatesKeeps DEF Classified, Undecided
<1>3. ASSUME NEW c \in Call, TargetFails(c) \/ StreamBreaks(c) PROVE PInv'
  BY <1>3, FallBackKeeps DEF TargetFails, StreamBreaks, On
<1>4. ASSUME NEW c \in Call, TargetAnswers(c) \/ StreamEnds(c) PROVE PInv'
  <2>1. call' = [call EXCEPT ![c] = Ended(c, "done")] /\ Released /\ On(call[c])
        /\ UNCHANGED <<env, turns, sessions>>
    BY <1>4 DEF TargetAnswers, StreamEnds, Served, On
  <2>2. QED
    BY <2>1, EndKeeps DEF Over
<1>5. ASSUME NEW c \in Call, TargetStreams(c) PROVE PInv'
  BY <1>5, StreamsKeeps
<1>6. ASSUME NEW c \in Call, ProviderAnswers(c) PROVE PInv'
  BY <1>6, EndKeeps DEF ProviderAnswers, On, Over
<1>7. ASSUME NEW c \in Call, ProviderFails(c) PROVE PInv'
  BY <1>7, ProviderFailsKeeps
<1>8. CASE Edit
  <2>1. Probes' /\ Records' /\ VerdictIsOfUrl'
    BY <1>8, OffloadAssumption DEF Edit, PInv, Probes, Records, VerdictIsOfUrl
  <2>2. QED
    BY <1>8, <2>1, AroundKeeps DEF Edit
<1>9. CASE ProbeStarts
  <2>1. cfg.url \in Endpoint \cup {NoUrl}
    BY ConfigTyped DEF PInv, Probes
  <2>2. Probes'
    <3>1. UNCHANGED <<cfg, edits, answered>>
      BY <1>9 DEF ProbeStarts
    <3>2. CASE cfg.url = NoUrl /\ health' = [url |-> NoUrl, ok |-> FALSE] /\ UNCHANGED probing
      BY <3>1, <3>2 DEF PInv, Probes
    <3>3. CASE cfg.url # NoUrl /\ probing' = probing \cup {cfg.url} /\ UNCHANGED health
      BY <2>1, <3>1, <3>3 DEF PInv, Probes
    <3>4. QED
      BY <1>9, <3>2, <3>3 DEF ProbeStarts
  <2>3. Records' /\ VerdictIsOfUrl'
    BY <1>9 DEF ProbeStarts, PInv, Records, VerdictIsOfUrl
  <2>4. QED
    BY <1>9, <2>2, <2>3, AroundKeeps DEF ProbeStarts
<1>10. ASSUME NEW u \in Endpoint, ProbeEnds(u) PROVE PInv'
  BY <1>10, ProbeEndsKeeps
<1>11. CASE Forgets
  <2>1. Probes' /\ Records' /\ VerdictIsOfUrl'
    BY <1>11, Defaults DEF Forgets, env, PInv, Probes, Records, VerdictIsOfUrl
  <2>2. QED
    BY <1>11, <2>1, AroundKeeps DEF Forgets
<1>12. CASE UNCHANGED vars
  BY <1>12, AroundKeeps DEF vars, env, PInv, Probes, Records, VerdictIsOfUrl
<1>13. QED
  BY <1>1, <1>2, <1>3, <1>4, <1>5, <1>6, <1>7, <1>8, <1>9, <1>10, <1>11, <1>12
  DEF Next, Proceeds

\* For any number of calls, endpoints and edits: the counter behind maxInFlight is the
\* number of calls the target serves and never above its limit, and an endpoint is taken
\* for reachable only on the word of its own last probe.
THEOREM LoadAndVerdicts == Spec => []IInv
<1>1. QED
  BY PInvInit, PInvNext, Strengthens, PTL DEF Spec

-----------------------------------------------------------------------------
(* The provider is the last resort.                                        *)

\* A call that a step leaves as it was, or sends somewhere, has not ended by it.
LEMMA Elsewhere ==
  ASSUME PInv, NEW c \in Call, NEW d \in Call, NEW r, r.pc \notin {"failed", "broken"},
         call' = [call EXCEPT ![d] = r],
         call'[c].pc \in {"failed", "broken"}
  PROVE  call'[c].pc = call[c].pc
BY DEF PInv, Calls

\* A step that leaves a call failed is its provider's last attempt, and one that leaves
\* its answer broken off is of a call the target had begun to answer.
LEMMA LastResortStep ==
  ASSUME PInv, Next, NEW c \in Call, call'[c].pc \in {"failed", "broken"},
         call'[c].pc # call[c].pc
  PROVE  /\ call'[c].pc = "failed" => call[c].tries + 1 = AttemptsOf(c)
         /\ call'[c].pc = "broken" => call[c].fell
<1> DEFINE goal == /\ call'[c].pc = "failed" => call[c].tries + 1 = AttemptsOf(c)
                   /\ call'[c].pc = "broken" => call[c].fell
<1>1. ASSUME NEW d \in Call, NEW r, r.pc \notin {"failed", "broken"},
             call' = [call EXCEPT ![d] = r]
      PROVE  FALSE
  BY <1>1, Elsewhere
<1>2. ASSUME UNCHANGED call PROVE FALSE
  BY <1>2
<1>3. \A d \in Call : call[d] \in CallRecord
  BY DEF PInv, Calls
<1>4. ASSUME NEW d \in Call, call' = [call EXCEPT ![d].pc = "forwarding"] PROVE FALSE
  <2>1. [call[d] EXCEPT !.pc = "forwarding"].pc = "forwarding"
    BY <1>3 DEF CallRecord
  <2>2. QED
    BY <1>1, <1>4, <2>1
<1>5. ASSUME NEW d \in Call, NEW g, NEW band, Gates(d, g, band) PROVE FALSE
  <2>1. CASE Keep(d, band)
    <3>1. [call[d] EXCEPT !.pc = "forwarding", !.with = {}, !.seen = NoSession].pc = "forwarding"
      BY <1>3 DEF CallRecord
    <3>2. QED
      BY <1>1, <2>1, <3>1 DEF Keep
  <2>2. CASE Serve(d, band)
    <3>1. [call[d] EXCEPT !.pc = "asking", !.with = {}, !.seen = NoSession,
                          !.band = band, !.url = cfg.url].pc = "asking"
      BY <1>3 DEF CallRecord
    <3>2. QED
      BY <1>1, <2>2, <3>1 DEF Serve
  <2>3. QED
    BY <1>5, <2>1, <2>2 DEF Gates
<1>6. ASSUME NEW d \in Call, Arrive(d) PROVE FALSE
  <2>1. CASE Keep(d, "none")
    <3>1. [call[d] EXCEPT !.pc = "forwarding", !.with = {}, !.seen = NoSession].pc = "forwarding"
      BY <1>3 DEF CallRecord
    <3>2. QED
      BY <1>1, <2>1, <3>1 DEF Keep
  <2>2. CASE call' = [call EXCEPT ![d] = [@ EXCEPT !.pc = "classifying", !.with = {cfg}, !.seen = SeenOf(d)]]
    <3>1. [call[d] EXCEPT !.pc = "classifying", !.with = {cfg}, !.seen = SeenOf(d)].pc = "classifying"
      BY <1>3 DEF CallRecord
    <3>2. QED
      BY <1>1, <2>2, <3>1
  <2>3. CASE call' = [call EXCEPT ![d].pc = "forwarding"]
    BY <1>4, <2>3
  <2>4. CASE \E band : Gates(d, cfg, band)
    BY <1>5, <2>4
  <2>5. QED
    BY <1>6, <2>1, <2>2, <2>3, <2>4 DEF Arrive, Decide
<1>7. ASSUME NEW d \in Call, Classified(d) PROVE FALSE
  BY <1>5, <1>7 DEF Classified
<1>8. ASSUME NEW d \in Call, FallBack(d) PROVE FALSE
  <2>1. [call[d] EXCEPT !.pc = "forwarding", !.url = NoUrl, !.fell = TRUE].pc = "forwarding"
    BY <1>3 DEF CallRecord
  <2>2. QED
    BY <1>1, <1>8, <2>1 DEF FallBack
<1>9. ASSUME NEW d \in Call, Served(d) PROVE FALSE
  <2>1. Ended(d, "done").pc = "done"
    BY EndedTyped DEF PInv, Over
  <2>2. QED
    BY <1>1, <1>9, <2>1 DEF Served
<1>10. ASSUME NEW d \in Call, TargetStreams(d) PROVE FALSE
  <2>1. [call[d] EXCEPT !.pc = "streaming", !.wrote = TRUE].pc = "streaming"
    BY <1>3 DEF CallRecord
  <2>2. QED
    BY <1>1, <1>10, <2>1 DEF TargetStreams
<1>11. ASSUME NEW d \in Call, NEW pc \in Over, call' = [call EXCEPT ![d] = Ended(d, pc)]
       PROVE  c = d /\ call'[c].pc = pc
  <2>1. Ended(d, pc).pc = pc
    BY EndedTyped DEF PInv
  <2>2. QED
    BY <1>11, <2>1 DEF PInv, Calls
<1>12. ASSUME NEW d \in Call, ProviderAnswers(d) PROVE goal
  <2>1. CASE call[d].wrote
    <3>1. c = d /\ call'[c].pc = "broken"
      BY <1>11, <1>12, <2>1 DEF ProviderAnswers, Over
    <3>2. call[c].fell
      BY <1>12, <2>1, <3>1 DEF ProviderAnswers, PInv, Calls, Written
    <3>3. QED
      BY <3>1, <3>2
  <2>2. CASE ~call[d].wrote
    BY <1>11, <1>12, <2>2 DEF ProviderAnswers, Over
  <2>3. QED
    BY <2>1, <2>2
<1>13. ASSUME NEW d \in Call, ProviderFails(d) PROVE goal
  <2>1. CASE Retries(d)
    <3> DEFINE r == [call[d] EXCEPT !.tries = call[d].tries + 1]
    <3>1. r.pc = "forwarding"
      BY <1>3, <1>13 DEF CallRecord, ProviderFails
    <3>2. call' = [call EXCEPT ![d] = r]
      BY <1>13, <2>1 DEF ProviderFails
    <3>3. QED
      BY <1>1, <3>1, <3>2
  <2>2. CASE ~Retries(d) /\ call[d].wrote
    <3>1. c = d /\ call'[c].pc = "broken"
      BY <1>11, <1>13, <2>2 DEF ProviderFails, Over
    <3>2. call[c].fell
      BY <1>13, <2>2, <3>1 DEF ProviderFails, PInv, Calls, Written
    <3>3. QED
      BY <3>1, <3>2
  <2>3. CASE ~Retries(d) /\ ~call[d].wrote
    <3>1. c = d /\ call'[c].pc = "failed"
      BY <1>11, <1>13, <2>3 DEF ProviderFails, Over
    <3>2. call[c].tries + 1 = AttemptsOf(c)
      BY <1>3, <2>3, <3>1, OffloadAssumption DEF Retries, PInv, Calls, Tried, CallRecord, AttemptsOf
    <3>3. QED
      BY <3>1, <3>2
  <2>4. QED
    BY <2>1, <2>2, <2>3
<1>14. QED
  BY <1>2, <1>6, <1>7, <1>8, <1>9, <1>10, <1>12, <1>13
  DEF Next, Proceeds, TargetFails, TargetAnswers, StreamEnds, StreamBreaks, Edit, ProbeStarts,
      ProbeEnds, Forgets

\* Nothing the target does alone leaves a client with an error: a call fails with its
\* provider's last attempt, and breaks off only where the target had begun to answer.
THEOREM LastResort == Spec => ProviderIsLastResort
<1>1. PInv /\ [Next]_vars =>
        [\A c \in Call :
           /\ call[c].pc # "failed" /\ call'[c].pc = "failed" => call[c].tries + 1 = AttemptsOf(c)
           /\ call[c].pc # "broken" /\ call'[c].pc = "broken" => call[c].fell]_vars
  BY LastResortStep
<1>2. QED
  BY <1>1, PInvInit, PInvNext, PTL DEF Spec, ProviderIsLastResort

-----------------------------------------------------------------------------
(* A turn stays together.                                                  *)

\* The first call of a turn has been sent somewhere.
Opened(t) == \A o \in Call : TurnOf[o] = t /\ ~InLoop(o) => ~Undecided(o)

\* The record of a turn allows the target, or a call of it is there or was, only once its
\* first call has been decided; and one that failed there has spoilt the record for good.
Followed(t) ==
  /\ turns[t].off => Opened(t)
  /\ \A d \in Call : TurnOf[d] = t /\ (On(call[d]) \/ call[d].fell) => Opened(t)
  /\ \A d \in Call : TurnOf[d] = t /\ call[d].fell => ~turns[t].off

TurnInv ==
  /\ \A c \in Call : call[c].pc = "classifying" => ~InLoop(c)
  /\ \A t \in Turn : OpenedOnce(t) => Followed(t)

\* One call changes, and the record of its turn: it goes back to no decision, a record
\* allows the target only if it did or the turn's first call is decided by the step, a
\* call goes there only by such a record, and a failure spoils it.
LEMMA OneTurn ==
  ASSUME PInv, TurnInv, NEW c \in Call, NEW r, NEW rec,
         call' = [call EXCEPT ![c] = r], turns' = [turns EXCEPT ![TurnOf[c]] = rec],
         r.pc \in {"new", "classifying"} => Undecided(c),
         r.pc = "classifying" => ~InLoop(c),
         rec.off => \/ turns[TurnOf[c]].off
                    \/ ~InLoop(c) /\ Undecided(c) /\ r.pc \notin {"new", "classifying"},
         On(r) => On(call[c]) \/ turns[TurnOf[c]].off \/ (~InLoop(c) /\ Undecided(c)),
         r.fell => call[c].fell \/ (On(call[c]) /\ ~rec.off)
  PROVE  TurnInv'
<1> DEFINE t == TurnOf[c]
<1>1. /\ call'[c] = r /\ \A d \in Call \ {c} : call'[d] = call[d]
      /\ turns'[t] = rec /\ \A u \in Turn \ {t} : turns'[u] = turns[u]
      /\ t \in Turn
  BY OffloadAssumption DEF PInv, Calls, Records
<1>2. \A d \in Call : call'[d].pc = "classifying" => ~InLoop(d)
  BY <1>1 DEF TurnInv
<1>3. \A o \in Call : Undecided(o)' => Undecided(o)
  BY <1>1 DEF Undecided
<1>4. \A u \in Turn : Opened(u) => Opened(u)'
  BY <1>3 DEF Opened
<1>5. ASSUME NEW u \in Turn, u # t, Followed(u) PROVE Followed(u)'
  <2>1. \A d \in Call : TurnOf[d] = u => call'[d] = call[d]
    BY <1>1, <1>5
  <2>2. turns'[u] = turns[u]
    BY <1>1, <1>5
  <2>3. (turns[u].off => Opened(u))'
    BY <1>4, <1>5, <2>2 DEF Followed
  <2>4. (\A d \in Call : TurnOf[d] = u /\ (On(call[d]) \/ call[d].fell) => Opened(u))'
    BY <1>4, <1>5, <2>1 DEF Followed
  <2>5. (\A d \in Call : TurnOf[d] = u /\ call[d].fell => ~turns[u].off)'
    BY <1>5, <2>1, <2>2 DEF Followed
  <2> QED BY <2>3, <2>4, <2>5 DEF Followed
<1>6. ASSUME OpenedOnce(t), Followed(t) PROVE Followed(t)'
  <2>1. ASSUME ~InLoop(c), Undecided(c) PROVE ~Opened(t) /\ (r.pc \notin {"new", "classifying"} => Opened(t)')
    <3>1. \A o \in Call : TurnOf[o] = t /\ ~InLoop(o) => o = c
      BY <1>6, <2>1 DEF OpenedOnce
    <3>2. ~Opened(t)
      BY <2>1 DEF Opened
    <3>3. r.pc \notin {"new", "classifying"} => ~Undecided(c)'
      BY <1>1 DEF Undecided
    <3> QED BY <3>1, <3>2, <3>3 DEF Opened
  <2>2. On(r) => r.pc \notin {"new", "classifying"}
    BY DEF On
  <2>3. rec.off => Opened(t)'
    BY <1>1, <1>4, <1>6, <2>1 DEF Followed
  <2>4. ASSUME NEW d \in Call, TurnOf[d] = t, (On(call[d]) \/ call[d].fell)' PROVE Opened(t)'
    <3>1. CASE d # c
      BY <1>1, <1>4, <1>6, <2>4, <3>1 DEF Followed
    <3>2. CASE d = c
      BY <1>1, <1>4, <1>6, <2>1, <2>2, <2>4, <3>2 DEF Followed
    <3> QED BY <3>1, <3>2
  <2>5. ASSUME NEW d \in Call, TurnOf[d] = t, call'[d].fell PROVE ~rec.off
    <3>1. CASE call[d].fell
      <4>1. ~turns[t].off /\ Opened(t)
        BY <1>6, <2>5, <3>1 DEF Followed
      <4> QED BY <2>1, <4>1
    <3>2. CASE ~call[d].fell
      BY <1>1, <2>5, <3>2
    <3> QED BY <3>1, <3>2
  <2> QED BY <1>1, <2>3, <2>4, <2>5 DEF Followed
<1>7. \A u \in Turn : OpenedOnce(u)' <=> OpenedOnce(u)
  BY DEF OpenedOnce, InLoop
<1> HIDE DEF t
<1>8. \A u \in Turn : OpenedOnce(u)' => Followed(u)'
  BY <1>5, <1>6, <1>7 DEF TurnInv
<1> QED BY <1>2, <1>8 DEF TurnInv, InLoop

\* So a step that changes one call and no record keeps it, when the call goes on from
\* where it was.
LEMMA OneCallTurn ==
  ASSUME PInv, TurnInv, UNCHANGED turns, NEW c \in Call, NEW r,
         call' = [call EXCEPT ![c] = r],
         r.pc \notin {"new", "classifying"}, On(r) => On(call[c]), r.fell => call[c].fell
  PROVE  TurnInv'
<1>1. turns' = [turns EXCEPT ![TurnOf[c]] = turns[TurnOf[c]]]
  BY OffloadAssumption DEF PInv, Records
<1> QED BY <1>1, OneTurn

\* A call that is sent to its provider or to the target by the gates.
LEMMA GatesTurn ==
  ASSUME PInv, TurnInv, NEW c \in Call, Undecided(c), NEW g, NEW band, Gates(c, g, band),
         InLoop(c) => turns[TurnOf[c]].off
  PROVE  TurnInv'
<1>1. call[c] \in CallRecord /\ turns \in [Turn -> TurnRecord]
  BY DEF PInv, Calls, Records
<1>2. CASE Keep(c, band)
  <2> DEFINE r == [call[c] EXCEPT !.pc = "forwarding", !.with = {}, !.seen = NoSession]
             rec == IF InLoop(c) THEN turns[TurnOf[c]] ELSE [off |-> FALSE, band |-> band]
  <2>1. r.pc = "forwarding" /\ r.fell = call[c].fell /\ call' = [call EXCEPT ![c] = r]
    BY <1>1, <1>2 DEF CallRecord, Keep
  <2>2. turns' = [turns EXCEPT ![TurnOf[c]] = rec] /\ (rec.off => turns[TurnOf[c]].off)
    BY <1>1, <1>2, OffloadAssumption DEF Keep, Finish
  <2> HIDE DEF r, rec
  <2> QED BY <2>1, <2>2, OneTurn DEF On
<1>3. CASE Serve(c, band)
  <2> DEFINE r == [call[c] EXCEPT !.pc = "asking", !.with = {}, !.seen = NoSession,
                                  !.band = band, !.url = cfg.url]
             rec == IF InLoop(c) THEN turns[TurnOf[c]] ELSE [off |-> TRUE, band |-> band]
  <2>1. r.pc = "asking" /\ r.fell = call[c].fell /\ call' = [call EXCEPT ![c] = r]
    BY <1>1, <1>3 DEF CallRecord, Serve
  <2>2. turns' = [turns EXCEPT ![TurnOf[c]] = rec] /\ (rec.off => turns[TurnOf[c]].off \/ ~InLoop(c))
    BY <1>1, <1>3, OffloadAssumption DEF Serve, Finish
  <2> HIDE DEF r, rec
  <2> QED BY <2>1, <2>2, OneTurn DEF On
<1> QED BY <1>2, <1>3 DEF Gates

\* decide() keeps it: a call of the loop passes only on the record of its turn.
LEMMA DecideTurn ==
  ASSUME PInv, TurnInv, NEW c \in Call, call[c].pc = "new", Decide(c, cfg)
  PROVE  TurnInv'
<1> DEFINE plain == c \notin Chat \/ cfg.url = NoUrl
<1>1. call[c] \in CallRecord /\ Undecided(c)
  BY DEF PInv, Calls, Undecided
<1>2. CASE plain
  <2> DEFINE r == [call[c] EXCEPT !.pc = "forwarding"]
  <2>1. r.pc = "forwarding" /\ r.fell = call[c].fell /\ call' = [call EXCEPT ![c] = r] /\ UNCHANGED turns
    BY <1>1, <1>2 DEF CallRecord, Decide
  <2> HIDE DEF r
  <2> QED BY <2>1, OneCallTurn DEF On
<1>3. CASE ~plain /\ Stays(c, cfg)
  <2> DEFINE r == [call[c] EXCEPT !.pc = "forwarding", !.with = {}, !.seen = NoSession]
             rec == IF InLoop(c) THEN turns[TurnOf[c]] ELSE [off |-> FALSE, band |-> "none"]
  <2>1. Keep(c, "none")
    BY <1>3 DEF Decide
  <2>2. r.pc = "forwarding" /\ r.fell = call[c].fell /\ call' = [call EXCEPT ![c] = r]
    BY <1>1, <2>1 DEF CallRecord, Keep
  <2>3. turns' = [turns EXCEPT ![TurnOf[c]] = rec] /\ (rec.off => turns[TurnOf[c]].off)
    BY <2>1, OffloadAssumption DEF Keep, Finish, PInv, Records
  <2> HIDE DEF r, rec
  <2> QED BY <2>2, <2>3, OneTurn DEF On
<1>4. CASE ~plain /\ ~Stays(c, cfg) /\ InLoop(c)
  <2>1. Gates(c, cfg, RecordOf(c).band) /\ turns[TurnOf[c]].off
    BY <1>4 DEF Decide, Stays, RecordOf
  <2> QED BY <1>1, <2>1, GatesTurn
<1>5. CASE ~plain /\ ~Stays(c, cfg) /\ ~InLoop(c) /\ Asks(c, cfg)
  <2> DEFINE r == [call[c] EXCEPT !.pc = "classifying", !.with = {cfg}, !.seen = SeenOf(c)]
  <2>1. call' = [call EXCEPT ![c] = r] /\ UNCHANGED turns
    BY <1>5 DEF Decide
  <2>2. r.pc = "classifying" /\ r.fell = call[c].fell
    BY <1>1 DEF CallRecord
  <2>3. turns' = [turns EXCEPT ![TurnOf[c]] = turns[TurnOf[c]]]
    BY <2>1, OffloadAssumption DEF PInv, Records
  <2> HIDE DEF r
  <2> QED BY <1>1, <1>5, <2>1, <2>2, <2>3, OneTurn DEF On
<1>6. CASE ~plain /\ ~Stays(c, cfg) /\ ~InLoop(c) /\ ~Asks(c, cfg)
  <2>1. Gates(c, cfg, Declared[c])
    BY <1>6 DEF Decide
  <2> QED BY <1>1, <1>6, <2>1, GatesTurn
<1> QED BY <1>2, <1>3, <1>4, <1>5, <1>6

\* The target failed a call it had: the record no longer allows it.
LEMMA FallBackTurn ==
  ASSUME PInv, TurnInv, NEW c \in Call, On(call[c]), FallBack(c)
  PROVE  TurnInv'
<1> DEFINE r == [call[c] EXCEPT !.pc = "forwarding", !.url = NoUrl, !.fell = TRUE]
           rec == [off |-> FALSE, band |-> call[c].band]
<1>1. r.pc = "forwarding" /\ ~rec.off
  BY DEF PInv, Calls, CallRecord
<1>2. call' = [call EXCEPT ![c] = r] /\ turns' = [turns EXCEPT ![TurnOf[c]] = rec]
  BY DEF FallBack
<1> HIDE DEF r, rec
<1> QED BY <1>1, <1>2, OneTurn DEF On

\* A step that leaves the calls alone, and the records but for one that expires.
LEMMA RestTurn ==
  ASSUME PInv, TurnInv, UNCHANGED call,
         \A t \in Turn : turns'[t] = turns[t] \/ turns'[t] = NoTurn
  PROVE  TurnInv'
<1>1. \A t \in Turn : turns'[t].off => turns[t].off
  BY DEF NoTurn
<1>2. \A t \in Turn : Opened(t)' <=> Opened(t)
  BY DEF Opened, Undecided, InLoop
<1>3. ASSUME NEW t \in Turn, Followed(t) PROVE Followed(t)'
  <2>1. (turns[t].off => Opened(t))'
    BY <1>1, <1>2, <1>3 DEF Followed
  <2>2. (\A d \in Call : TurnOf[d] = t /\ (On(call[d]) \/ call[d].fell) => Opened(t))'
    BY <1>2, <1>3 DEF Followed
  <2>3. (\A d \in Call : TurnOf[d] = t /\ call[d].fell => ~turns[t].off)'
    BY <1>1, <1>3 DEF Followed
  <2> QED BY <2>1, <2>2, <2>3 DEF Followed
<1>4. \A t \in Turn : OpenedOnce(t)' <=> OpenedOnce(t)
  BY DEF OpenedOnce, InLoop
<1> QED BY <1>3, <1>4 DEF TurnInv, InLoop

\* At first nothing is decided and no record allows the target.
LEMMA TurnInvInit == Init => TurnInv
<1> SUFFICES ASSUME Init PROVE TurnInv
  OBVIOUS
<1>1. \A c \in Call : call[c].pc = "new" /\ ~On(call[c]) /\ ~call[c].fell
  BY DEF Init, Fresh, On
<1>2. \A t \in Turn : ~turns[t].off
  BY DEF Init, NoTurn
<1> QED BY <1>1, <1>2 DEF TurnInv, Followed

\* Every step keeps it.
LEMMA TurnInvNext == PInv /\ TurnInv /\ [Next]_vars => TurnInv'
<1> SUFFICES ASSUME PInv, TurnInv, [Next]_vars PROVE TurnInv'
  OBVIOUS
<1>0. \A c \in Call : call[c] \in CallRecord
  BY DEF PInv, Calls
<1>1. ASSUME NEW c \in Call, Arrive(c) PROVE TurnInv'
  <2>1. CASE c \in Tapped /\ cfg.on /\ Decide(c, cfg)
    BY <1>1, <2>1, DecideTurn DEF Arrive
  <2>2. CASE call' = [call EXCEPT ![c].pc = "forwarding"] /\ UNCHANGED <<turns, sessions, inFlight>>
    <3> DEFINE r == [call[c] EXCEPT !.pc = "forwarding"]
    <3>1. r.pc = "forwarding" /\ r.fell = call[c].fell /\ call' = [call EXCEPT ![c] = r]
      BY <1>0, <2>2 DEF CallRecord
    <3> HIDE DEF r
    <3> QED BY <2>2, <3>1, OneCallTurn DEF On
  <2> QED BY <1>1, <2>1, <2>2 DEF Arrive
<1>2. ASSUME NEW c \in Call, Classified(c) PROVE TurnInv'
  <2>1. PICK g \in call[c].with : \E band \in Outcomes(Declared[c], Allowed(g)) : Gates(c, g, band)
    BY <1>2 DEF Classified
  <2>2. ~InLoop(c) /\ Undecided(c)
    BY <1>2 DEF Classified, TurnInv, Undecided
  <2> QED BY <2>1, <2>2, GatesTurn
<1>3. ASSUME NEW c \in Call, TargetFails(c) \/ StreamBreaks(c) PROVE TurnInv'
  BY <1>3, FallBackTurn DEF TargetFails, StreamBreaks, On
<1>4. ASSUME NEW c \in Call, NEW pc \in Over, call' = [call EXCEPT ![c] = Ended(c, pc)], UNCHANGED turns
      PROVE  TurnInv'
  <2>1. Ended(c, pc).pc = pc /\ Ended(c, pc).fell = call[c].fell
    <3>1. Ended(c, pc) = [Fresh EXCEPT !.pc = pc, !.fell = call[c].fell]
      BY DEF Ended
    <3> QED BY <3>1 DEF Fresh
  <2> QED BY <1>4, <2>1, OneCallTurn DEF On, Over
<1>5. ASSUME NEW c \in Call, TargetAnswers(c) \/ StreamEnds(c) PROVE TurnInv'
  BY <1>4, <1>5 DEF TargetAnswers, StreamEnds, Served, Over
<1>6. ASSUME NEW c \in Call, TargetStreams(c) PROVE TurnInv'
  <2> DEFINE r == [call[c] EXCEPT !.pc = "streaming", !.wrote = TRUE]
  <2>1. r.pc = "streaming" /\ r.fell = call[c].fell /\ call' = [call EXCEPT ![c] = r]
    BY <1>0, <1>6 DEF CallRecord, TargetStreams
  <2>2. On(call[c]) /\ UNCHANGED turns
    BY <1>6 DEF TargetStreams, On
  <2> HIDE DEF r
  <2> QED BY <2>1, <2>2, OneCallTurn DEF On
<1>7. ASSUME NEW c \in Call, ProviderAnswers(c) PROVE TurnInv'
  BY <1>4, <1>7 DEF ProviderAnswers, Over
<1>8. ASSUME NEW c \in Call, ProviderFails(c) PROVE TurnInv'
  <2>1. CASE Retries(c)
    <3> DEFINE r == [call[c] EXCEPT !.tries = call[c].tries + 1]
    <3>1. r.pc = "forwarding" /\ r.fell = call[c].fell /\ call' = [call EXCEPT ![c] = r]
      BY <1>0, <1>8, <2>1 DEF CallRecord, ProviderFails
    <3>2. UNCHANGED turns
      BY <1>8 DEF ProviderFails
    <3> HIDE DEF r
    <3> QED BY <3>1, <3>2, OneCallTurn DEF On
  <2>2. CASE ~Retries(c)
    BY <1>4, <1>8, <2>2 DEF ProviderFails, Over
  <2> QED BY <2>1, <2>2
<1>9. ASSUME Edit \/ ProbeStarts \/ (\E u \in Endpoint : ProbeEnds(u)) PROVE TurnInv'
  BY <1>9, RestTurn DEF Edit, ProbeStarts, ProbeEnds
<1>10. CASE Forgets
  <2>1. UNCHANGED call /\ \A t \in Turn : turns'[t] = turns[t] \/ turns'[t] = NoTurn
    BY <1>10 DEF Forgets, PInv, Records
  <2> QED BY <2>1, RestTurn
<1>11. CASE UNCHANGED vars
  BY <1>11, RestTurn DEF vars
<1> QED BY <1>1, <1>2, <1>3, <1>5, <1>6, <1>7, <1>8, <1>9, <1>10, <1>11 DEF Next, Proceeds

\* A call of a loop that is sent to the target had the record of its turn for it.
LEMMA LoopByRecord ==
  ASSUME PInv, Next, NEW c \in Call, InLoop(c), call[c].pc = "new", call'[c].pc = "asking"
  PROVE  turns[TurnOf[c]].off
<1>1. \A d \in Call : call[d] \in CallRecord
  BY DEF PInv, Calls
<1>2. ASSUME NEW d \in Call, NEW r, call' = [call EXCEPT ![d] = r], d # c PROVE FALSE
  BY <1>2 DEF PInv, Calls
<1>3. ASSUME NEW r, call' = [call EXCEPT ![c] = r], r.pc # "asking" PROVE FALSE
  BY <1>3 DEF PInv, Calls
<1>4. ASSUME NEW d \in Call, Arrive(d) PROVE turns[TurnOf[c]].off
  <2>1. d = c
    BY <1>2, <1>4 DEF Arrive, Decide, Gates, Keep, Serve
  <2>2. CASE call' = [call EXCEPT ![c].pc = "forwarding"]
    <3>1. [call[c] EXCEPT !.pc = "forwarding"].pc = "forwarding"
      BY <1>1 DEF CallRecord
    <3> QED BY <1>3, <2>2, <3>1
  <2>3. CASE Keep(c, "none")
    <3>1. [call[c] EXCEPT !.pc = "forwarding", !.with = {}, !.seen = NoSession].pc = "forwarding"
      BY <1>1 DEF CallRecord
    <3> QED BY <1>3, <2>3, <3>1 DEF Keep
  <2>4. CASE ~Stays(c, cfg)
    BY <2>4 DEF Stays, RecordOf
  <2> QED BY <1>4, <2>1, <2>2, <2>3, <2>4 DEF Arrive, Decide
<1>5. ASSUME NEW d \in Call, Proceeds(d) PROVE d # c
  BY <1>5 DEF Proceeds, Classified, TargetFails, TargetAnswers, TargetStreams, StreamEnds, StreamBreaks,
              ProviderAnswers, ProviderFails
<1>6. ASSUME NEW d \in Call, Proceeds(d) PROVE FALSE
  <2>1. d # c
    BY <1>5, <1>6
  <2>2. CASE Classified(d)
    BY <1>2, <2>1, <2>2 DEF Classified, Gates, Keep, Serve
  <2>3. CASE ~Classified(d)
    BY <1>2, <1>6, <2>1, <2>3
    DEF Proceeds, TargetFails, TargetAnswers, TargetStreams, StreamEnds, StreamBreaks, FallBack,
        Served, ProviderAnswers, ProviderFails
  <2> QED BY <2>2, <2>3
<1>7. ASSUME UNCHANGED call PROVE FALSE
  BY <1>7
<1> QED BY <1>4, <1>6, <1>7 DEF Next, Edit, ProbeStarts, ProbeEnds, Forgets

\* So none is sent there once the target has failed one of its turn.
LEMMA FollowsFailure ==
  ASSUME PInv, TurnInv, Next, NEW c \in Call, NEW d \in Call,
         InLoop(c), call[c].pc = "new", call'[c].pc = "asking",
         TurnOf[d] = TurnOf[c], OpenedOnce(TurnOf[c])
  PROVE  ~call[d].fell
<1>1. turns[TurnOf[c]].off /\ TurnOf[c] \in Turn
  BY LoopByRecord, OffloadAssumption
<1> QED BY <1>1 DEF TurnInv, Followed

\* For any turns of any calls: once the target has failed a call, no later call of that
\* turn's loop is sent there (offload.mjs, decide and serve; turn-band.mjs).
THEOREM TurnsStayTogether == Spec => TurnStaysTogether
<1>1. PInv /\ TurnInv /\ [Next]_vars =>
        [\A c \in Call, d \in Call :
           (/\ InLoop(c) /\ call[c].pc = "new" /\ call'[c].pc = "asking"
            /\ TurnOf[d] = TurnOf[c] /\ OpenedOnce(TurnOf[c]))
           => ~call[d].fell]_vars
  BY FollowsFailure
<1>2. QED
  BY <1>1, PInvInit, PInvNext, TurnInvInit, TurnInvNext, PTL DEF Spec, TurnStaysTogether
=============================================================================
