---------------------------- MODULE EgressProofs ----------------------------
(* Proofs of the safety properties of Egress, for any proxies, candidates, *)
(* requests and number of restarts.                                        *)
EXTENDS Egress, SequenceTheorems, TLAPS

Location == Proxy \cup {None}
RunRecord == [pc : {"idle", "verdict", "pinned", "candidate"}, verdict : Verdict,
              asked : Location, ok : BOOLEAN, todo : Seq(Proxy)]
FetchRecord == [at : {"new", "sent", "joined", "resent", "done", "failed"}, via : Location]

\* The list of candidates is a sequence of proxies.
LEMMA CandidatesType == ASSUME EgressAssumption, TypeOK PROVE Candidates \in Seq(Proxy)
<1> DEFINE Add(s, p) == IF p = None \/ (\E i \in 1 .. Len(s) : s[i] = p) THEN s ELSE Append(s, p)
<1>1. \A s \in Seq(Proxy), p \in Location : Add(s, p) \in Seq(Proxy)
  BY DEF Location
<1>2. launched \in Location /\ Detox \in Location /\ remembered \in Location
  BY DEF TypeOK, EgressAssumption, Location
<1>3. <<>> \in Seq(Proxy)
  OBVIOUS
<1> HIDE DEF Add
<1>4. Add(Add(Add(<<>>, launched), Detox), remembered) \in Seq(Proxy)
  BY <1>1, <1>2, <1>3
<1>5. QED
  BY <1>4 DEF Candidates, Add

\* What is left of a list of proxies is one.
LEMMA RemainingType == ASSUME NEW todo \in Seq(Proxy) PROVE Remaining(todo) \in Seq(Proxy)
BY DEF Remaining

\* A decision keeps the pin, gives it up, or moves it to what was found.
LEMMA DecisionRange ==
  ASSUME NEW v \in Verdict, NEW ok, NEW found
  PROVE  /\ DecideEgressProxy(v, ok, found) \in {pin, None, found}
         /\ v = "unknown" => DecideEgressProxy(v, ok, found) = pin
BY DEF DecideEgressProxy

\* What the end of a run does, whatever it found.
LEMMA DecideFacts ==
  ASSUME EgressAssumption, IInv, NEW e \in Runner, NEW v \in Verdict, NEW ok \in BOOLEAN,
         NEW found \in Location, Decide(e, v, ok, found), aborted' = aborted
  PROVE  /\ pin' \in Location /\ pin' \in {pin, None, found}
         /\ remembered' \in Location
         /\ egress' \in [evaluated : BOOLEAN, proxy : Location, network : Verdict]
         /\ run' = [run EXCEPT ![e] = Idle]
         /\ fetch' \in [Request -> FetchRecord]
         /\ before' \in Location /\ nudge' \in Verdict
         /\ \A r \in Request : fetch'[r].at = "joined" => e # "recheck" /\ fetch[r].at = "joined"
         /\ \A r \in Request : fetch'[r].at = "resent" /\ fetch[r].at # "resent" =>
              r \in Replayable \ aborted' /\ fetch'[r].via # before
         /\ egress'.network = v
         /\ pin' # pin => v # "unknown"
         /\ Buildable = Proxy => egress'.proxy = pin'
<1> DEFINE next == DecideEgressProxy(v, ok, found)
<1>1. next \in {pin, None, found} /\ (v = "unknown" => next = pin)
  BY DecisionRange
<1>2. pin \in Location /\ remembered \in Location /\ next \in Location
  BY <1>1 DEF IInv, TypeOK, Location
<1>3. /\ pin' = IF next \in Buildable \cup {None} THEN next ELSE pin
      /\ remembered' = IF next \notin {pin, None} THEN next ELSE remembered
      /\ egress' = [evaluated |-> TRUE, proxy |-> next, network |-> v]
      /\ run' = [run EXCEPT ![e] = Idle]
  BY DEF Decide, SetEgressProxy
<1> HIDE DEF next
<1>4. pin' \in Location /\ pin' \in {pin, None, found} /\ remembered' \in Location
  BY <1>1, <1>2, <1>3 DEF Location
<1>5. \/ e = "recheck" /\ ResumeFetches /\ before' = None /\ UNCHANGED nudge
      \/ e = "timer" /\ nudge' = "unknown" /\ UNCHANGED <<before, fetch>>
  BY DEF Decide
<1>6. /\ fetch' \in [Request -> FetchRecord]
      /\ \A r \in Request : fetch'[r].at = "joined" => e # "recheck" /\ fetch[r].at = "joined"
      /\ \A r \in Request : fetch'[r].at = "resent" /\ fetch[r].at # "resent" =>
           r \in Replayable \ aborted' /\ fetch'[r].via # before
  <2>1. CASE e = "recheck" /\ ResumeFetches
    <3>1. fetch' = [r \in Request |->
                      IF fetch[r].at # "joined" THEN fetch[r]
                      ELSE IF MayRetry(r) THEN [at |-> "resent", via |-> pin']
                      ELSE [at |-> "failed", via |-> None]]
      BY <2>1 DEF ResumeFetches, Settled
    <3>2. fetch \in [Request -> FetchRecord]
      BY DEF IInv, TypeOK, FetchRecord, Location
    <3>3. \A r \in Request : [at |-> "resent", via |-> pin'] \in FetchRecord
                             /\ [at |-> "failed", via |-> None] \in FetchRecord
      BY <1>4 DEF FetchRecord, Location
    <3>4. \A r \in Request : MayRetry(r) => pin' # before /\ r \in Replayable \ aborted'
      BY DEF MayRetry
    <3>5. fetch' \in [Request -> FetchRecord]
      BY <3>1, <3>2, <3>3
    <3>6. ASSUME NEW r \in Request
          PROVE  /\ fetch'[r].at # "joined"
                 /\ fetch'[r].at = "resent" /\ fetch[r].at # "resent" =>
                      r \in Replayable \ aborted' /\ fetch'[r].via # before
      BY <3>1, <3>4
    <3>7. QED
      BY <3>5, <3>6
  <2>2. CASE e = "timer" /\ UNCHANGED fetch
    BY <2>2 DEF IInv, TypeOK, FetchRecord, Location
  <2>3. QED
    BY <1>5, <2>1, <2>2
<1>7. before' \in Location /\ nudge' \in Verdict
  BY <1>5 DEF IInv, TypeOK, Location, Verdict
<1>8. egress' \in [evaluated : BOOLEAN, proxy : Location, network : Verdict]
  BY <1>2, <1>3
<1>9. pin' # pin => v # "unknown"
  BY <1>1, <1>3
<1>10. egress'.network = v /\ (Buildable = Proxy => egress'.proxy = pin')
  BY <1>2, <1>3 DEF Location
<1>11. QED
  BY <1>10, <1>3, <1>4, <1>6, <1>7, <1>8, <1>9

\* What every step guarantees.
Safe ==
  /\ IInv'
  /\ pin' \notin {pin, None} => pin' \in alive
  /\ pin' # pin /\ restarts' = restarts => egress'.network # "unknown"
  /\ \A r \in Request : fetch'[r].at = "resent" /\ fetch[r].at # "resent" =>
       r \in Replayable \ aborted' /\ fetch'[r].via # before
  /\ Buildable = Proxy /\ StatusAgrees => StatusAgrees'

\* A step that only moves a run on, starts it, or changes requests and nothing else.
LEMMA QuietSafe ==
  ASSUME IInv, UNCHANGED <<pin, remembered, egress, launched, restarts>>,
         verdict' \in Verdict, alive' \subseteq Proxy, aborted' \subseteq Request,
         run' \in [Runner -> RunRecord], before' \in Location, nudge' \in Verdict,
         fetch' \in [Request -> FetchRecord],
         \A e \in Runner : run'[e].pc = "candidate" => run'[e].todo # <<>>,
         \A r \in Request : fetch'[r].at = "joined" => run'["recheck"].pc # "idle",
         \A r \in Request : fetch'[r].at = "resent" => fetch[r].at = "resent"
  PROVE  Safe
<1>1. TypeOK'
  BY DEF IInv, TypeOK, RunRecord, FetchRecord, Location
<1>2. Probing' /\ JoinedAreServed'
  BY DEF Probing, JoinedAreServed
<1>3. QED
  BY <1>1, <1>2 DEF Safe, IInv, StatusAgrees

\* A run ends with nothing found, or with a candidate that answers now.
LEMMA DecideSafe ==
  ASSUME EgressAssumption, IInv, NEW e \in Runner, NEW v \in Verdict, NEW ok \in BOOLEAN,
         NEW found \in alive \cup {None}, Decide(e, v, ok, found),
         UNCHANGED <<envVars, launched, aborted, restarts>>
  PROVE  Safe
<1>1. found \in Location /\ aborted' = aborted
  BY DEF IInv, TypeOK, Location
<1>2. /\ pin' \in Location /\ pin' \in {pin, None, found} /\ remembered' \in Location
      /\ egress' \in [evaluated : BOOLEAN, proxy : Location, network : Verdict]
      /\ run' = [run EXCEPT ![e] = Idle]
      /\ fetch' \in [Request -> FetchRecord]
      /\ before' \in Location /\ nudge' \in Verdict
      /\ \A r \in Request : fetch'[r].at = "joined" => e # "recheck" /\ fetch[r].at = "joined"
      /\ \A r \in Request : fetch'[r].at = "resent" /\ fetch[r].at # "resent" =>
           r \in Replayable \ aborted' /\ fetch'[r].via # before
      /\ egress'.network = v
      /\ pin' # pin => v # "unknown"
      /\ Buildable = Proxy => egress'.proxy = pin'
  BY <1>1, DecideFacts
<1>3. Idle \in RunRecord /\ Idle.pc = "idle"
  BY DEF Idle, Fresh, RunRecord, Location, Verdict
<1>4. run \in [Runner -> RunRecord]
  BY DEF IInv, TypeOK, RunRecord, Location
<1>5. run' \in [Runner -> RunRecord]
  BY <1>2, <1>3, <1>4
<1>6. TypeOK'
  <2>1. UNCHANGED <<verdict, alive, launched, aborted, restarts>>
    BY DEF envVars
  <2>2. QED
    BY <1>2, <1>5, <2>1 DEF IInv, TypeOK, RunRecord, FetchRecord, Location
<1>7. Probing'
  BY <1>2, <1>3, <1>4 DEF IInv, Probing
<1>8. JoinedAreServed'
  <2>1. "recheck" \in Runner
    BY DEF Runner
  <2>2. ASSUME NEW r \in Request, fetch'[r].at = "joined"
        PROVE  run'["recheck"].pc # "idle"
    <3>1. e # "recheck" /\ fetch[r].at = "joined"
      BY <1>2, <2>2
    <3>2. run'["recheck"] = run["recheck"]
      BY <1>2, <1>4, <2>1, <3>1
    <3>3. QED
      BY <3>1, <3>2 DEF IInv, JoinedAreServed
  <2>3. QED
    BY <2>2 DEF JoinedAreServed
<1>9. pin' \notin {pin, None} => pin' \in alive
  BY <1>2
<1>10. QED
  BY <1>2, <1>6, <1>7, <1>8, <1>9 DEF Safe, IInv, StatusAgrees

\* A run goes on to the next candidate, or ends for want of one.
LEMMA ProbeNextSafe ==
  ASSUME EgressAssumption, IInv, NEW e \in Runner, run[e].pc # "idle", NEW v \in Verdict,
         NEW asked \in Location, NEW ok \in BOOLEAN, NEW todo \in Seq(Proxy),
         ProbeNext(e, v, asked, ok, todo), UNCHANGED <<envVars, launched, aborted, restarts>>
  PROVE  Safe
<1>1. CASE Decide(e, v, ok, None)
  BY <1>1, DecideSafe
<1>2. ASSUME Remaining(todo) # <<>>,
             run' = [run EXCEPT ![e] = [pc |-> "candidate", verdict |-> v, asked |-> asked,
                                        ok |-> ok, todo |-> Remaining(todo)]],
             UNCHANGED <<pinVars, before, nudge, fetch>>
      PROVE  Safe
  <2> DEFINE rec == [pc |-> "candidate", verdict |-> v, asked |-> asked, ok |-> ok,
                     todo |-> Remaining(todo)]
  <2>1. rec \in RunRecord /\ rec.pc = "candidate" /\ rec.todo # <<>>
    BY <1>2, RemainingType DEF RunRecord
  <2>2. run \in [Runner -> RunRecord] /\ run' = [run EXCEPT ![e] = rec]
    BY <1>2 DEF IInv, TypeOK, RunRecord, Location
  <2> HIDE DEF rec
  <2>3. /\ run' \in [Runner -> RunRecord]
        /\ \A d \in Runner : run'[d].pc = "candidate" => run'[d].todo # <<>>
        /\ run["recheck"].pc # "idle" => run'["recheck"].pc # "idle"
    BY <2>1, <2>2 DEF IInv, Probing, Runner
  <2>4. UNCHANGED <<pin, remembered, egress, launched, restarts, verdict, alive, aborted,
                    before, nudge, fetch>>
    BY <1>2 DEF pinVars, envVars
  <2>5. /\ verdict' \in Verdict /\ alive' \subseteq Proxy /\ aborted' \subseteq Request
        /\ before' \in Location /\ nudge' \in Verdict /\ fetch' \in [Request -> FetchRecord]
    BY <2>4 DEF IInv, TypeOK, FetchRecord, Location
  <2>6. \A r \in Request : fetch'[r].at = "joined" => run'["recheck"].pc # "idle"
    BY <2>3, <2>4 DEF IInv, JoinedAreServed
  <2>7. QED
    BY <2>3, <2>4, <2>5, <2>6, QuietSafe
<1>3. QED
  BY <1>1, <1>2 DEF ProbeNext

\* A callback of a run.
LEMMA StepSafe ==
  ASSUME EgressAssumption, IInv, NEW e \in Runner, Step(e)
  PROVE  Safe
<1>1. run[e] \in RunRecord /\ Candidates \in Seq(Proxy) /\ pin \in Location
      /\ verdict \in Verdict /\ alive \subseteq Proxy
  BY CandidatesType DEF IInv, TypeOK, RunRecord, Location
<1>1a. /\ run[e].verdict \in Verdict /\ run[e].asked \in Location
      /\ run[e].ok \in BOOLEAN /\ run[e].todo \in Seq(Proxy)
  BY <1>1 DEF RunRecord
<1>2. CASE ReadVerdict(e)
  <2>1. run[e].pc # "idle" /\ UNCHANGED <<envVars, launched, aborted, restarts>>
    BY <1>2 DEF ReadVerdict
  <2>2. CASE Decide(e, verdict, FALSE, None)
    BY <1>1, <2>1, <2>2, DecideSafe
  <2>3. CASE ProbeNext(e, verdict, None, FALSE, Candidates)
    BY <1>1, <2>1, <2>3, ProbeNextSafe DEF Location
  <2>4. ASSUME run' = [run EXCEPT ![e] = [pc |-> "pinned", verdict |-> verdict, asked |-> pin,
                                          ok |-> FALSE, todo |-> Candidates]],
               UNCHANGED <<pinVars, before, nudge, fetch>>
        PROVE  Safe
    <3> DEFINE rec == [pc |-> "pinned", verdict |-> verdict, asked |-> pin, ok |-> FALSE,
                       todo |-> Candidates]
    <3>1. rec \in RunRecord /\ rec.pc = "pinned"
      BY <1>1 DEF RunRecord
    <3>2. run \in [Runner -> RunRecord] /\ run' = [run EXCEPT ![e] = rec]
      BY <2>4 DEF IInv, TypeOK, RunRecord, Location
    <3> HIDE DEF rec
    <3>3. /\ run' \in [Runner -> RunRecord]
          /\ \A d \in Runner : run'[d].pc = "candidate" => run'[d].todo # <<>>
          /\ run["recheck"].pc # "idle" => run'["recheck"].pc # "idle"
      BY <3>1, <3>2 DEF IInv, Probing, Runner
    <3>4. UNCHANGED <<pin, remembered, egress, launched, restarts, verdict, alive, aborted,
                      before, nudge, fetch>>
      BY <2>1, <2>4 DEF pinVars, envVars
    <3>5. /\ verdict' \in Verdict /\ alive' \subseteq Proxy /\ aborted' \subseteq Request
          /\ before' \in Location /\ nudge' \in Verdict /\ fetch' \in [Request -> FetchRecord]
      BY <3>4 DEF IInv, TypeOK, FetchRecord, Location
    <3>6. \A r \in Request : fetch'[r].at = "joined" => run'["recheck"].pc # "idle"
      BY <3>3, <3>4 DEF IInv, JoinedAreServed
    <3>7. QED
      BY <3>3, <3>4, <3>5, <3>6, QuietSafe
  <2>5. QED
    BY <1>2, <2>2, <2>3, <2>4 DEF ReadVerdict
<1>3. CASE ProbePinned(e)
  <2> DEFINE ok == run[e].asked \in alive
  <2>1. /\ run[e].pc # "idle" /\ ok \in BOOLEAN
        /\ UNCHANGED <<envVars, launched, aborted, restarts>>
    BY <1>3 DEF ProbePinned
  <2>2. CASE Decide(e, run[e].verdict, ok, None)
    BY <1>1a, <2>1, <2>2, DecideSafe
  <2>3. CASE ProbeNext(e, run[e].verdict, run[e].asked, ok, run[e].todo)
    <3> HIDE DEF ok
    <3>1. QED
      BY <1>1a, <2>1, <2>3, ProbeNextSafe
  <2>4. QED
    BY <1>3, <2>2, <2>3 DEF ProbePinned
<1>4. CASE ProbeCandidate(e)
  <2> DEFINE p == Head(run[e].todo)
  <2>1. run[e].pc = "candidate" /\ UNCHANGED <<envVars, launched, aborted, restarts>>
    BY <1>4 DEF ProbeCandidate
  <2>2. run[e].todo # <<>> /\ run[e].todo \in Seq(Proxy)
    BY <1>1, <2>1 DEF IInv, Probing, RunRecord
  <2>3. Tail(run[e].todo) \in Seq(Proxy)
    BY <2>2
  <2>4. CASE p \in alive /\ Decide(e, run[e].verdict, run[e].ok, p)
    BY <1>1a, <2>1, <2>4, DecideSafe
  <2>5. CASE ProbeNext(e, run[e].verdict, run[e].asked, run[e].ok, Tail(run[e].todo))
    <3> DEFINE rest == Tail(run[e].todo)
    <3>1. rest \in Seq(Proxy)
      BY <2>3
    <3>2. ProbeNext(e, run[e].verdict, run[e].asked, run[e].ok, rest) /\ run[e].pc # "idle"
      BY <2>1, <2>5
    <3> HIDE DEF rest
    <3>3. QED
      BY <1>1a, <2>1, <3>1, <3>2, ProbeNextSafe
  <2>6. QED
    BY <1>4, <2>4, <2>5 DEF ProbeCandidate
<1>5. QED
  BY <1>2, <1>3, <1>4 DEF Step

\* The runner starts, alone or for a request or a nudge.
LEMMA StartedFacts ==
  ASSUME IInv, NEW e \in Runner, Started(e)
  PROVE  /\ run' \in [Runner -> RunRecord] /\ run'[e].pc # "idle"
         /\ \A d \in Runner : run'[d].pc = "candidate" => run'[d].todo # <<>>
         /\ run["recheck"].pc # "idle" => run'["recheck"].pc # "idle"
<1>1. run \in [Runner -> RunRecord]
  BY DEF IInv, TypeOK, RunRecord, Location
<1>2. [run[e] EXCEPT !.pc = "verdict"] \in RunRecord
  BY <1>1 DEF RunRecord
<1>3. /\ run' = [run EXCEPT ![e] = [run[e] EXCEPT !.pc = "verdict"]]
  BY <1>1 DEF Started
<1>4. run' \in [Runner -> RunRecord]
  BY <1>1, <1>2, <1>3
<1>5. \A d \in Runner : d # e => run'[d] = run[d]
  BY <1>1, <1>3
<1>6. run'[e].pc = "verdict"
  BY <1>1, <1>3 DEF RunRecord
<1>7. QED
  BY <1>4, <1>5, <1>6 DEF IInv, Probing, Runner

\* A step of a request, of the timer or of a nudge.
LEMMA RequestSafe ==
  ASSUME EgressAssumption, IInv,
         \/ Tick \/ Nudge
         \/ \E r \in Request : Send(r) \/ Respond(r) \/ Fail(r) \/ ConnectionLost(r) \/ Abort(r)
  PROVE  Safe
<1>1. /\ verdict \in Verdict /\ alive \subseteq Proxy /\ aborted \subseteq Request
      /\ run \in [Runner -> RunRecord] /\ before \in Location /\ nudge \in Verdict
      /\ fetch \in [Request -> FetchRecord] /\ pin \in Location
      /\ \A e \in Runner : run[e].pc = "candidate" => run[e].todo # <<>>
      /\ \A r \in Request : fetch[r].at = "joined" => run["recheck"].pc # "idle"
      /\ "timer" \in Runner /\ "recheck" \in Runner
  BY DEF IInv, TypeOK, Probing, JoinedAreServed, RunRecord, FetchRecord, Location, Runner
<1>2. \A how \in {"done", "failed"} : Settled(how) \in FetchRecord /\ Settled(how).at = how
  BY DEF Settled, FetchRecord, Location
<1>3. UNCHANGED <<pin, remembered, egress, launched, restarts, verdict, alive>>
  BY DEF Tick, Nudge, Send, Respond, Fail, ConnectionLost, Abort, envVars, pinVars
<1>4. CASE Tick
  <2>1. Started("timer") /\ UNCHANGED <<before, nudge, fetch, aborted>>
    BY <1>4 DEF Tick, fetchVars
  <2>2. QED
    BY <1>1, <1>3, <2>1, StartedFacts, QuietSafe
<1>5. CASE Nudge
  <2>1. /\ Started("timer") \/ UNCHANGED run
        /\ nudge' = verdict /\ UNCHANGED <<before, fetch, aborted>>
    BY <1>5 DEF Nudge, fetchVars
  <2>2. QED
    BY <1>1, <1>3, <2>1, StartedFacts, QuietSafe
<1>6. ASSUME NEW r \in Request, Send(r) \/ Respond(r) \/ Fail(r)
      PROVE  Safe
  <2>1. UNCHANGED <<run, before, nudge, aborted>>
    BY <1>6 DEF Send, Respond, Fail
  <2>2. PICK rec \in FetchRecord : /\ fetch' = [fetch EXCEPT ![r] = rec]
                                  /\ rec.at \notin {"joined", "resent"}
    <3>1. CASE Send(r)
      <4>1. [at |-> "sent", via |-> IF r \in Lan THEN None ELSE pin] \in FetchRecord
        BY <1>1 DEF FetchRecord, Location
      <4>2. QED
        BY <3>1, <4>1 DEF Send
    <3>2. CASE Respond(r) \/ Fail(r)
      BY <1>2, <3>2 DEF Respond, Fail
    <3>3. QED
      BY <1>6, <3>1, <3>2
  <2>3. fetch' \in [Request -> FetchRecord]
    BY <1>1, <2>2
  <2>4. \A q \in Request : q # r => fetch'[q] = fetch[q]
    BY <1>1, <2>2
  <2>5. fetch'[r].at \notin {"joined", "resent"}
    BY <1>1, <2>2
  <2>6. QED
    BY <1>1, <1>3, <2>1, <2>3, <2>4, <2>5, QuietSafe
<1>7. ASSUME NEW r \in Request, ConnectionLost(r)
      PROVE  Safe
  <2>1. /\ fetch' = [fetch EXCEPT ![r].at = "joined"] /\ UNCHANGED <<nudge, aborted>>
        /\ \/ run["recheck"].pc = "idle" /\ Started("recheck") /\ before' = pin
           \/ run["recheck"].pc # "idle" /\ UNCHANGED <<run, before>>
    BY <1>7 DEF ConnectionLost
  <2>2. /\ run' \in [Runner -> RunRecord] /\ run'["recheck"].pc # "idle" /\ before' \in Location
        /\ \A e \in Runner : run'[e].pc = "candidate" => run'[e].todo # <<>>
    BY <1>1, <2>1, StartedFacts
  <2>3. [fetch[r] EXCEPT !.at = "joined"] \in FetchRecord
    BY <1>1 DEF FetchRecord
  <2>4. fetch' = [fetch EXCEPT ![r] = [fetch[r] EXCEPT !.at = "joined"]]
    BY <1>1, <2>1
  <2>5. fetch' \in [Request -> FetchRecord] /\ fetch'[r].at = "joined"
    BY <1>1, <2>3, <2>4 DEF FetchRecord
  <2>6. \A q \in Request : q # r => fetch'[q] = fetch[q]
    BY <1>1, <2>4
  <2>7. QED
    BY <1>1, <1>3, <2>1, <2>2, <2>5, <2>6, QuietSafe
<1>8. ASSUME NEW r \in Request, Abort(r)
      PROVE  Safe
  BY <1>1, <1>3, <1>8, QuietSafe DEF Abort
<1>9. QED
  BY <1>4, <1>5, <1>6, <1>7, <1>8

\* The records of a runner at rest and of one that has just begun.
LEMMA IdleFacts ==
  /\ Idle \in RunRecord /\ Idle.pc = "idle"
  /\ Fresh("verdict") \in RunRecord /\ Fresh("verdict").pc = "verdict"
<1>1. <<>> \in Seq(Proxy) /\ "unknown" \in Verdict /\ None \in Location
  BY DEF Verdict, Location
<1>2. QED
  BY <1>1 DEF Idle, Fresh, RunRecord

\* The network changes.
LEMMA NetworkSafe == ASSUME IInv, NetworkChanges PROVE Safe
<1>1. verdict' \in Verdict /\ alive' \subseteq Proxy
  BY DEF NetworkChanges, IInv, TypeOK
<1>2. UNCHANGED <<pin, remembered, egress, launched, run, before, nudge, fetch, aborted, restarts>>
  BY DEF NetworkChanges, pinVars, fetchVars
<1>3. QED
  BY <1>1, <1>2, QuietSafe DEF IInv, TypeOK, Probing, JoinedAreServed, RunRecord, FetchRecord,
    Location

\* The process restarts.
LEMMA RestartSafe == ASSUME EgressAssumption, IInv, Restart PROVE Safe
<1>1. /\ launched' \in Location /\ pin' \in {None, launched'} /\ launched' \in alive \cup {None}
      /\ remembered' \in Location /\ alive' = alive
      /\ restarts' \in 0 .. MaxRestarts /\ restarts' # restarts
      /\ egress' = [evaluated |-> FALSE, proxy |-> None, network |-> "unknown"]
      /\ before' = None /\ nudge' = "unknown"
      /\ UNCHANGED <<verdict, aborted>>
  BY DEF Restart, envVars, IInv, TypeOK, EgressAssumption, Location
<1>2. /\ fetch' \in [Request -> FetchRecord]
      /\ \A r \in Request : fetch'[r].at \notin {"joined", "resent"}
  <2>1. fetch \in [Request -> FetchRecord] /\ Settled("failed") \in FetchRecord
    BY DEF IInv, TypeOK, FetchRecord, Location, Settled
  <2>2. fetch' = [r \in Request |-> IF fetch[r].at \in {"sent", "joined", "resent"}
                                   THEN Settled("failed") ELSE fetch[r]]
    BY DEF Restart
  <2>3. Settled("failed").at = "failed"
    BY DEF Settled
  <2>4. QED
    BY <2>1, <2>2, <2>3
<1>3. /\ run' \in [Runner -> RunRecord]
      /\ \A e \in Runner : run'[e].pc \in {"idle", "verdict"}
  <2>1. run' = [e \in Runner |-> IF e = "timer" THEN Fresh("verdict") ELSE Idle]
    BY DEF Restart
  <2>2. QED
    BY <2>1, IdleFacts
<1>4. TypeOK'
  BY <1>1, <1>2, <1>3 DEF IInv, TypeOK, RunRecord, FetchRecord, Location, Verdict
<1>5. Probing' /\ JoinedAreServed'
  BY <1>2, <1>3 DEF Probing, JoinedAreServed
<1>6. QED
  BY <1>1, <1>2, <1>4, <1>5 DEF Safe, IInv, StatusAgrees

\* Every step is safe.
LEMMA NextSafe == ASSUME EgressAssumption, IInv, Next PROVE Safe
BY StepSafe, RequestSafe, NetworkSafe, RestartSafe DEF Next

\* The initial states satisfy the invariant.
LEMMA InitIInv == ASSUME EgressAssumption, Init PROVE IInv /\ StatusAgrees
<1>1. run \in [Runner -> RunRecord] /\ \A e \in Runner : run[e].pc \in {"idle", "verdict"}
  <2>1. run = [e \in Runner |-> IF e = "timer" THEN Fresh("verdict") ELSE Idle]
    BY DEF Init
  <2>2. QED
    BY <2>1, IdleFacts
<1>2. fetch \in [Request -> FetchRecord] /\ \A r \in Request : fetch[r].at = "new"
  BY DEF Init, FetchRecord, Location
<1>3. TypeOK
  BY <1>1, <1>2 DEF Init, TypeOK, EgressAssumption, RunRecord, FetchRecord, Location, Verdict
<1>4. QED
  BY <1>1, <1>2, <1>3 DEF Init, IInv, Probing, JoinedAreServed, StatusAgrees

-----------------------------------------------------------------------------
(* Theorems.                                                               *)

\* The types hold, a run that probes has a candidate to probe, and every request
\* that awaits the re-check is awaited by a run in flight.
THEOREM Invariance == Spec => []IInv
<1>1. Init => IInv
  BY InitIInv, EgressAssumption
<1>2. IInv /\ [Next]_vars => IInv'
  <2>1. ASSUME IInv, UNCHANGED vars PROVE IInv'
    BY <2>1 DEF vars, envVars, pinVars, fetchVars, IInv, TypeOK, Probing, JoinedAreServed
  <2>2. QED
    BY <2>1, NextSafe, EgressAssumption DEF Safe
<1>3. QED
  BY <1>1, <1>2, PTL DEF Spec

\* Requests that await a re-check are served by one.
THEOREM Joined == Spec => []JoinedAreServed
<1>1. IInv => JoinedAreServed
  BY DEF IInv
<1>2. QED
  BY <1>1, Invariance, PTL

\* If an agent can be built for every proxy, the published state is the egress in
\* force, however runs overlap.
THEOREM Status == ASSUME Buildable = Proxy PROVE Spec => []StatusAgrees
<1>1. Init => StatusAgrees
  BY InitIInv, EgressAssumption
<1>2. IInv /\ StatusAgrees /\ [Next]_vars => StatusAgrees'
  <2>1. ASSUME StatusAgrees, UNCHANGED vars PROVE StatusAgrees'
    BY <2>1 DEF vars, pinVars, StatusAgrees
  <2>2. QED
    BY <2>1, NextSafe, EgressAssumption DEF Safe
<1>3. QED
  BY <1>1, <1>2, Invariance, PTL DEF Spec

\* No proxy is pinned that does not answer at that moment.
THEOREM PinsProven == Spec => NeverPinsUnreachable
<1>1. IInv /\ [Next]_vars => [pin' \notin {pin, None} => pin' \in alive]_vars
  BY NextSafe, EgressAssumption DEF Safe
<1>2. QED
  BY <1>1, Invariance, PTL DEF Spec, NeverPinsUnreachable

\* A silent coordinator never moves the pin.
THEOREM Blips == Spec => BlipHolds
<1>1. IInv /\ [Next]_vars =>
        [pin' # pin /\ restarts' = restarts => egress'.network # "unknown"]_vars
  BY NextSafe, EgressAssumption DEF Safe
<1>2. QED
  BY <1>1, Invariance, PTL DEF Spec, BlipHolds

\* Whatever runs overlap, the pin moves to a proxy only by a proof, and by silence
\* nowhere.
THEOREM PinMoves == Spec => PinJustified
BY PinsProven, Blips DEF PinJustified

\* A request is sent again only if its caller waits, its body allows it, and the
\* re-check moved the egress.
THEOREM Retries == Spec => RetryJustified
<1>1. IInv /\ [Next]_vars =>
        [\A r \in Request : fetch'[r].at = "resent" /\ fetch[r].at # "resent" =>
           r \in Replayable \ aborted' /\ fetch'[r].via # before]_vars
  BY NextSafe, EgressAssumption DEF Safe
<1>2. QED
  BY <1>1, Invariance, PTL DEF Spec, RetryJustified
=============================================================================
