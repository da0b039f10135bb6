------------------------------- MODULE Egress -------------------------------
(***************************************************************************)
(* The egress proxy of proxy-bridge/server.mjs: which corporate proxy, if  *)
(* any, outbound requests go through, and its re-decision while the        *)
(* network changes. The rules are decideEgressProxy of egress-decision.mjs;*)
(* the runs that apply them are reevaluateEgressProxy.                     *)
(*                                                                         *)
(* Two runs may overlap, each kept single by a promise of its own: the one *)
(* of the timer, of boot and of POST /api/egress/reevaluate, and the       *)
(* re-check that requests failing on the pin share. A run awaits the       *)
(* coordinator and each probe and reads the pin again after every await;   *)
(* an action is what happens between two awaits.                           *)
(***************************************************************************)
EXTENDS Integers, Sequences

CONSTANTS Proxy,       \* proxy URLs
          Detox,       \* the adaptive one, 127.0.0.1:3128
          Buildable,   \* URLs undici can build a ProxyAgent for
          Request,     \* outbound requests through proxyFetch
          Replayable,  \* those whose body can be sent again
          Lan,         \* those to hosts that bypass any proxy
          MaxRestarts, \* bound: restarts of the process
          Nudges,      \* bound: whether the coordinator nudges
          None         \* direct egress

ASSUME EgressAssumption ==
  /\ Detox \in Proxy /\ None \notin Proxy
  /\ Buildable \subseteq Proxy
  /\ Replayable \subseteq Request /\ Lan \subseteq Request
  /\ MaxRestarts \in Nat /\ Nudges \in BOOLEAN

VARIABLES
  verdict,    \* external: what the coordinator answers
  alive,      \* external: proxies that reach upstream
  pin,        \* _egressProxyUrl and its dispatcher
  launched,   \* HTTPS_PROXY in the environment of this process
  remembered, \* the file last-corporate-proxy
  egress,     \* _egressState, as /health shows it
  run,        \* runner -> where its reevaluateEgressProxy stands
  before,     \* the pin when the current re-check began
  nudge,      \* verdict the coordinator nudged with and waits an answer for
  fetch,      \* request -> [at, via]: progress, and the pin it was sent through
  aborted,    \* requests whose caller gave up while they awaited a re-check
  restarts    \* restarts so far

envVars   == <<verdict, alive>>
pinVars   == <<pin, remembered, egress>>
fetchVars == <<fetch, aborted>>
vars == <<envVars, pinVars, launched, run, before, nudge, fetchVars, restarts>>

Verdict == {"corporate", "public", "unknown"}
Runner  == {"timer", "recheck"}

\* asked is the pin whose probe is awaited or has given pinnedReachable.
Fresh(pc) == [pc |-> pc, verdict |-> "unknown", asked |-> None, ok |-> FALSE, todo |-> <<>>]
Idle == Fresh("idle")

\* The proxies to try, best first, without duplicates.
Candidates ==
  LET Add(s, p) == IF p = None \/ (\E i \in 1 .. Len(s) : s[i] = p) THEN s ELSE Append(s, p)
  IN  Add(Add(Add(<<>>, launched), Detox), remembered)

\* Mutants: the default is pinned unprobed; a coordinator that is silent counts as
\* public; public is treated like a silent coordinator; a dead pin is held.
DecideUnprobed(v, ok, found) ==
  IF v = "unknown" \/ (v = "corporate" /\ pin # None /\ ok) THEN pin
  ELSE IF v = "public" THEN None
  ELSE IF found = None THEN Detox ELSE found
DecideFailOpen(v, ok, found) ==
  IF v = "corporate" /\ pin # None /\ ok THEN pin ELSE found
DecideStays(v, ok, found) ==
  IF v # "corporate" \/ (pin # None /\ ok) THEN pin ELSE found
DecideHoldsDead(v, ok, found) ==
  IF v = "unknown" \/ (v = "corporate" /\ pin # None) THEN pin
  ELSE IF v = "public" THEN None
  ELSE found

\* decideEgressProxy: the next pin, given what a run has learned.
DecideEgressProxy(v, ok, found) ==
  IF v = "unknown" \/ (v = "corporate" /\ pin # None /\ ok) THEN pin
  ELSE IF v = "public" THEN None
  ELSE found

\* Mutant: a pin in force is not handed over.
SetEgressProxyOnce(next) == pin' = IF next # None /\ pin # None THEN pin ELSE next

\* setEgressProxy: a URL no agent can be built for leaves the pin alone.
SetEgressProxy(next) == pin' = IF next \in Buildable \cup {None} THEN next ELSE pin

Init ==
  /\ verdict \in Verdict
  /\ alive \in SUBSET Proxy
  /\ launched \in alive \cup {None}
  /\ pin = IF launched \in Buildable THEN launched ELSE None
  /\ remembered \in IF launched = None THEN Proxy \cup {None} ELSE {launched}
  /\ egress = [evaluated |-> FALSE, proxy |-> None, network |-> "unknown"]
  /\ run = [e \in Runner |-> IF e = "timer" THEN Fresh("verdict") ELSE Idle]
  /\ before = None
  /\ nudge = "unknown"
  /\ fetch = [r \in Request |-> [at |-> "new", via |-> None]]
  /\ aborted = {}
  /\ restarts = 0

-----------------------------------------------------------------------------
(* A run of reevaluateEgressProxy.                                         *)

Settled(how) == [at |-> how, via |-> None]

\* proxyFetch resumes: it re-sends when the re-check moved the pin, the body
\* can be sent again and the caller still waits; it throws otherwise.
MayRetryAborted(r) == pin' # before /\ r \in Replayable  \* mutant
MayRetry(r) == pin' # before /\ r \in Replayable \ aborted

\* Mutant: an aborted request is forgotten instead of rejected.
ResumeLive ==
  fetch' = [r \in Request |->
    IF fetch[r].at # "joined" \/ r \in aborted THEN fetch[r]
    ELSE IF MayRetry(r) THEN [at |-> "resent", via |-> pin']
    ELSE Settled("failed")]

ResumeFetches ==
  fetch' = [r \in Request |->
    IF fetch[r].at # "joined" THEN fetch[r]
    ELSE IF MayRetry(r) THEN [at |-> "resent", via |-> pin']
    ELSE Settled("failed")]

\* The run decides, publishes, and resumes whoever awaits it.
Decide(e, v, ok, found) ==
  LET next == DecideEgressProxy(v, ok, found) IN
  /\ SetEgressProxy(next)
  /\ remembered' = IF next \notin {pin, None} THEN next ELSE remembered
  /\ egress' = [evaluated |-> TRUE, proxy |-> next, network |-> v]
  /\ run' = [run EXCEPT ![e] = Idle]
  /\ \/ e = "recheck" /\ ResumeFetches /\ before' = None /\ UNCHANGED nudge
     \/ e = "timer" /\ nudge' = "unknown" /\ UNCHANGED <<before, fetch>>

\* The next probe of the candidates todo: entries equal to the pin of this very
\* moment are skipped.
Remaining(todo) == IF todo # <<>> /\ Head(todo) = pin THEN Tail(todo) ELSE todo

ProbeNext(e, v, asked, ok, todo) ==
  \/ /\ Remaining(todo) = <<>>
     /\ Decide(e, v, ok, None)
  \/ /\ Remaining(todo) # <<>>
     /\ run' = [run EXCEPT ![e] = [pc |-> "candidate", verdict |-> v, asked |-> asked,
                                   ok |-> ok, todo |-> Remaining(todo)]]
     /\ UNCHANGED <<pinVars, before, nudge, fetch>>

\* The coordinator's answer arrives. A reachability probe is only needed on a
\* corporate network, of the pin first.
ReadVerdict(e) ==
  /\ run[e].pc = "verdict"
  /\ \/ /\ verdict # "corporate"
        /\ Decide(e, verdict, FALSE, None)
     \/ /\ verdict = "corporate" /\ pin # None
        /\ run' = [run EXCEPT ![e] = [pc |-> "pinned", verdict |-> verdict, asked |-> pin,
                                      ok |-> FALSE, todo |-> Candidates]]
        /\ UNCHANGED <<pinVars, before, nudge, fetch>>
     \/ /\ verdict = "corporate" /\ pin = None
        /\ ProbeNext(e, verdict, None, FALSE, Candidates)
  /\ UNCHANGED <<envVars, launched, aborted, restarts>>

\* The probe of what was the pin ends. Candidates are tried when it failed, or
\* when nothing is pinned any more.
ProbePinned(e) ==
  LET ok == run[e].asked \in alive IN
  /\ run[e].pc = "pinned"
  /\ \/ /\ pin # None /\ ok
        /\ Decide(e, run[e].verdict, ok, None)
     \/ /\ pin = None \/ ~ok
        /\ ProbeNext(e, run[e].verdict, run[e].asked, ok, run[e].todo)
  /\ UNCHANGED <<envVars, launched, aborted, restarts>>

\* The probe of a candidate ends: the first that answers is the one.
ProbeCandidate(e) ==
  LET p == Head(run[e].todo) IN
  /\ run[e].pc = "candidate"
  /\ \/ /\ p \in alive
        /\ Decide(e, run[e].verdict, run[e].ok, p)
     \/ /\ p \notin alive
        /\ ProbeNext(e, run[e].verdict, run[e].asked, run[e].ok, Tail(run[e].todo))
  /\ UNCHANGED <<envVars, launched, aborted, restarts>>

Started(e) == run' = [run EXCEPT ![e].pc = "verdict"]

\* The timer fires. A run in flight is joined.
Tick ==
  /\ run["timer"].pc = "idle"
  /\ Started("timer")
  /\ UNCHANGED <<envVars, pinVars, launched, before, nudge, fetchVars, restarts>>

\* POST /api/egress/reevaluate, sent by the coordinator when its verdict
\* changed: start a run, or join the one in flight, and answer when it ends.
Nudge ==
  /\ Nudges
  /\ nudge = "unknown"
  /\ verdict # "unknown"
  /\ nudge' = verdict
  /\ IF run["timer"].pc = "idle" THEN Started("timer") ELSE UNCHANGED run
  /\ UNCHANGED <<envVars, pinVars, launched, before, fetchVars, restarts>>

-----------------------------------------------------------------------------
(* Requests.                                                               *)

\* rawProxyFetch through the pin in force.
Send(r) ==
  /\ fetch[r].at = "new"
  /\ fetch' = [fetch EXCEPT ![r] = [at |-> "sent", via |-> IF r \in Lan THEN None ELSE pin]]
  /\ UNCHANGED <<envVars, pinVars, launched, run, before, nudge, aborted, restarts>>

\* An HTTP response, whatever its status.
Respond(r) ==
  /\ fetch[r].at \in {"sent", "resent"}
  /\ fetch[r].via \in alive \cup {None}
  /\ fetch' = [fetch EXCEPT ![r] = Settled("done")]
  /\ UNCHANGED <<envVars, pinVars, launched, run, before, nudge, aborted, restarts>>

\* A failure proxyFetch throws on: of a request sent directly or sent again, an
\* abort, or one that says nothing of the egress path.
Fail(r) ==
  /\ fetch[r].at \in {"sent", "resent"}
  /\ fetch' = [fetch EXCEPT ![r] = Settled("failed")]
  /\ UNCHANGED <<envVars, pinVars, launched, run, before, nudge, aborted, restarts>>

\* A connection failure on a pin: recheckEgressOnce, started or joined.
ConnectionLost(r) ==
  /\ fetch[r].at = "sent"
  /\ fetch[r].via # None
  /\ fetch' = [fetch EXCEPT ![r].at = "joined"]
  /\ IF run["recheck"].pc = "idle"
     THEN Started("recheck") /\ before' = pin
     ELSE UNCHANGED <<run, before>>
  /\ UNCHANGED <<envVars, pinVars, launched, nudge, aborted, restarts>>

\* The caller's signal aborts a request that awaits the re-check.
Abort(r) ==
  /\ r \notin aborted
  /\ fetch[r].at = "joined"
  /\ aborted' = aborted \cup {r}
  /\ UNCHANGED <<envVars, pinVars, launched, run, before, nudge, fetch, restarts>>

-----------------------------------------------------------------------------
(* External: the network, and restarts of the process.                     *)

NetworkChanges ==
  /\ \/ verdict' \in Verdict /\ UNCHANGED alive
     \/ \E p \in Proxy : alive' \in {alive \cup {p}, alive \ {p}} /\ UNCHANGED verdict
  /\ UNCHANGED <<pinVars, launched, run, before, nudge, fetchVars, restarts>>

\* The launcher exports a proxy it has just proved reachable, or none. Requests
\* in flight are lost; the file survives.
Restart ==
  /\ restarts < MaxRestarts
  /\ restarts' = restarts + 1
  /\ launched' \in alive \cup {None}
  /\ pin' = IF launched' \in Buildable THEN launched' ELSE None
  /\ remembered' = IF launched' = None THEN remembered ELSE launched'
  /\ egress' = [evaluated |-> FALSE, proxy |-> None, network |-> "unknown"]
  /\ run' = [e \in Runner |-> IF e = "timer" THEN Fresh("verdict") ELSE Idle]
  /\ before' = None
  /\ nudge' = "unknown"
  /\ fetch' = [r \in Request |->
                 IF fetch[r].at \in {"sent", "joined", "resent"}
                 THEN Settled("failed") ELSE fetch[r]]
  /\ UNCHANGED <<envVars, aborted>>

Step(e) == ReadVerdict(e) \/ ProbePinned(e) \/ ProbeCandidate(e)

Next ==
  \/ \E e \in Runner : Step(e)
  \/ Tick \/ Nudge
  \/ \E r \in Request : Send(r) \/ Respond(r) \/ Fail(r) \/ ConnectionLost(r) \/ Abort(r)
  \/ NetworkChanges \/ Restart

\* The interval fires for ever, and curl ends by its --max-time.
Fairness == WF_vars(Tick) /\ \A e \in Runner : WF_vars(Step(e))

Spec == Init /\ [][Next]_vars
FairSpec == Spec /\ Fairness

-----------------------------------------------------------------------------
(* Properties.                                                             *)

\* Types of the pin, the runs and the requests.
TypeOK ==
  /\ verdict \in Verdict
  /\ alive \subseteq Proxy
  /\ pin \in Proxy \cup {None}
  /\ launched \in Proxy \cup {None}
  /\ remembered \in Proxy \cup {None}
  /\ egress \in [evaluated : BOOLEAN, proxy : Proxy \cup {None}, network : Verdict]
  /\ run \in [Runner -> [pc : {"idle", "verdict", "pinned", "candidate"}, verdict : Verdict,
                         asked : Proxy \cup {None}, ok : BOOLEAN, todo : Seq(Proxy)]]
  /\ before \in Proxy \cup {None}
  /\ nudge \in Verdict
  /\ fetch \in [Request -> [at : {"new", "sent", "joined", "resent", "done", "failed"},
                            via : Proxy \cup {None}]]
  /\ aborted \subseteq Request
  /\ restarts \in 0 .. MaxRestarts

\* /health, and the environment of the claude subprocesses, name the egress that
\* requests use: overlapping runs never leave the two apart.
StatusAgrees == egress.evaluated => egress.proxy = pin

\* The first rule of decideEgressProxy, whatever runs overlap: a proxy is pinned
\* only at the moment it has been proved reachable.
NeverPinsUnreachable ==
  [][pin' \notin {pin, None} => pin' \in alive]_vars

\* A coordinator that does not answer is evidence of nothing: no run that ends
\* without a verdict moves the pin.
BlipHolds ==
  [][pin' # pin /\ restarts' = restarts => egress'.network # "unknown"]_vars

\* What overlapping runs may do to the pin: a proof moves it to a proxy, silence moves
\* it nowhere.
PinJustified == NeverPinsUnreachable /\ BlipHolds

\* A request is sent a second time only for a caller that still waits, with a
\* body that can be sent again, through another egress than its re-check found.
RetryJustified ==
  [][\A r \in Request : fetch'[r].at = "resent" /\ fetch[r].at # "resent" =>
       r \in Replayable \ aborted' /\ fetch'[r].via # before]_vars

\* A request that awaits the re-check is being waited for by a live run.
JoinedAreServed ==
  \A r \in Request : fetch[r].at = "joined" => run["recheck"].pc # "idle"

\* Once the coordinator reports public for good, egress becomes and stays direct.
SettlesDirect == <>[](verdict = "public") => <>[](pin = None)

\* Once it reports corporate for good and some candidate answers, egress becomes
\* and stays a proxy that answers, although re-checks and ticks keep overlapping.
SettlesCorporate ==
  \A A \in SUBSET Proxy :
    <>[](verdict = "corporate" /\ alive = A /\ A \cap {launched, Detox, remembered} # {})
      => <>[](pin \in A)

\* However re-checks and ticks overlap: egress ends up where the network is.
Converges == SettlesDirect /\ SettlesCorporate

\* A request that awaits the re-check gets on.
JoinedGoOn == \A r \in Request : fetch[r].at = "joined" ~> fetch[r].at # "joined"

\* A run that probes a candidate has one to probe.
Probing == \A e \in Runner : run[e].pc = "candidate" => run[e].todo # <<>>

\* The inductive invariant behind the safety properties.
IInv == TypeOK /\ Probing /\ JoinedAreServed
=============================================================================
