------------------------------ MODULE Offload -------------------------------
(***************************************************************************)
(* The measuring passthrough of openai-passthrough.mjs and                 *)
(* anthropic-forward.mjs with the opt-in offload of offload.mjs: an easy   *)
(* chat call may be answered by the user's own endpoint, and whatever      *)
(* fails there falls back to the forward of the held original.             *)
(*                                                                         *)
(* A call awaits the classifier, the endpoint, the endpoint's stream or    *)
(* its provider. The user edits the configuration at any moment, the       *)
(* endpoint is probed in the background. Turn and session records may      *)
(* expire at any moment. A disconnected client changes nothing here: no    *)
(* signal of it is passed on.                                              *)
(***************************************************************************)
EXTENDS Bands, FiniteSets

CONSTANTS Call,         \* calls of intercepted agents
          Tapped,       \* POSTs on a measured path; the others are forwarded plainly
          Chat,         \* chat/completions calls with a readable body
          Prompt,       \* what the classifier's gates see of each: see Bands
          Declared,     \* the band each asks for
          Big,          \* calls over maxInputTokens
          Turn, TurnOf, \* turns, and the turn of each call
          Session, SessionOf, TurnIndex, \* sessions; each call's, and its turn's index
          Endpoint,     \* URLs a target may have
          Flaky,        \* those that answer some probes and not others (external)
          Config,       \* the configurations the user switches between
          FirstConfig,  \* the one the daemon starts with
          MaxInFlight, Attempts,  \* maxInFlight, attempts of forwardWithRetry
          MaxEdits,     \* bound: edits of the configuration
          Follows       \* bound: calls that end before the agent sends this one

NoUrl == "none"

ASSUME OffloadAssumption ==
  /\ IsFiniteSet(Call)
  /\ Tapped \subseteq Call /\ Chat \subseteq Tapped /\ Big \subseteq Call
  /\ Declared \in [Call -> Band]
  /\ Prompt \in [Call -> {"plain", "loop", "large", "empty", "vetoed"}]
  /\ TurnOf \in [Call -> Turn] /\ SessionOf \in [Call -> Session]
  /\ TurnIndex \in [Call -> Nat]
  /\ NoUrl \notin Endpoint /\ Flaky \subseteq Endpoint
  /\ Config \subseteq [on : BOOLEAN, url : Endpoint \cup {NoUrl}, bands : SUBSET Band,
                       models : SUBSET Band, classifier : BOOLEAN]
  /\ FirstConfig \in Config
  /\ MaxInFlight \in Nat \ {0} /\ Attempts \in Nat \ {0} /\ MaxEdits \in Nat
  /\ Follows \in [Call -> SUBSET Call]

VARIABLES
  call,     \* where each call stands, see Fresh
  cfg,      \* what getConfig() returns
  edits,    \* how often the user changed it
  health,   \* createTargetHealth: the URL last probed and its verdict
  probing,  \* URLs of the probes under way
  answered, \* URL -> the result of its last completed probe (history)
  turns,    \* turnBands: what the turn's first call got
  sessions, \* sessionBands
  inFlight  \* calls being served by the target

env  == <<cfg, edits, health, probing, answered>>
vars == <<call, env, turns, sessions, inFlight>>

Over == {"done", "failed", "broken"}
TurnRecord == [off : BOOLEAN, band : Band \cup {"none"}]
NoTurn == [off |-> FALSE, band |-> "none"]

\* with, the configuration decide() read; seen, the session's record it read; url,
\* the endpoint asked; wrote, that the client has bytes of an answer that is not over;
\* fell, that the target failed it; tries, failed attempts at its provider.
Fresh == [pc |-> "new", with |-> {}, seen |-> NoSession, url |-> NoUrl, band |-> "none",
          wrote |-> FALSE, fell |-> FALSE, tries |-> 0]
Ended(c, pc) == [Fresh EXCEPT !.pc = pc, !.fell = call[c].fell]

Init ==
  /\ call = [c \in Call |-> Fresh]
  /\ cfg = FirstConfig /\ edits = 0
  /\ health = [url |-> NoUrl, ok |-> FALSE] /\ probing = {}
  /\ answered = [u \in Endpoint |-> FALSE]
  /\ turns = [t \in Turn |-> NoTurn]
  /\ sessions = [s \in Session |-> NoSession]
  /\ inFlight = 0

-----------------------------------------------------------------------------
(* The decision.                                                           *)

InLoop(c) == Prompt[c] = "loop"
Usable(g) == health.ok /\ health.url = g.url

\* The turn's first call records what it got.
Finish(c, off, band) ==
  turns' = IF InLoop(c) THEN turns ELSE [turns EXCEPT ![TurnOf[c]] = [off |-> off, band |-> band]]

Keep(c, band) ==
  /\ Finish(c, FALSE, band)
  /\ call' = [call EXCEPT ![c] = [@ EXCEPT !.pc = "forwarding", !.with = {}, !.seen = NoSession]]
  /\ UNCHANGED inFlight

\* serve() reads the configuration again: the endpoint asked is the present one.
Serve(c, band) ==
  /\ Finish(c, TRUE, band)
  /\ call' = [call EXCEPT ![c] = [@ EXCEPT !.pc = "asking", !.with = {}, !.seen = NoSession,
                                           !.band = band, !.url = cfg.url]]
  /\ inFlight' = inFlight + 1

Room(c) == inFlight < MaxInFlight

\* The gates after the band is known, under the configuration g of the decision.
Gates(c, g, band) ==
  IF band \in g.bands \cap g.models /\ c \notin Big /\ Room(c)
  THEN Serve(c, band) ELSE Keep(c, band)

\* What a judged turn leaves for the session's later ones.
Leave(c, g, seen, band) ==
  LET next == NextSession(seen, TurnIndex[c], band \in g.bands)
  IN  sessions' = IF InLoop(c) \/ next = seen THEN sessions
                  ELSE [sessions EXCEPT ![SessionOf[c]] = next]

Allowed(g) == IF g.bands = {} THEN {"small"} ELSE g.bands

\* The classifier model is asked: it is on, has a model, and no gate forbids it.
Asks(c, g) ==
  g.classifier /\ "small" \in g.models /\ Eligible(TRUE, Declared[c], Prompt[c])

RecordOf(c) == turns[TurnOf[c]]
SeenOf(c) == sessions[SessionOf[c]]

\* What keeps a call on its provider before its band is looked at.
Stays(c, g) ==
  \/ ~Usable(g)
  \/ ~InLoop(c) /\ PromotedBefore(SeenOf(c), TurnIndex[c])
  \/ InLoop(c) /\ ~RecordOf(c).off

\* decide(), up to the classifier.
Decide(c, g) ==
  IF c \notin Chat \/ g.url = NoUrl THEN
    /\ call' = [call EXCEPT ![c].pc = "forwarding"]
    /\ UNCHANGED <<turns, sessions, inFlight>>
  ELSE IF Stays(c, g) THEN
    Keep(c, "none") /\ UNCHANGED sessions
  ELSE IF InLoop(c) THEN
    Gates(c, g, RecordOf(c).band) /\ UNCHANGED sessions
  ELSE IF Asks(c, g) THEN
    /\ call' = [call EXCEPT ![c] = [@ EXCEPT !.pc = "classifying", !.with = {g}, !.seen = SeenOf(c)]]
    /\ UNCHANGED <<turns, sessions, inFlight>>
  ELSE Gates(c, g, Declared[c]) /\ Leave(c, g, SeenOf(c), Declared[c])

\* handleOpenAIPassthrough has read the request.
Arrive(c) ==
  /\ call[c].pc = "new"
  /\ \A d \in Follows[c] : call[d].pc \in Over
  /\ \/ /\ c \in Tapped /\ cfg.on
        /\ Decide(c, cfg)
     \/ /\ c \notin Tapped \/ ~cfg.on
        /\ call' = [call EXCEPT ![c].pc = "forwarding"]
        /\ UNCHANGED <<turns, sessions, inFlight>>
  /\ UNCHANGED env

Classified(c) ==
  /\ call[c].pc = "classifying"
  /\ \E g \in call[c].with : \E band \in Outcomes(Declared[c], Allowed(g)) :
       /\ Leave(c, g, call[c].seen, band)
       /\ Gates(c, g, band)
  /\ UNCHANGED env

-----------------------------------------------------------------------------
(* The target.                                                             *)

Released == inFlight' = inFlight - 1

Served(c) ==
  /\ call' = [call EXCEPT ![c] = Ended(c, "done")]
  /\ Released /\ UNCHANGED turns

\* Mutant: the turn stays with the target that failed.
FallBackForgets(c) ==
  /\ call' = [call EXCEPT ![c] = [@ EXCEPT !.pc = "forwarding", !.url = NoUrl, !.fell = TRUE]]
  /\ Released /\ UNCHANGED turns
\* serve()'s catch: the rest of the turn follows this call to its provider.
FallBack(c) ==
  /\ call' = [call EXCEPT ![c] = [@ EXCEPT !.pc = "forwarding", !.url = NoUrl, !.fell = TRUE]]
  /\ turns' = [turns EXCEPT ![TurnOf[c]] = [off |-> FALSE, band |-> call[c].band]]
  /\ Released

\* A status, the network, the timer, or a body that breaks off before it is whole.
TargetFails(c) ==
  call[c].pc = "asking" /\ FallBack(c) /\ UNCHANGED <<env, sessions>>

TargetAnswers(c) ==
  call[c].pc = "asking" /\ Served(c) /\ UNCHANGED <<env, sessions>>

\* The first chunk of a stream: headers and bytes go to the client.
TargetStreams(c) ==
  /\ call[c].pc = "asking"
  /\ call' = [call EXCEPT ![c] = [@ EXCEPT !.pc = "streaming", !.wrote = TRUE]]
  /\ UNCHANGED <<env, turns, sessions, inFlight>>

StreamEnds(c) ==
  call[c].pc = "streaming" /\ Served(c) /\ UNCHANGED <<env, sessions>>

\* The stream breaks: the response is ended and serve() still says "not served".
StreamBreaks(c) ==
  call[c].pc = "streaming" /\ FallBack(c) /\ UNCHANGED <<env, sessions>>

-----------------------------------------------------------------------------
(* The forward.                                                            *)

\* The provider's answer is piped to the client; a second head on a response that
\* was begun throws, and the call ends without an answer or a usage row.
ProviderAnswers(c) ==
  /\ call[c].pc = "forwarding"
  /\ call' = [call EXCEPT ![c] = Ended(c, IF call[c].wrote THEN "broken" ELSE "done")]
  /\ UNCHANGED <<env, turns, sessions, inFlight>>

\* forwardPlain makes one attempt.
AttemptsOf(c) == IF c \in Tapped THEN Attempts ELSE 1

RetriesShort(c) == call[c].tries + 2 < AttemptsOf(c)
Retries(c) == call[c].tries + 1 < AttemptsOf(c)

\* A network error, or a gateway status while an attempt is left.
ProviderFails(c) ==
  /\ call[c].pc = "forwarding"
  /\ call' = [call EXCEPT ![c] =
       IF Retries(c) THEN [@ EXCEPT !.tries = call[c].tries + 1]
       ELSE Ended(c, IF call[c].wrote THEN "broken" ELSE "failed")]
  /\ UNCHANGED <<env, turns, sessions, inFlight>>

-----------------------------------------------------------------------------
(* The user, the probe and the endpoints.                                  *)

Edit ==
  /\ edits < MaxEdits
  /\ cfg' \in Config \ {cfg} /\ edits' = edits + 1
  /\ UNCHANGED <<call, health, probing, answered, turns, sessions, inFlight>>

\* Mutant: no probe while the last verdict is good.
ProbeStartsIdle ==
  /\ ~health.ok
  /\ \/ cfg.url = NoUrl /\ health' = [url |-> NoUrl, ok |-> FALSE] /\ UNCHANGED probing
     \/ cfg.url # NoUrl /\ probing' = probing \cup {cfg.url} /\ UNCHANGED health
  /\ UNCHANGED <<call, cfg, edits, answered, turns, sessions, inFlight>>
\* The timer: the URL is read now, the verdict is stored when the answer is in.
ProbeStarts ==
  /\ \/ cfg.url = NoUrl /\ health' = [url |-> NoUrl, ok |-> FALSE] /\ UNCHANGED probing
     \/ cfg.url # NoUrl /\ probing' = probing \cup {cfg.url} /\ UNCHANGED health
  /\ UNCHANGED <<call, cfg, edits, answered, turns, sessions, inFlight>>

\* Mutant: the verdict is stored for the URL configured by then.
ProbedUrlNow(u) == cfg.url
ProbedUrl(u) == u

ProbeEnds(u) ==
  /\ u \in probing
  /\ probing' = probing \ {u}
  /\ \E ok \in {TRUE, u \notin Flaky} :
       /\ health' = [url |-> ProbedUrl(u), ok |-> ok]
       /\ answered' = [answered EXCEPT ![u] = ok]
  /\ UNCHANGED <<call, cfg, edits, turns, sessions, inFlight>>

Forgets ==
  /\ \/ \E t \in Turn : turns[t] # NoTurn /\ turns' = [turns EXCEPT ![t] = NoTurn] /\ UNCHANGED sessions
     \/ \E s \in Session : sessions[s] # NoSession
          /\ sessions' = [sessions EXCEPT ![s] = NoSession] /\ UNCHANGED turns
  /\ UNCHANGED <<call, env, inFlight>>

Proceeds(c) ==
  \/ Classified(c)
  \/ TargetFails(c) \/ TargetAnswers(c) \/ TargetStreams(c) \/ StreamEnds(c) \/ StreamBreaks(c)
  \/ ProviderAnswers(c) \/ ProviderFails(c)

Next ==
  \/ \E c \in Call : Arrive(c) \/ Proceeds(c)
  \/ Edit \/ ProbeStarts \/ (\E u \in Endpoint : ProbeEnds(u))
  \/ Forgets

\* Every await ends: the classifier and the target have timers, a connection that
\* stays silent is given up by the fetch behind it; a probe is aborted after 5 s
\* and started again by an interval.
Fairness ==
  /\ \A c \in Call : WF_vars(Proceeds(c))
  /\ WF_vars(ProbeStarts) /\ \A u \in Endpoint : WF_vars(ProbeEnds(u))

Spec == Init /\ [][Next]_vars /\ Fairness

-----------------------------------------------------------------------------
(* Properties.                                                             *)

TypeOK ==
  /\ call \in [Call -> [pc : {"new", "classifying", "asking", "streaming", "forwarding"} \cup Over,
                        with : SUBSET Config, seen : SessionRecord, url : Endpoint \cup {NoUrl},
                        band : Band \cup {"none"}, wrote : BOOLEAN, fell : BOOLEAN,
                        tries : 0 .. Attempts - 1]]
  /\ cfg \in Config /\ edits \in 0 .. MaxEdits
  /\ health \in [url : Endpoint \cup {NoUrl}, ok : BOOLEAN]
  /\ probing \subseteq Endpoint
  /\ answered \in [Endpoint -> BOOLEAN]
  /\ turns \in [Turn -> TurnRecord] /\ sessions \in [Session -> SessionRecord]
  /\ inFlight \in 0 .. MaxInFlight

OnTarget == {c \in Call : call[c].pc \in {"asking", "streaming"}}

\* The counter behind maxInFlight is the number of calls the target is serving,
\* on every exit of serve(), and never more than the limit, although a decision
\* may have waited for the classifier since it began.
TargetLoad == inFlight = Cardinality(OnTarget) /\ inFlight <= MaxInFlight

\* An endpoint that is taken for reachable answered its own last probe: a late
\* answer of the endpoint before it is not taken for the one just configured.
VerdictIsOfUrl == health.ok => health.url # NoUrl /\ answered[health.url]

\* Every step preserves the three together.
IInv == TypeOK /\ TargetLoad /\ VerdictIsOfUrl

\* Its first call is made once: an agent that sends it again has the turn judged again.
OpenedOnce(t) ==
  \A c, d \in Call : TurnOf[c] = t /\ TurnOf[d] = t /\ ~InLoop(c) /\ ~InLoop(d) => c = d

\* Once the target has failed a call, no later call of that turn's loop is sent
\* there: the turn follows the failed call to the provider, whichever of its calls
\* that was, and whatever the target still answers to others meanwhile.
TurnStaysTogether ==
  [][\A c \in Call, d \in Call :
       (/\ InLoop(c) /\ call[c].pc = "new" /\ call'[c].pc = "asking"
        /\ TurnOf[d] = TurnOf[c] /\ OpenedOnce(TurnOf[c]))
       => ~call[d].fell]_vars

\* A call ends without an answer only when its provider has failed every attempt;
\* nothing the target does alone can leave the client with an error, unless it had
\* begun to answer.
ProviderIsLastResort ==
  [][\A c \in Call :
       /\ call[c].pc # "failed" /\ call'[c].pc = "failed" => call[c].tries + 1 = AttemptsOf(c)
       /\ call[c].pc # "broken" /\ call'[c].pc = "broken" => call[c].fell]_vars

\* Every call of an agent ends.
CallsEnd == \A c \in Call : call[c].pc # "new" ~> call[c].pc \in Over

\* An endpoint that answers its probes becomes usable once it is configured and left
\* alone, whatever probes of earlier endpoints are still under way.
TargetRecovers ==
  \A u \in Endpoint \ Flaky : <>[](cfg.url = u) => <>[](Usable(cfg))

\* Neither a call nor the target is stuck, whatever failed before.
GoesOn == CallsEnd /\ TargetRecovers

-----------------------------------------------------------------------------
(* What the code says of itself and does not do.                           *)

\* serve(): "Resolves {served: true} ..., or {served: false, error, ms} with nothing
\* written to res - the caller then forwards the held original".
NothingWritten == \A c \in Call : call[c].pc = "forwarding" => ~call[c].wrote
=============================================================================
