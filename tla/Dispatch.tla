------------------------------ MODULE Dispatch ------------------------------
(***************************************************************************)
(* POST /api/complete of proxy-bridge/server.mjs: which provider a call is *)
(* sent to and what happens when it fails. A call's complexity band may be *)
(* lowered by a classifier; small work is offloaded to a local target that *)
(* takes a limited number of foreground calls; the providers of the chain  *)
(* are then asked in turn, one of them twice after a network error.        *)
(*                                                                         *)
(* A call awaits the classifier, a provider, or the pause before a second  *)
(* try; an action is what runs between two of these. The routing config    *)
(* and the network are fixed: the chains buildChain makes of them, with    *)
(* and without the offload, are constants. There are two bands, small work *)
(* is the work that is offloaded. A record of turn-band.mjs may expire or  *)
(* be evicted at any moment.                                               *)
(***************************************************************************)
EXTENDS Integers, Sequences, FiniteSets

CONSTANTS Request,      \* calls of /api/complete
          Foreground,   \* those of a known agent, of class fg-chat
          InLoop,       \* those inside a tool loop
          Delegated,    \* those whose route leaves the band to the caller
          Small,        \* those declared small, by the caller or the route
          Offloadable,  \* those whose route, scope and size the target takes
          Session,      \* conversations of agents
          SessionOf,    \* the conversation of each call
          TurnOf,       \* its turn in the conversation
          Provider,     \* provider accounts
          Local,        \* those re-probed while the proxy runs
          Target,       \* the offload target of this network
          Chain,        \* buildChain for each call, not offloaded
          OffloadChain, \* and offloaded: the target, the route's own provider, ...
          MaxInFlight,  \* foreground.max_in_flight of the target
          RetryOn,      \* retry_on
          RetryBudget,  \* same_provider_retries
          Leaving,      \* bound: calls whose client may disconnect
          Follows       \* bound: calls that end before a client sends this one

\* classifyFailure: every retryable class but one is "other", no class is "client".
FailureClass == {"network_error", "other", "client"}

ASSUME DispatchAssumption ==
  /\ IsFiniteSet(Request)
  /\ Foreground \subseteq Request /\ InLoop \subseteq Request
  /\ Delegated \subseteq Request /\ Small \subseteq Request
  /\ Offloadable \subseteq Request
  /\ SessionOf \in [Request -> Session] /\ TurnOf \in [Request -> Nat]
  /\ Target \in Provider /\ Local \subseteq Provider
  /\ Chain \in [Request -> Seq(Provider)]
  /\ OffloadChain \in [Request -> Seq(Provider)]
  /\ MaxInFlight \in Nat \ {0}
  /\ RetryOn \subseteq FailureClass \ {"client"}
  /\ RetryBudget \in Nat
  /\ Leaving \subseteq Request /\ Follows \in [Request -> SUBSET Request]

VARIABLES
  call,      \* request -> where it stands, see At and Asking
  inFlight,  \* inFlightByProvider
  available, \* providers that can be reached, as far as the probes know
  session,   \* sessionBands: conversation -> what its turns left
  lowered    \* turnBands: turns whose first call was lowered to small

vars == <<call, inFlight, available, session, lowered>>

Settled == {"done", "failed", "refused"}
Record  == [kind : {"none", "offloaded", "promoted"}, at : Nat]
NoRecord == [kind |-> "none", at |-> 0]

\* open and seen are what the call read before it awaited the classifier; hops,
\* the positions of its chain that were available when it was routed; i, the one it
\* is at; used, second tries there (a chain names no provider twice); tried,
\* the providers that failed it; gone, that its client has disconnected; err, the
\* class of the error it ended with. A call that has ended keeps no more than that.
At(pc, open, seen, gone, err) ==
  [pc |-> pc, open |-> open, seen |-> seen, off |-> FALSE, hops |-> {}, i |-> 0,
   used |-> 0, tried |-> {}, gone |-> gone, err |-> err]
Asking(off, hops, i, gone) ==
  [pc |-> "asking", open |-> 0, seen |-> NoRecord, off |-> off, hops |-> hops, i |-> i,
   used |-> 0, tried |-> {}, gone |-> gone, err |-> "none"]
Ended(pc, err) == At(pc, 0, NoRecord, FALSE, err)

Init ==
  /\ call = [r \in Request |-> At("new", 0, NoRecord, FALSE, "none")]
  /\ inFlight = [p \in Provider |-> 0]
  /\ available \in SUBSET Provider
  /\ session = [s \in Session |-> NoRecord]
  /\ lowered = {}

-----------------------------------------------------------------------------
(* The decision.                                                           *)

Set(r, c) == call' = [call EXCEPT ![r] = c]

Opened(f, p) == [f EXCEPT ![p] = @ + 1]
\* Mutant: no finally.
ClosedNever(f, p) == f
Closed(f, p) == [f EXCEPT ![p] = @ - 1]

Nearest(J) == {j \in J : \A k \in J : j <= k}

\* A turn's first call: the one that sessions and turns keep records of.
First(r) == r \in Foreground \ InLoop
TurnKey(r) == <<SessionOf[r], TurnOf[r]>>

\* sessionVerdict: a promotion decides the turns after the one that caused it.
Promoted(r) ==
  First(r) /\ session[SessionOf[r]].kind = "promoted" /\ TurnOf[r] > session[SessionOf[r]].at

\* A loop call takes the band its turn's first call was lowered to.
Inherits(r) == r \in Foreground \cap InLoop /\ r \notin Small /\ TurnKey(r) \in lowered

Declared(r) == IF r \in Small THEN "small" ELSE "medium"

\* resolveRoute's offload, given the calls open on the target.
Offloads(r, band, open) ==
  band = "small" /\ r \in Offloadable /\ (r \in Foreground => open < MaxInFlight)

\* The chain without what is not available; the first provider is asked at once.
Route(r, band, open) ==
  LET off  == Offloads(r, band, open)
      list == IF off THEN OffloadChain[r] ELSE Chain[r]
      hops == {j \in DOMAIN list : list[j] \in available}
  IN  \/ \E j \in Nearest(hops) :
           /\ Set(r, Asking(off, hops, j, call[r].gone))
           /\ inFlight' = Opened(inFlight, list[j])
      \/ hops = {} /\ Set(r, Ended("refused", "none")) /\ UNCHANGED inFlight

\* Mutant: the decision taken before the classifier was asked stands.
CountedOnce(r) == call[r].open
\* After the classifier the counts are read again if they moved.
Counted(r) == IF inFlight[Target] = call[r].open THEN call[r].open ELSE inFlight[Target]

\* nextSessionRecord, for a turn judged at this band.
NextRecord(seen, turn, band) ==
  CASE seen.kind = "promoted" -> {}
    [] seen.kind # "promoted" /\ band = "small" -> {[kind |-> "offloaded", at |-> turn]}
    [] seen.kind = "offloaded" /\ band # "small" -> {[kind |-> "promoted", at |-> turn]}
    [] OTHER -> {}

\* The request has been read: it is routed at once when a record decides its
\* band, and classified otherwise.
Arrive(r) ==
  /\ call[r].pc = "new"
  /\ \A q \in Follows[r] : call[q].pc \in Settled
  /\ \/ /\ r \in Delegated /\ Promoted(r)
        /\ Route(r, Declared(r), inFlight[Target])
     \/ /\ r \in Delegated /\ Inherits(r)
        /\ Route(r, "small", inFlight[Target])
     \/ /\ ~(r \in Delegated /\ (Promoted(r) \/ Inherits(r)))
        /\ Set(r, At("classifying", inFlight[Target],
                     IF First(r) THEN session[SessionOf[r]] ELSE NoRecord, FALSE, "none"))
        /\ UNCHANGED inFlight
  /\ UNCHANGED <<available, session, lowered>>

\* What the turn leaves for the session's later ones, if it was judged.
Leave(r, band, judged) ==
  LET next == NextRecord(call[r].seen, TurnOf[r], band)
  IN  IF judged /\ First(r) /\ next # {}
      THEN \E rec \in next : session' = [session EXCEPT ![SessionOf[r]] = rec]
      ELSE UNCHANGED session

\* Whether a call whose band is kept was judged: work declared small counts as
\* judged, a loop call or one whose route sets the band never is.
Judgements(r) ==
  CASE r \in Delegated \cap Small -> {TRUE}
    [] r \in Delegated \ (Small \cup InLoop) -> BOOLEAN
    [] OTHER -> {FALSE}

\* classifyRequest answers: the band is lowered, or kept by a judgement of the
\* turn, or kept because no judgement was made (a gate, an error).
Classified(r) ==
  /\ call[r].pc = "classifying"
  /\ \/ /\ r \in Delegated \ (InLoop \cup Small)
        /\ lowered' = IF r \in Foreground THEN lowered \cup {TurnKey(r)} ELSE lowered
        /\ Leave(r, "small", TRUE)
        /\ Route(r, "small", Counted(r))
     \/ /\ \E judged \in Judgements(r) : Leave(r, Declared(r), judged)
        /\ Route(r, Declared(r), Counted(r))
        /\ UNCHANGED lowered
  /\ UNCHANGED available

-----------------------------------------------------------------------------
(* The walk of the chain.                                                  *)

Path(r)  == IF call[r].off THEN OffloadChain[r] ELSE Chain[r]
Asked(r) == Path(r)[call[r].i]
\* Mutants: the next position is skipped; the failed one is asked again.
RestSkipping(r) == {j \in call[r].hops : j > call[r].i + 1}
RestAgain(r) == {j \in call[r].hops : j >= call[r].i}
Rest(r)  == {j \in call[r].hops : j > call[r].i}

Answers(r) ==
  /\ call[r].pc = "asking"
  /\ Set(r, Ended("done", "none"))
  /\ inFlight' = Closed(inFlight, Asked(r))
  /\ UNCHANGED <<available, session, lowered>>

Retries(r, class) == class = "network_error" /\ call[r].used < RetryBudget /\ ~call[r].gone

\* The catch block: the same provider again after a pause, the next one, or the
\* end.
Fails(r, class) ==
  /\ call[r].pc = "asking"
  /\ \/ /\ Retries(r, class)
        /\ Set(r, [call[r] EXCEPT !.pc = "pausing", !.used = @ + 1, !.tried = @ \cup {Asked(r)}])
        /\ inFlight' = Closed(inFlight, Asked(r))
     \/ /\ ~Retries(r, class)
        /\ class \in RetryOn
        /\ \E j \in Nearest(Rest(r)) :
             /\ Set(r, [call[r] EXCEPT !.i = j, !.used = 0, !.tried = @ \cup {Asked(r)}])
             /\ inFlight' = Opened(Closed(inFlight, Asked(r)), Path(r)[j])
     \/ /\ ~Retries(r, class)
        /\ class \notin RetryOn \/ Rest(r) = {}
        /\ Set(r, Ended("failed", class))
        /\ inFlight' = Closed(inFlight, Asked(r))
  /\ UNCHANGED <<available, session, lowered>>

\* The pause is over.
AsksAgain(r) ==
  /\ call[r].pc = "pausing"
  /\ Set(r, [call[r] EXCEPT !.pc = "asking"])
  /\ inFlight' = Opened(inFlight, Asked(r))
  /\ UNCHANGED <<available, session, lowered>>

-----------------------------------------------------------------------------
(* External: clients, probes of local endpoints, time.                     *)

\* The client leaves before the response has ended.
Disconnects(r) ==
  /\ r \in Leaving
  /\ call[r].pc \notin Settled \cup {"new"}
  /\ Set(r, [call[r] EXCEPT !.gone = TRUE])
  /\ UNCHANGED <<inFlight, available, session, lowered>>

Probed(p) ==
  /\ available' \in {available \cup {p}, available \ {p}}
  /\ UNCHANGED <<call, inFlight, session, lowered>>

Expires(s) ==
  /\ session[s] # NoRecord
  /\ session' = [session EXCEPT ![s] = NoRecord]
  /\ UNCHANGED <<call, inFlight, available, lowered>>

TurnExpires(k) ==
  /\ lowered' = lowered \ {k}
  /\ UNCHANGED <<call, inFlight, available, session>>

Proceeds(r) ==
  \/ Classified(r)
  \/ Answers(r) \/ (\E class \in FailureClass : Fails(r, class))
  \/ AsksAgain(r)

Next ==
  \/ \E r \in Request : Arrive(r) \/ Proceeds(r) \/ Disconnects(r)
  \/ \E p \in Local : Probed(p)
  \/ \E s \in Session : Expires(s)
  \/ \E k \in lowered : TurnExpires(k)

\* The classifier and every provider call have a timeout of their own, and the
\* pause is a timer: whatever a call awaits comes to an end.
Fairness == \A r \in Request : WF_vars(Proceeds(r))

Spec == Init /\ [][Next]_vars
FairSpec == Spec /\ Fairness

-----------------------------------------------------------------------------
(* Properties.                                                             *)

\* Types of the calls, the counts and the records.
TypeOK ==
  /\ call \in [Request ->
       [pc : {"new", "classifying", "asking", "pausing"} \cup Settled, open : Nat,
        seen : Record, off : BOOLEAN, hops : SUBSET Nat, i : Nat, used : Nat,
        tried : SUBSET Provider, gone : BOOLEAN, err : FailureClass \cup {"none"}]]
  /\ inFlight \in [Provider -> Nat]
  /\ available \subseteq Provider
  /\ session \in [Session -> Record]
  /\ lowered \subseteq Session \X Nat

\* A call that walks its chain is at a position of it that was available.
OnChain ==
  \A r \in Request :
    /\ call[r].hops \subseteq DOMAIN Path(r)
    /\ call[r].pc \in {"asking", "pausing"} => call[r].i \in call[r].hops

\* The calls that are open on a provider.
OpenOn(p) == {r \in Request : call[r].pc = "asking" /\ Asked(r) = p}

\* The in-flight counts that gate the offload are exact: no exit of an attempt,
\* a second try, a fallback or an error, forgets to give its count back.
CountsMatch == \A p \in Provider : inFlight[p] = Cardinality(OpenOn(p))

\* A foreground call is sent to the target only while the target has a slot for
\* it, although the decision is taken before the classifier is awaited.
SentOnlyIntoSlot ==
  [][\A r \in Foreground :
       /\ call[r].pc \in {"new", "classifying"} /\ call'[r].pc = "asking"
       /\ call'[r].off /\ OffloadChain[r][call'[r].i] = Target
       => inFlight'[Target] <= MaxInFlight]_vars

\* A provider is asked, or asked again, only after every provider before it in the
\* chain, among those that were available, has failed this call.
WalkedInOrder ==
  \A r \in Request : call[r].pc \in {"asking", "pausing"} =>
    \A j \in call[r].hops : j < call[r].i => Path(r)[j] \in call[r].tried

\* The conjunction that every step preserves.
IInv == TypeOK /\ OnChain /\ CountsMatch /\ WalkedInOrder

\* A call ends with a retryable error only once its whole chain has failed it: a
\* call that was offloaded has been back to the provider its route names.
WholeChainTried ==
  [][\A r \in Request :
       call'[r].pc = "failed" /\ call[r].pc # "failed" /\ call'[r].err \in RetryOn =>
         \A j \in call[r].hops : Path(r)[j] \in call[r].tried \cup {Asked(r)}]_vars

\* What is known of a call's walk from outside: the states before the choice of the
\* chain are one, and so are an attempt and the pause after it.
Standing(c) ==
  CASE c.pc \in {"new", "classifying"} -> "new"
    [] c.pc \in {"asking", "pausing"} -> "walking"
    [] c.pc = "failed" -> IF c.err \in RetryOn THEN "exhausted" ELSE "fatal"
    [] OTHER -> c.pc
Seen(r) ==
  LET on == Standing(call[r]) = "walking"
  IN  [st |-> Standing(call[r]), way |-> IF on THEN Path(r) ELSE << >>,
       todo |-> IF on THEN {j \in call[r].hops : j >= call[r].i} ELSE {},
       tries |-> IF on THEN call[r].used ELSE 0]

Promise(r) == INSTANCE ChainWalk WITH
  Chains <- {Chain[r], OffloadChain[r]}, Budget <- RetryBudget, walk <- Seen(r)

\* Whatever classification, records, other calls, probes and clients do meanwhile, each
\* call walks a chain of its own as promised: no provider of it is passed over or asked
\* more often than the budget allows, and only the whole chain fails it.
WalksAsPromised ==
  /\ \A r \in Request : Promise(r)!WInit
  /\ [][\A r \in Request : Promise(r)!WNext \/ UNCHANGED Seen(r)]_vars

\* Every call settles, though a step of the walk may stay where it is.
CallsSettle == \A r \in Request : call[r].pc # "new" ~> call[r].pc \in Settled

-----------------------------------------------------------------------------
(* What comments of the code say, and the code does not do.                *)

\* The in-flight gate: "a foreground limit of one call must see the calls that
\* started meanwhile", so no more foreground calls than the limit are on the target.
OneSlot ==
  Cardinality({r \in Foreground : call[r].off /\ r \in OpenOn(Target)}) <= MaxInFlight

\* Abort propagation: "when the HTTP client disconnects ..., abort downstream
\* work": no provider is asked on behalf of a client that has gone.
AbortStopsWork ==
  [][\A r \in Request :
       call[r].gone /\ call'[r].pc = "asking"
         => call[r].pc = "asking" /\ call'[r].i = call[r].i]_vars

\* turn-band.mjs: "a promoted session is never demoted again".
NeverDemoted ==
  [][\A s \in Session :
       session[s].kind = "promoted" => session'[s].kind # "offloaded"]_vars
=============================================================================
