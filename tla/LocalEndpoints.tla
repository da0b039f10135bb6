--------------------------- MODULE LocalEndpoints ---------------------------
(***************************************************************************)
(* Which local endpoints proxy-bridge/server.mjs takes for available: each *)
(* may be declared for one network, is not touched on another, and is      *)
(* probed on a timer. The network is what the health coordinator says, or  *)
(* public when it is silent, and is remembered for a while; the            *)
(* coordinator calls when the network changes. A probe's answer is stored  *)
(* when it is in: probes of one endpoint may overlap, and the network may  *)
(* have changed.                                                           *)
(***************************************************************************)
CONSTANTS Endpoint, \* the entries of LOCAL_ENDPOINTS, with URL and key
          Wants,    \* the network each is declared for, or Any
          Any, None,
          Slot      \* bound: probes of one endpoint under way at a time

Network == {"corporate", "public"}
ASSUME EndpointsAssumption == Wants \in [Endpoint -> Network \cup {Any}]

VARIABLES
  network,     \* the network the machine is on
  coordinator, \* whether the coordinator answers
  mode,        \* cachedNetworkMode, None when it is to be found out
  answers,     \* endpoints that answer, on the network they are on
  timer,       \* the probes have been started
  flag,        \* endpoints marked available
  probing      \* <<endpoint, slot>> of the probes under way

lvars == <<network, coordinator, mode, answers, timer, flag, probing>>

LInit ==
  /\ network \in Network /\ coordinator = TRUE /\ mode = None
  /\ answers = {} /\ timer = FALSE /\ flag = {} /\ probing = {}

\* detectNetworkMode.
Mode ==
  IF mode # None THEN mode ELSE IF coordinator THEN network ELSE "public"

Reached(e) == e \in answers /\ (Wants[e] = Any \/ Wants[e] = network)

Skipped(e) == flag \ {e}

\* reprobeLocalEndpoint, up to the request it sends.
Probe(e) ==
  /\ timer
  /\ mode' = IF Wants[e] = Any THEN mode ELSE Mode
  /\ IF Wants[e] # Any /\ Mode # Wants[e]
     THEN flag' = Skipped(e) /\ UNCHANGED probing
     ELSE /\ \E s \in Slot : <<e, s>> \notin probing /\ probing' = probing \cup {<<e, s>>}
          /\ UNCHANGED flag
  /\ UNCHANGED <<network, coordinator, answers, timer>>

\* Mutant: the flag is only ever raised.
ProbeRaises(e, s) ==
  /\ <<e, s>> \in probing /\ probing' = probing \ {<<e, s>>}
  /\ flag' = IF Reached(e) THEN flag \cup {e} ELSE flag
  /\ UNCHANGED <<network, coordinator, mode, answers, timer>>
\* Its answer, or its timeout. A foreign machine on the same address may answer.
ProbeEnds(e, s) ==
  /\ <<e, s>> \in probing /\ probing' = probing \ {<<e, s>>}
  /\ \/ flag' = IF Reached(e) THEN flag \cup {e} ELSE flag \ {e}
     \/ Wants[e] # Any /\ network # Wants[e] /\ flag' = flag \cup {e}
  /\ UNCHANGED <<network, coordinator, mode, answers, timer>>

\* The end of initProviders.
StartTimer ==
  /\ ~timer /\ timer' = TRUE
  /\ UNCHANGED <<network, coordinator, mode, answers, flag, probing>>

\* A call or GET /health asks for the network.
AskMode ==
  /\ mode' = Mode
  /\ UNCHANGED <<network, coordinator, answers, timer, flag, probing>>

\* NETWORK_CACHE_TTL_MS, or POST /api/egress/reevaluate.
Forget ==
  /\ mode # None /\ mode' = None
  /\ UNCHANGED <<network, coordinator, answers, timer, flag, probing>>

\* The machine moves; the coordinator or an endpoint goes or comes.
Moves ==
  /\ \/ network' \in Network \ {network} /\ UNCHANGED <<coordinator, answers>>
     \/ coordinator' = ~coordinator /\ UNCHANGED <<network, answers>>
     \/ \E e \in Endpoint :
          /\ answers' = (answers \ {e}) \cup ({e} \ answers)
          /\ UNCHANGED <<network, coordinator>>
  /\ UNCHANGED <<mode, timer, flag, probing>>

LNext ==
  \/ StartTimer \/ AskMode \/ Forget \/ Moves
  \/ \E e \in Endpoint : Probe(e) \/ \E s \in Slot : ProbeEnds(e, s)

\* The timer fires, a probe has a timeout, what is remembered expires.
LFairness ==
  /\ WF_lvars(timer /\ Forget)
  /\ \A e \in Endpoint : SF_lvars(Probe(e))
  /\ \A e \in Endpoint, s \in Slot : WF_lvars(ProbeEnds(e, s))

-----------------------------------------------------------------------------
(* Properties.                                                             *)

StaysAway(e) == <>[](timer /\ coordinator /\ Wants[e] # Any /\ network # Wants[e])
StaysNear(e) ==
  <>[](timer /\ coordinator /\ e \in answers /\ (Wants[e] = Any \/ network = Wants[e]))
StaysSilent(e) == <>[](timer /\ e \notin answers /\ (Wants[e] = Any \/ network = Wants[e]))

\* An endpoint of another network is given up, although probes that were under way
\* when the machine moved may still raise its flag.
AwayMeansOff == \A e \in Endpoint : StaysAway(e) => <>[](e \notin flag)
\* One that no longer answers is given up.
SilentMeansOff == \A e \in Endpoint : StaysSilent(e) => <>[](e \notin flag)
\* One within reach is taken up, although the network that is remembered may be another.
NearMeansOn == \A e \in Endpoint : StaysNear(e) => <>[](e \in flag)

\* Whatever overlapping probes and a remembered network did meanwhile, the flag ends
\* up saying what is the case.
FlagsSettle == AwayMeansOff /\ SilentMeansOff /\ NearMeansOn
=============================================================================
