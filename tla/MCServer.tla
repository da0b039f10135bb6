------------------------------ MODULE MCServer ------------------------------
(* The parts of the server beside the dispatcher, side by side: a behaviour *)
(* is one of the process, of the local endpoints' probes, of the tunnels or *)
(* of one account's calls. They share no state, so a behaviour of all of    *)
(* them is one of each.                                                     *)
EXTENDS Server, LocalEndpoints, Intercept, Completers

CONSTANTS a, b, c, copilot, claude, e, h

MCChecks == <<copilot, claude>>
MCWants == [x \in {e, h} |-> IF x = e THEN "corporate" ELSE Any]

VARIABLE part

mcvars == <<svars, lvars, ivars, cvars, part>>

Init ==
  /\ part \in {"process", "endpoints", "tunnels", "calls"}
  /\ SInit /\ LInit /\ IInit /\ CInit
  /\ part # "process" => token /\ watched
  /\ part # "endpoints" => network = "public"
  /\ part # "tunnels" => ~upstream
  /\ part # "calls" => account = "key"
  /\ account = "key" => stored = NoToken /\ accepted = {}
  /\ account = "copilot" => leg[a] = "chat" /\ leg[b] = "responses"

Next ==
  /\ UNCHANGED part
  /\ \/ part = "process" /\ SNext /\ UNCHANGED <<lvars, ivars, cvars>>
     \/ part = "endpoints" /\ LNext /\ UNCHANGED <<svars, ivars, cvars>>
     \/ part = "tunnels" /\ INext /\ UNCHANGED <<svars, lvars, cvars>>
     \/ part = "calls" /\ CNext /\ UNCHANGED <<svars, lvars, ivars>>

Spec == Init /\ [][Next]_mcvars /\ SFairness /\ LFairness /\ IFairness /\ CFairness

\* Whatever the server has begun comes to its end: a shutdown, a call's wait for the
\* start, a tunnel whose client has left and whose host is dialled without a proxy, a
\* call to a provider that keeps silent, a call of claude's whose client has left.
BegunEnds == ShutdownEnds /\ WaitEnds /\ TunnelsEnd /\ NeverStuck /\ GoneEnds
=============================================================================
