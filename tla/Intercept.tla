----------------------------- MODULE Intercept ------------------------------
(***************************************************************************)
(* The CONNECT tunnels of proxy-bridge/intercept.mjs: a connection to a    *)
(* host that is not intercepted is dialled, through the egress proxy when  *)
(* there is one, and piped; close() ends every tunnel. A dial is awaited:  *)
(* the client may leave, the egress proxy be changed and the listener be   *)
(* closed before it ends. An intercepted host is decrypted in one step,    *)
(* its requests are those of Offload.                                      *)
(***************************************************************************)
CONSTANTS Tunnel,      \* CONNECT requests
          Decrypted,   \* those whose host is on the list
          Bypassed     \* those whose host NO_PROXY exempts

ASSUME InterceptAssumption == Decrypted \subseteq Tunnel /\ Bypassed \subseteq Tunnel

VARIABLES
  tunnel,   \* tunnel -> [pc, client, sock, via]: sockets are "none", "open", "gone"
  open,     \* the tracked ends: <<tunnel, "client">> and <<tunnel, "sock">>
  closed,   \* close() has been called
  upstream  \* whether an egress proxy is set

ivars == <<tunnel, open, closed, upstream>>

IInit ==
  /\ tunnel = [t \in Tunnel |-> [pc |-> "new", client |-> "none", sock |-> "none", via |-> FALSE]]
  /\ open = {} /\ closed = FALSE /\ upstream \in BOOLEAN

\* viaUpstream, when the dial starts.
Via(t) == upstream /\ t \notin Bypassed

\* onConnect, while the listener is attached.
Connect(t) ==
  /\ tunnel[t].pc = "new" /\ ~closed
  /\ tunnel' = [tunnel EXCEPT ![t] = [@ EXCEPT !.client = "open",
       !.pc = IF t \in Decrypted THEN "open" ELSE "dialing", !.via = Via(t)]]
  /\ open' = open \cup {<<t, "client">>}
  /\ UNCHANGED <<closed, upstream>>

\* Mutant: the dial's end does not look whether the listener was closed meanwhile.
DialledUnchecked(t) ==
  /\ tunnel[t].pc = "dialing"
  /\ tunnel' = [tunnel EXCEPT ![t] = [@ EXCEPT !.pc = "open", !.sock = "open"]]
  /\ open' = open \cup {<<t, "sock">>}
  /\ UNCHANGED <<closed, upstream>>
\* The dial ends with a socket: piped, or destroyed when nobody waits for it.
Dialled(t) ==
  /\ tunnel[t].pc = "dialing"
  /\ IF closed \/ tunnel[t].client = "gone"
     THEN /\ tunnel' = [tunnel EXCEPT ![t] = [@ EXCEPT !.pc = "over", !.client = "gone", !.sock = "gone"]]
          /\ open' = open \ {<<t, "client">>}
     ELSE /\ tunnel' = [tunnel EXCEPT ![t] = [@ EXCEPT !.pc = "open", !.sock = "open"]]
          /\ open' = open \cup {<<t, "sock">>}
  /\ UNCHANGED <<closed, upstream>>

\* The dial fails: a 502 ends the client's connection.
DialFails(t) ==
  /\ tunnel[t].pc = "dialing"
  /\ tunnel' = [tunnel EXCEPT ![t] = [@ EXCEPT !.pc = "over", !.client = "gone"]]
  /\ open' = open \ {<<t, "client">>}
  /\ UNCHANGED <<closed, upstream>>

\* A tunnel without its client.
Left(x) ==
  [x EXCEPT !.client = "gone", !.sock = IF x.sock = "open" THEN "gone" ELSE x.sock,
            !.pc = IF x.pc = "open" THEN "over" ELSE x.pc]

\* The client's socket closes; an open tunnel's other end goes with it.
ClientLeaves(t) ==
  /\ tunnel[t].client = "open"
  /\ tunnel' = [tunnel EXCEPT ![t] = Left(@)]
  /\ open' = open \ {<<t, "client">>, <<t, "sock">>}
  /\ UNCHANGED <<closed, upstream>>

\* The far end closes or breaks: the client is ended or destroyed with it.
FarEndLeaves(t) ==
  /\ tunnel[t].sock = "open"
  /\ tunnel' = [tunnel EXCEPT ![t] = [@ EXCEPT !.pc = "over", !.client = "gone", !.sock = "gone"]]
  /\ open' = open \ {<<t, "client">>, <<t, "sock">>}
  /\ UNCHANGED <<closed, upstream>>

\* close(): the tracked sockets are destroyed, no other.
Shut(t, end, sock) == IF <<t, end>> \in open THEN "gone" ELSE sock
Close ==
  /\ ~closed /\ closed' = TRUE /\ open' = {}
  /\ tunnel' = [t \in Tunnel |->
       [pc |-> IF tunnel[t].pc = "open" THEN "over" ELSE tunnel[t].pc, via |-> tunnel[t].via,
        client |-> Shut(t, "client", tunnel[t].client),
        sock |-> Shut(t, "sock", tunnel[t].sock)]]
  /\ UNCHANGED upstream

SetUpstream ==
  upstream' = ~upstream /\ UNCHANGED <<tunnel, open, closed>>

INext ==
  \/ \E t \in Tunnel : Connect(t) \/ Dialled(t) \/ DialFails(t) \/ ClientLeaves(t) \/ FarEndLeaves(t)
  \/ Close \/ SetUpstream

\* A host that is dialled itself ends the dial, with a socket or the error of the
\* operating system. Through a proxy nothing does: the CONNECT that it may leave
\* unanswered has no timeout, and neither close() nor the client's end aborts it.
IFairness == \A t \in Tunnel : WF_ivars(~tunnel[t].via /\ (Dialled(t) \/ DialFails(t)))

ISpec == IInit /\ [][INext]_ivars /\ IFairness

-----------------------------------------------------------------------------
(* Properties.                                                             *)

\* The sockets close() will destroy are the open ones, each end on its own.
Tracked ==
  /\ open \subseteq Tunnel \X {"client", "sock"}
  /\ \A t \in Tunnel :
       /\ <<t, "client">> \in open <=> tunnel[t].client = "open"
       /\ <<t, "sock">> \in open <=> tunnel[t].sock = "open"
       /\ tunnel[t].pc \in {"new", "dialing", "open", "over"}

\* close() ends every tunnel: from then on no socket is open that was or will be
\* opened for one, a dial that was under way included.
NothingAfterClose ==
  closed => \A t \in Tunnel : tunnel[t].client # "open" /\ tunnel[t].sock # "open"

\* No far end stays open once its client has gone, or before it has been handed over.
NoHalfTunnel == \A t \in Tunnel : tunnel[t].sock = "open" => tunnel[t].client = "open"

\* The two ends of a tunnel, the set close() works on and the dial that is awaited
\* never drift apart.
TunnelsKept == Tracked /\ NothingAfterClose /\ NoHalfTunnel

\* A tunnel that was begun comes to its end once its client has left, unless its host
\* was dialled through a proxy.
TunnelsEnd ==
  \A t \in Tunnel :
    tunnel[t].client = "gone" /\ ~tunnel[t].via ~> tunnel[t].pc = "over"

\* Of those through a proxy it does not hold: one that never answers holds the dial.
ProxiedTunnelsEnd == \A t \in Tunnel : tunnel[t].client = "gone" ~> tunnel[t].pc = "over"
=============================================================================
