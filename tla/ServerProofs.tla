---------------------------- MODULE ServerProofs ----------------------------
(***************************************************************************)
(* Theorems about the process of Server and the tunnels of Intercept, for  *)
(* any calls, providers and tunnels.                                       *)
(***************************************************************************)
EXTENDS Server, Intercept, TLAPS

-----------------------------------------------------------------------------
(* The process.                                                            *)

Conn == [pc : {"new", "answered", "left", "cut"} \cup Under, saw : SUBSET Provider]

STypes ==
  /\ proc \in {"down", "up", "draining", "gone"}
  /\ checked \in Nat /\ available \subseteq Provider
  /\ conn \in [Request -> Conn]

\* A routed call is under way only when the start is over, and has then read all it
\* found; the start finds no more.
AfterStart ==
  \A r \in Routed : conn[r].pc \in {"open", "answered"} =>
    Initialized /\ available \ {Copilot} \subseteq conn[r].saw

\* Until the process ends no call is cut, and each subprocess is that of a call that
\* is open.
Alive ==
  proc # "gone" =>
    /\ ended = "none"
    /\ own \subseteq {r \in Request : conn[r].pc = "open"}
    /\ \A r \in Request : conn[r].pc # "cut"

SInv == STypes /\ AfterStart /\ Alive /\ NoOrphans /\ DrainedWhole

\* What the process keeps holds when it starts, ...
LEMMA SInvInit == SInit => SInv
PROOF
  <1> SUFFICES ASSUME SInit PROVE SInv
    OBVIOUS
  <1>1. STypes
    BY DEF SInit, STypes, Conn, Under
  <1>2. AfterStart
    BY ServerAssumption DEF SInit, AfterStart
  <1>3. Alive /\ NoOrphans /\ DrainedWhole
    BY DEF SInit, Alive, NoOrphans, DrainedWhole
  <1> QED BY <1>1, <1>2, <1>3 DEF SInv

\* ... and the end of the process keeps its types and what routed calls have seen.
LEMMA ExitKeeps ==
  ASSUME SInv, NEW how, Exit(how)
  PROVE  /\ STypes' /\ AfterStart' /\ Alive' /\ ended' = how
         /\ \A r \in Request :
              conn'[r].pc = IF conn[r].pc \in Under THEN "cut" ELSE conn[r].pc
PROOF
  <1> USE DEF SInv, STypes
  <1>1. conn' = Cut
    BY DEF Exit
  <1>2. \A r \in Request :
          /\ conn'[r] \in Conn /\ conn'[r].saw = conn[r].saw
          /\ conn'[r].pc = IF conn[r].pc \in Under THEN "cut" ELSE conn[r].pc
    BY <1>1 DEF Cut, Conn, Under
  <1>3. STypes'
    BY <1>1, <1>2 DEF Exit, Cut
  <1>4. AfterStart'
    BY <1>2, ServerAssumption DEF Exit, AfterStart, Initialized, Under
  <1>5. Alive' /\ ended' = how
    BY DEF Exit, Alive
  <1> QED BY <1>2, <1>3, <1>4, <1>5

\* One call changes while the process runs: it must be in order itself, and its own
\* subprocess must be given up unless it stays open.
LEMMA OneConn ==
  ASSUME SInv, NEW r \in Request, NEW c \in Conn, proc \in {"up", "draining"},
         conn' = [conn EXCEPT ![r] = c], c.pc # "cut",
         r \in Routed /\ c.pc \in {"open", "answered"} =>
           Initialized /\ available \ {Copilot} \subseteq c.saw,
         own' \subseteq own, c.pc # "open" => r \notin own',
         UNCHANGED <<proc, ended, checked, available, warm>>
  PROVE  SInv'
PROOF
  <1> USE DEF SInv, STypes
  <1>1. \A q \in Request : conn'[q] = IF q = r THEN c ELSE conn[q]
    OBVIOUS
  <1>2. STypes'
    BY <1>1
  <1>3. AfterStart'
    BY <1>1, ServerAssumption DEF AfterStart, Initialized
  <1>4. Alive'
    BY <1>1 DEF Alive
  <1>5. NoOrphans' /\ DrainedWhole'
    BY DEF Alive, NoOrphans, DrainedWhole
  <1> QED BY <1>2, <1>3, <1>4, <1>5

\* Every step keeps it.
LEMMA SInvNext == SInv /\ [SNext]_svars => SInv'
PROOF
  <1> SUFFICES ASSUME SInv, [SNext]_svars PROVE SInv'
    OBVIOUS
  <1> USE DEF SInv, STypes
  <1>1. CASE Listen
    BY <1>1 DEF Listen, AfterStart, Initialized, Alive, NoOrphans, DrainedWhole
  <1>2. CASE Check
    <2>1. checked' \in Nat /\ available' \subseteq Provider
      BY <1>2, ServerAssumption DEF Check, Provider
    <2>2. AfterStart'
      BY <1>2 DEF Check, AfterStart
    <2> QED BY <1>2, <2>1, <2>2 DEF Check, Alive, NoOrphans, DrainedWhole
  <1>3. CASE Health
    <2>1. available' \subseteq Provider /\ available' \ {Copilot} = available \ {Copilot}
      BY <1>3, ServerAssumption DEF Health
    <2> QED BY <1>3, <2>1 DEF Health, AfterStart, Initialized, Alive, NoOrphans, DrainedWhole
  <1>4. CASE Signal
    BY <1>4 DEF Signal, AfterStart, Initialized, Alive, NoOrphans, DrainedWhole
  <1>5. CASE Drained
    <2>1. \A r \in Request : conn[r].pc \notin Under
      BY <1>5 DEF Drained
    <2>2. /\ STypes' /\ AfterStart' /\ Alive' /\ ended' = "drained"
          /\ \A r \in Request : conn'[r].pc = conn[r].pc
      BY <1>5, <2>1, ExitKeeps DEF Drained
    <2>3. proc # "gone" /\ warm' = {} /\ own' = own
      BY <1>5 DEF Drained, Reaped
    <2>4. own = {}
      BY <2>1, <2>3 DEF Alive, Under
    <2> QED BY <2>2, <2>3, <2>4 DEF Alive, NoOrphans, DrainedWhole
  <1>6. CASE DrainTimeout
    <2>1. STypes' /\ AfterStart' /\ Alive' /\ ended' = "timeout"
      BY <1>6, ExitKeeps DEF DrainTimeout
    <2>2. warm' = {}
      BY <1>6 DEF DrainTimeout, Reaped
    <2> QED BY <2>1, <2>2 DEF NoOrphans, DrainedWhole
  <1>7. CASE AuthChanges
    <2>1. CASE watched
      <3>1. STypes' /\ AfterStart' /\ Alive' /\ ended' = "crash"
        BY <1>7, <2>1, ExitKeeps DEF AuthChanges
      <3> QED BY <3>1 DEF NoOrphans, DrainedWhole
    <2>2. CASE ~watched
      BY <1>7, <2>2 DEF AuthChanges, AfterStart, Initialized, Alive, NoOrphans, DrainedWhole
    <2> QED BY <2>1, <2>2
  <1>8. ASSUME NEW r \in Request, Arrive(r)
        PROVE  SInv'
    <2>1. CASE Waits(r)
      <3> DEFINE c == [conn[r] EXCEPT !.pc = "waiting"]
      <3>1. c \in Conn /\ c.pc = "waiting"
        BY DEF Conn, Under
      <3>2. r \notin own
        BY <1>8 DEF Arrive, Alive
      <3>3. conn' = [conn EXCEPT ![r] = c]
        BY <1>8, <2>1 DEF Arrive
      <3> HIDE DEF c
      <3> QED BY <1>8, <3>1, <3>2, <3>3, OneConn DEF Arrive
    <2>2. CASE ~Waits(r)
      <3> DEFINE c == Served(r)
      <3>1. c \in Conn /\ c.pc = "open" /\ c.saw = available
        BY DEF Served, Conn, Under
      <3>2. r \in Routed => Initialized
        BY <2>2 DEF Waits
      <3>3. conn' = [conn EXCEPT ![r] = c]
        BY <1>8, <2>2 DEF Arrive
      <3> HIDE DEF c
      <3> QED BY <1>8, <3>1, <3>2, <3>3, OneConn DEF Arrive
    <2> QED BY <2>1, <2>2
  <1>9. ASSUME NEW r \in Request, Resume(r)
        PROVE  SInv'
    <2> DEFINE c == Served(r)
    <2>1. c \in Conn /\ c.pc = "open" /\ c.saw = available
      BY DEF Served, Conn, Under
    <2>2. Initialized /\ conn' = [conn EXCEPT ![r] = c]
      BY <1>9 DEF Resume
    <2> HIDE DEF c
    <2> QED BY <1>9, <2>1, <2>2, OneConn DEF Resume
  <1>10. ASSUME NEW r \in Request, Spawn(r)
         PROVE  SInv'
    BY <1>10 DEF Spawn, AfterStart, Initialized, Alive, NoOrphans, DrainedWhole
  <1>11. ASSUME NEW r \in Request, Ends(r)
         PROVE  SInv'
    <2>1. /\ own' = own \ {r} /\ proc \in {"up", "draining"}
          /\ UNCHANGED <<proc, ended, checked, available, warm>>
      BY <1>11 DEF Ends
    <2>2. CASE conn[r].pc = "open" /\ conn' = [conn EXCEPT ![r].pc = "answered"]
      <3> DEFINE c == [conn[r] EXCEPT !.pc = "answered"]
      <3>1. c \in Conn /\ c.pc = "answered" /\ c.saw = conn[r].saw
        BY DEF Conn
      <3>2. conn' = [conn EXCEPT ![r] = c]
        BY <2>2
      <3>3. r \in Routed => Initialized /\ available \ {Copilot} \subseteq c.saw
        BY <2>2, <3>1 DEF AfterStart
      <3> HIDE DEF c
      <3> QED BY <2>1, <3>1, <3>2, <3>3, OneConn
    <2>3. CASE conn[r].pc \in Under /\ conn' = [conn EXCEPT ![r].pc = "left"]
      <3> DEFINE c == [conn[r] EXCEPT !.pc = "left"]
      <3>1. c \in Conn /\ c.pc = "left"
        BY DEF Conn
      <3>2. conn' = [conn EXCEPT ![r] = c]
        BY <2>3
      <3> HIDE DEF c
      <3> QED BY <2>1, <3>1, <3>2, OneConn
    <2> QED BY <1>11, <2>2, <2>3 DEF Ends
  <1>12. CASE UNCHANGED svars
    BY <1>12 DEF svars, AfterStart, Initialized, Alive, NoOrphans, DrainedWhole
  <1> QED BY <1>1, <1>2, <1>3, <1>4, <1>5, <1>6, <1>7, <1>8, <1>9, <1>10, <1>11, <1>12 DEF SNext

\* However slow the checks and the calls are, and whenever the signal comes: routed
\* calls see all the start found, a shutdown leaves no worker behind, and one that
\* drained has cut nobody.
THEOREM StartAndEnd == SSpec => []ProcessKept
PROOF
  <1>1. SInv => ProcessKept
    BY DEF SInv, AfterStart, ProcessKept, RoutedSeesAll
  <1> QED BY <1>1, SInvInit, SInvNext, PTL DEF SSpec

-----------------------------------------------------------------------------
(* The tunnels.                                                            *)

TunnelState ==
  [pc : {"new", "dialing", "open", "over"}, client : {"none", "open", "gone"},
   sock : {"none", "open", "gone"}, via : BOOLEAN]

TTypes ==
  /\ tunnel \in [Tunnel -> TunnelState]
  /\ closed \in BOOLEAN /\ upstream \in BOOLEAN

\* While a tunnel is dialled it has a client, perhaps one that has left, and no far end.
Dialing ==
  \A t \in Tunnel : tunnel[t].pc \in {"new", "dialing"} =>
    /\ tunnel[t].sock = "none"
    /\ tunnel[t].client = "none" <=> tunnel[t].pc = "new"

TInv == TTypes /\ Dialing /\ TunnelsKept

\* No tunnel has been asked for.
LEMMA TInvInit == IInit => TInv
PROOF
  <1> SUFFICES ASSUME IInit PROVE TInv
    OBVIOUS
  <1>1. TTypes
    BY DEF IInit, TTypes, TunnelState
  <1>2. Dialing /\ TunnelsKept
    BY DEF IInit, Dialing, TunnelsKept, Tracked, NothingAfterClose, NoHalfTunnel
  <1> QED BY <1>1, <1>2 DEF TInv

\* One tunnel changes: it must be in order itself, and the tracked ends follow it.
LEMMA OneTunnel ==
  ASSUME TInv, NEW t \in Tunnel, NEW c \in TunnelState,
         tunnel' = [tunnel EXCEPT ![t] = c],
         c.pc \in {"new", "dialing"} => c.sock = "none" /\ (c.client = "none" <=> c.pc = "new"),
         c.sock = "open" => c.client = "open",
         closed => c.client # "open" /\ c.sock # "open",
         open' \subseteq open \cup {<<t, "client">>, <<t, "sock">>},
         \A e \in {"client", "sock"} : <<t, e>> \in open' <=> c[e] = "open",
         \A q \in Tunnel \ {t} : \A e \in {"client", "sock"} :
           <<q, e>> \in open' <=> <<q, e>> \in open,
         UNCHANGED <<closed, upstream>>
  PROVE  TInv'
PROOF
  <1> USE DEF TInv, TTypes
  <1>1. \A q \in Tunnel : tunnel'[q] = IF q = t THEN c ELSE tunnel[q]
    OBVIOUS
  <1>2. TTypes'
    OBVIOUS
  <1>3. Dialing'
    BY <1>1 DEF Dialing
  <1>4. Tracked'
    <2>1. open' \subseteq Tunnel \X {"client", "sock"}
      BY DEF TunnelsKept, Tracked
    <2>2. c.pc \in {"new", "dialing", "open", "over"} /\ c["client"] = c.client /\ c["sock"] = c.sock
      BY DEF TunnelState
    <2> QED BY <1>1, <2>1, <2>2 DEF TunnelsKept, Tracked
  <1>5. NothingAfterClose' /\ NoHalfTunnel'
    BY <1>1 DEF TunnelsKept, NothingAfterClose, NoHalfTunnel
  <1> QED BY <1>2, <1>3, <1>4, <1>5 DEF TunnelsKept

\* Every step keeps the tunnels in order: a dial that ends looks for its client and
\* for close() before it hands the socket over.
LEMMA TInvNext == TInv /\ [INext]_ivars => TInv'
PROOF
  <1> SUFFICES ASSUME TInv, [INext]_ivars PROVE TInv'
    OBVIOUS
  <1> USE DEF TInv, TTypes
  <1>o. /\ \A t \in Tunnel : /\ tunnel[t] \in TunnelState
                             /\ <<t, "client">> \in open <=> tunnel[t].client = "open"
                             /\ <<t, "sock">> \in open <=> tunnel[t].sock = "open"
        /\ open \subseteq Tunnel \X {"client", "sock"}
    BY DEF TunnelsKept, Tracked
  <1>1. ASSUME NEW t \in Tunnel, Connect(t)
        PROVE  TInv'
    <2> DEFINE c == [tunnel[t] EXCEPT !.client = "open",
                       !.pc = IF t \in Decrypted THEN "open" ELSE "dialing", !.via = Via(t)]
    <2>1. tunnel' = [tunnel EXCEPT ![t] = c] /\ open' = open \cup {<<t, "client">>}
          /\ UNCHANGED <<closed, upstream>> /\ ~closed
      BY <1>1 DEF Connect
    <2>2. /\ c \in TunnelState /\ c.client = "open" /\ c.sock = "none" /\ c.pc # "new"
          /\ c["client"] = "open" /\ c["sock"] = "none"
      BY <1>1, <1>o DEF Connect, TunnelState, Via, Dialing
    <2>3. <<t, "sock">> \notin open
      BY <1>1, <1>o DEF Connect, Dialing
    <2> HIDE DEF c
    <2> QED BY <1>o, <2>1, <2>2, <2>3, OneTunnel
  <1>2. ASSUME NEW t \in Tunnel, Dialled(t)
        PROVE  TInv'
    <2>0. tunnel[t].sock = "none" /\ tunnel[t].client # "none" /\ UNCHANGED <<closed, upstream>>
      BY <1>2 DEF Dialled, Dialing
    <2>1. CASE closed \/ tunnel[t].client = "gone"
      <3> DEFINE c == [tunnel[t] EXCEPT !.pc = "over", !.client = "gone", !.sock = "gone"]
      <3>1. tunnel' = [tunnel EXCEPT ![t] = c] /\ open' = open \ {<<t, "client">>}
        BY <1>2, <2>1 DEF Dialled
      <3>2. /\ c \in TunnelState /\ c.client = "gone" /\ c.sock = "gone" /\ c.pc = "over"
            /\ c["client"] = "gone" /\ c["sock"] = "gone"
        BY <1>o DEF TunnelState
      <3> HIDE DEF c
      <3> QED BY <1>o, <2>0, <3>1, <3>2, OneTunnel
    <2>2. CASE ~(closed \/ tunnel[t].client = "gone")
      <3> DEFINE c == [tunnel[t] EXCEPT !.pc = "open", !.sock = "open"]
      <3>1. tunnel' = [tunnel EXCEPT ![t] = c] /\ open' = open \cup {<<t, "sock">>}
        BY <1>2, <2>2 DEF Dialled
      <3>2. /\ c \in TunnelState /\ c.client = "open" /\ c.sock = "open" /\ c.pc = "open"
            /\ c["client"] = "open" /\ c["sock"] = "open" /\ tunnel[t].client = "open"
        BY <1>o, <2>0, <2>2 DEF TunnelState
      <3> HIDE DEF c
      <3> QED BY <1>o, <2>0, <2>2, <3>1, <3>2, OneTunnel
    <2> QED BY <2>1, <2>2
  <1>3. ASSUME NEW t \in Tunnel, DialFails(t)
        PROVE  TInv'
    <2> DEFINE c == [tunnel[t] EXCEPT !.pc = "over", !.client = "gone"]
    <2>1. tunnel' = [tunnel EXCEPT ![t] = c] /\ open' = open \ {<<t, "client">>}
          /\ UNCHANGED <<closed, upstream>> /\ tunnel[t].sock = "none"
      BY <1>3 DEF DialFails, Dialing
    <2>2. /\ c \in TunnelState /\ c.client = "gone" /\ c.sock = "none" /\ c.pc = "over"
          /\ c["client"] = "gone" /\ c["sock"] = "none"
      BY <1>o, <2>1 DEF TunnelState
    <2> HIDE DEF c
    <2> QED BY <1>o, <2>1, <2>2, OneTunnel
  <1>4. ASSUME NEW t \in Tunnel, ClientLeaves(t)
        PROVE  TInv'
    <2> DEFINE c == Left(tunnel[t])
    <2>1. tunnel' = [tunnel EXCEPT ![t] = c]
          /\ open' = open \ {<<t, "client">>, <<t, "sock">>}
          /\ UNCHANGED <<closed, upstream>> /\ tunnel[t].client = "open"
      BY <1>4 DEF ClientLeaves
    <2>2. /\ c \in TunnelState /\ c.client = "gone" /\ c["client"] = "gone"
          /\ c.sock \in {"none", "gone"} /\ c["sock"] = c.sock
          /\ c.pc = (IF tunnel[t].pc = "open" THEN "over" ELSE tunnel[t].pc)
          /\ tunnel[t].sock = "none" => c.sock = "none"
      BY <1>o DEF TunnelState, Left
    <2>3. c.pc \in {"new", "dialing"} => c.sock = "none" /\ c.pc # "new"
      BY <2>1, <2>2 DEF Dialing
    <2> HIDE DEF c
    <2> QED BY <1>o, <2>1, <2>2, <2>3, OneTunnel
  <1>5. ASSUME NEW t \in Tunnel, FarEndLeaves(t)
        PROVE  TInv'
    <2> DEFINE c == [tunnel[t] EXCEPT !.pc = "over", !.client = "gone", !.sock = "gone"]
    <2>1. tunnel' = [tunnel EXCEPT ![t] = c]
          /\ open' = open \ {<<t, "client">>, <<t, "sock">>}
          /\ UNCHANGED <<closed, upstream>>
      BY <1>5 DEF FarEndLeaves
    <2>2. /\ c \in TunnelState /\ c.client = "gone" /\ c.sock = "gone" /\ c.pc = "over"
          /\ c["client"] = "gone" /\ c["sock"] = "gone"
      BY <1>o DEF TunnelState
    <2> HIDE DEF c
    <2> QED BY <1>o, <2>1, <2>2, OneTunnel
  <1>6. CASE Close
    <2>1. \A t \in Tunnel :
            /\ tunnel'[t].client = (IF tunnel[t].client = "open" THEN "gone" ELSE tunnel[t].client)
            /\ tunnel'[t].sock = (IF tunnel[t].sock = "open" THEN "gone" ELSE tunnel[t].sock)
            /\ tunnel'[t].pc = (IF tunnel[t].pc = "open" THEN "over" ELSE tunnel[t].pc)
      BY <1>6, <1>o DEF Close, Shut
    <2>2. TTypes'
      BY <1>6, <1>o DEF Close, Shut, TunnelState
    <2>3. Dialing'
      BY <1>o, <2>1 DEF Dialing, TunnelState
    <2>4. \A t \in Tunnel : tunnel'[t].client # "open" /\ tunnel'[t].sock # "open"
      BY <2>1
    <2>5. open' = {} /\ \A t \in Tunnel : tunnel'[t].pc \in {"new", "dialing", "open", "over"}
      BY <1>6, <1>o, <2>1 DEF Close, TunnelState
    <2> QED BY <2>2, <2>3, <2>4, <2>5 DEF TunnelsKept, Tracked, NothingAfterClose, NoHalfTunnel
  <1>7. CASE SetUpstream
    BY <1>7 DEF SetUpstream, Dialing, TunnelsKept, Tracked, NothingAfterClose, NoHalfTunnel
  <1>8. CASE UNCHANGED ivars
    BY <1>8 DEF ivars, Dialing, TunnelsKept, Tracked, NothingAfterClose, NoHalfTunnel
  <1> QED BY <1>1, <1>2, <1>3, <1>4, <1>5, <1>6, <1>7, <1>8 DEF INext

\* Whenever a client leaves, a dial ends or the listener closes: the two ends of a
\* tunnel go together, and after close() nothing is open.
THEOREM TunnelsOrderly == ISpec => []TunnelsKept
PROOF
  <1>1. TInv => TunnelsKept
    BY DEF TInv
  <1> QED BY <1>1, TInvInit, TInvNext, PTL DEF ISpec
=============================================================================
