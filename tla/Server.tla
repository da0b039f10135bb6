------------------------------- MODULE Server -------------------------------
(***************************************************************************)
(* The process of proxy-bridge/server.mjs from its start to its end. The   *)
(* port opens first; what the providers are is found out after that, one   *)
(* check at a time. A call that is routed over providers waits for the     *)
(* last check, a passthrough call does not. A signal closes the port and   *)
(* lets the calls under way finish, for a while; the claude subprocesses   *)
(* are reaped after that. A change of auth.json is noticed by a watch, if  *)
(* the platform has one.                                                   *)
(*                                                                         *)
(* A connection carries one call, which arrives with its body whole. The   *)
(* local endpoints' later probes are those of LocalEndpoints.              *)
(***************************************************************************)
EXTENDS Naturals, Sequences

CONSTANTS Request,  \* calls
          Routed,   \* those that are routed over providers
          Overflow, \* those that claude serves, if it does, by a subprocess of their own
          Checks,   \* the providers, in the order of initProviders
          Copilot   \* the one GET /health looks at again

Provider == {Checks[i] : i \in DOMAIN Checks}

ASSUME ServerAssumption ==
  /\ Overflow \subseteq Routed /\ Routed \subseteq Request
  /\ Checks \in Seq(Provider) /\ Copilot \in Provider

VARIABLES
  proc,      \* "down", "up", "draining", "gone"
  ended,     \* how it went: "none", "drained", "timeout", "crash"
  checked,   \* checks that are over; the one after the providers' ends the start
  available, \* the providers' available flags
  token,     \* whether auth.json holds a login
  oauth,     \* whether one has been read: it is kept when it can no longer be
  watched,   \* whether fs.watch works here
  conn,      \* call -> [pc, saw]: the providers available when it was routed
  warm,      \* subprocesses of the pool, by the call that spawned them
  own        \* subprocesses of a single call

svars == <<proc, ended, checked, available, token, oauth, watched, conn, warm, own>>

Initialized == checked > Len(Checks)
Under == {"waiting", "open"}

SInit ==
  /\ proc = "down" /\ ended = "none" /\ checked = 0 /\ available = {}
  /\ token \in BOOLEAN /\ oauth = FALSE /\ watched \in BOOLEAN
  /\ conn = [r \in Request |-> [pc |-> "new", saw |-> {}]]
  /\ warm = {} /\ own = {}

\* main: listen, then start the checks.
Listen ==
  /\ proc = "down" /\ proc' = "up"
  /\ UNCHANGED <<ended, checked, available, token, oauth, watched, conn, warm, own>>

\* loadCopilotOAuth.
Loads == oauth' = (oauth \/ token)

Asks(p) == checked < Len(Checks) /\ Checks[checked + 1] = p

\* A check ends, by its answer or its timeout. It can only raise the flag.
Check ==
  /\ proc \in {"up", "draining"} /\ ~Initialized
  /\ checked' = checked + 1
  /\ IF Asks(Copilot) THEN Loads ELSE UNCHANGED oauth
  /\ \/ /\ checked < Len(Checks) /\ (Asks(Copilot) => oauth')
        /\ available' = available \cup {Checks[checked + 1]}
     \/ UNCHANGED available
  /\ UNCHANGED <<proc, ended, token, watched, conn, warm, own>>

\* GET /health.
Health ==
  /\ proc = "up" /\ Loads
  /\ available' = IF oauth' THEN available \cup {Copilot} ELSE available \ {Copilot}
  /\ UNCHANGED <<proc, ended, checked, token, watched, conn, warm, own>>

Waits(r) == r \in Routed /\ ~Initialized

Served(r) == [pc |-> "open", saw |-> available]

Arrive(r) ==
  /\ proc = "up" /\ conn[r].pc = "new"
  /\ conn' = [conn EXCEPT ![r] = IF Waits(r) THEN [@ EXCEPT !.pc = "waiting"] ELSE Served(r)]
  /\ UNCHANGED <<proc, ended, checked, available, token, oauth, watched, warm, own>>

\* _providersReady is resolved.
Resume(r) ==
  /\ proc \in {"up", "draining"} /\ conn[r].pc = "waiting" /\ Initialized
  /\ conn' = [conn EXCEPT ![r] = Served(r)]
  /\ UNCHANGED <<proc, ended, checked, available, token, oauth, watched, warm, own>>

\* claude serves the call: by a worker of the pool, that stays, or by a subprocess.
Spawn(r) ==
  /\ proc \in {"up", "draining"} /\ conn[r].pc = "open" /\ r \in Routed
  /\ \/ r \notin Overflow /\ warm' = warm \cup {r} /\ UNCHANGED own
     \/ r \in Overflow /\ own' = own \cup {r} /\ UNCHANGED warm
  /\ UNCHANGED <<proc, ended, checked, available, token, oauth, watched, conn>>

\* The call is answered, or its client leaves: its own subprocess ends with it.
Ends(r) ==
  /\ proc \in {"up", "draining"}
  /\ \/ conn[r].pc = "open" /\ conn' = [conn EXCEPT ![r].pc = "answered"]
     \/ conn[r].pc \in Under /\ conn' = [conn EXCEPT ![r].pc = "left"]
  /\ own' = own \ {r}
  /\ UNCHANGED <<proc, ended, checked, available, token, oauth, watched, warm>>

\* SIGTERM or SIGINT; a second one changes nothing.
Signal ==
  /\ proc = "up" /\ proc' = "draining"
  /\ UNCHANGED <<ended, checked, available, token, oauth, watched, conn, warm, own>>

Cut == [r \in Request |-> IF conn[r].pc \in Under THEN [conn[r] EXCEPT !.pc = "cut"] ELSE conn[r]]

Reaped(kids) == {}

Exit(how) ==
  /\ proc' = "gone" /\ ended' = how /\ conn' = Cut
  /\ UNCHANGED <<checked, available, token, oauth, watched>>

\* Mutant: only calls that are being served hold the drain.
DrainedServed ==
  /\ proc = "draining" /\ \A r \in Request : conn[r].pc # "open"
  /\ warm' = Reaped(warm) /\ own' = own
  /\ Exit("drained")
\* close() calls back: every connection has ended.
Drained ==
  /\ proc = "draining" /\ \A r \in Request : conn[r].pc \notin Under
  /\ warm' = Reaped(warm) /\ own' = own
  /\ Exit("drained")

\* SHUTDOWN_DRAIN_MS.
DrainTimeout ==
  /\ proc = "draining"
  /\ warm' = Reaped(warm) /\ own' = own
  /\ Exit("timeout")

\* auth.json changes. The listener assigns a variable that is not declared: the
\* error it throws has no handler and ends the process, its subprocesses live on.
AuthChanges ==
  /\ proc \in {"up", "draining"}
  /\ IF watched
     THEN Exit("crash") /\ UNCHANGED <<warm, own>>
     ELSE /\ token' = ~token
          /\ UNCHANGED <<proc, ended, checked, available, oauth, watched, conn, warm, own>>

SNext ==
  \/ Listen \/ Check \/ Health \/ Signal \/ Drained \/ DrainTimeout \/ AuthChanges
  \/ \E r \in Request : Arrive(r) \/ Resume(r) \/ Spawn(r) \/ Ends(r)

\* Every check has a timeout, an await goes on, a timer fires. A provider may take
\* for ever to answer a call.
SFairness ==
  /\ WF_svars(Check) /\ WF_svars(Drained) /\ WF_svars(DrainTimeout)
  /\ \A r \in Request : WF_svars(Resume(r))

SSpec == SInit /\ [][SNext]_svars /\ SFairness

-----------------------------------------------------------------------------
(* Properties.                                                             *)

\* No routed call is given a chain that lacks a provider the start has found or
\* will find: the flags it read are those of the finished start.
RoutedSeesAll ==
  \A r \in Routed : conn[r].pc \in {"open", "answered"} => available \ {Copilot} \subseteq conn[r].saw

\* A shutdown leaves no worker of the pool behind, whatever calls did after the
\* signal; one that drained leaves no subprocess at all.
NoOrphans ==
  /\ ended \in {"drained", "timeout"} => warm = {}
  /\ ended = "drained" => own = {}

\* A shutdown that drained has cut no call, not one that waited for the start either.
DrainedWhole == ended = "drained" => \A r \in Request : conn[r].pc # "cut"

\* What the start finds out reaches every call it is for, and what a shutdown leaves
\* behind is neither a subprocess nor a call that it had promised to finish.
ProcessKept == RoutedSeesAll /\ NoOrphans /\ DrainedWhole

\* A shutdown comes to its end although an upstream never does.
ShutdownEnds == proc = "draining" ~> proc = "gone"

\* A call that waits for the start does not wait for ever.
WaitEnds == \A r \in Request : conn[r].pc = "waiting" ~> conn[r].pc # "waiting"

\* server.mjs:4785 says of a change of auth.json that it will be read "on next
\* request": the process that says so serves the next request.
RefreshSurvived == ended # "crash"
=============================================================================
