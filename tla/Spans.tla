------------------------------- MODULE Spans --------------------------------
(***************************************************************************)
(* Measurement spans: src/measurement-span.ts, the binding of a call to    *)
(* one in proxy-bridge/measurement.mjs, and the taps of POST /api/complete *)
(* that record answers under a span and replay them under a later one. A   *)
(* span is a file, one for all and one for the agent, that commands of     *)
(* other processes write and remove while calls are under way.             *)
(*                                                                         *)
(* Nothing keeps two commands apart, not even on one slot. All calls ask   *)
(* the same, so that the ordinal alone tells their fixtures apart; the     *)
(* modules that keep them are not in this repository, and are taken to     *)
(* write each fixture they are given.                                      *)
(***************************************************************************)
EXTENDS Naturals, Sequences, FiniteSets

CONSTANTS Span, NoSpan, TornSpan, GarbledSpan,
          Ambient,     \* spans a reconciler opens
          Mode,        \* span -> "off", "record" or "replay"
          From,        \* span -> the span whose fixtures it replays
          Cmd,         \* bound: as many commands as overlap
          Job, Tap,    \* calls; those of the passthrough
          Background,  \* calls of the daemons
          MaxUpsets    \* bound: restarts of the proxy and commands that are killed

ASSUME SpansAssumption ==
  /\ Ambient \subseteq Span /\ Tap \subseteq Job /\ Background \subseteq Job \ Tap
  /\ Mode \in [Span -> {"off", "record", "replay"}] /\ From \in [Span -> Span]
  /\ {NoSpan, TornSpan, GarbledSpan} \cap Span = {}
  /\ NoSpan \notin {TornSpan, GarbledSpan} /\ TornSpan # GarbledSpan
  /\ IsFiniteSet(Job)

Slot == {"global", "agent"}

VARIABLES
  slot,     \* slot -> the span in its file, NoSpan without one, TornSpan while it is
            \* empty, GarbledSpan when two have written it
  cmd,      \* command -> [op, slot, span]: what it is at
  used,     \* spans that have been started
  archive,
  raced,    \* history: slots whose span was written while a stop was under way there
  mods,     \* whether the modules of the taps could be loaded
  last,     \* _lastReproSpanId
  ordinal,  \* the ordinal of the next call
  fixtures, \* span -> the ordinals its calls were recorded under, in their order
  bound,    \* call -> [pc, span, task, seen]
  mixed,    \* history: spans some of whose ordinals went to another's call, or were
            \* restarted
  upsets

tvars == <<mods, last, ordinal, fixtures, mixed>>
pvars == <<slot, cmd, used, archive, raced, bound, upsets, tvars>>

NoCmd == [op |-> "none", slot |-> "global", span |-> NoSpan]
Idle(pc, task) == [pc |-> pc, span |-> NoSpan, task |-> task, seen |-> {}]

PInit ==
  /\ slot = [k \in Slot |-> NoSpan] /\ cmd = [n \in Cmd |-> NoCmd]
  /\ used = {} /\ archive = {} /\ raced = {} /\ mods \in BOOLEAN
  /\ last = NoSpan /\ ordinal = 0 /\ fixtures = [s \in Span |-> <<>>]
  /\ bound = [c \in Job |-> Idle("new", NoSpan)] /\ mixed = {} /\ upsets = 0

-----------------------------------------------------------------------------
(* The commands.                                                           *)

Turns(n, op, k, s) == cmd' = [cmd EXCEPT ![n] = [op |-> op, slot |-> k, span |-> s]]
Finishes(n) == cmd' = [cmd EXCEPT ![n] = NoCmd]

\* startMeasurement: the file is truncated, whatever is in it,
StartBegins(n, k, s) ==
  /\ cmd[n] = NoCmd /\ s \notin used /\ (s \in Ambient => k = "agent")
  /\ Turns(n, "start", k, s) /\ used' = used \cup {s}
  /\ slot' = [slot EXCEPT ![k] = TornSpan] /\ raced' = raced \ {k}
  /\ UNCHANGED <<archive, bound, upsets, tvars>>

Running(c) == bound[c].pc = "open"

StopUnderWay(k) == \E n \in Cmd : cmd[n].op \in {"stop", "archived"} /\ cmd[n].slot = k

\* then written. What another start wrote meanwhile is overwritten from its beginning:
\* a shorter span leaves the end of a longer one.
StartEnds(n) ==
  LET k == cmd[n].slot s == cmd[n].span IN
  /\ cmd[n].op = "start" /\ Finishes(n)
  /\ \/ /\ slot' = [slot EXCEPT ![k] = s]
        /\ bound' = [c \in Job |->
             IF Running(c) THEN [bound[c] EXCEPT !.seen = @ \cup {s}] ELSE bound[c]]
        /\ raced' = IF StopUnderWay(k) THEN raced \cup {k} ELSE raced \ {k}
     \/ /\ slot[k] # TornSpan /\ slot' = [slot EXCEPT ![k] = GarbledSpan]
        /\ UNCHANGED <<bound, raced>>
  /\ UNCHANGED <<used, archive, upsets, tvars>>

\* The file it has open was removed: what it writes shows nowhere.
StartLost(n) ==
  /\ cmd[n].op = "lost" /\ Finishes(n)
  /\ UNCHANGED <<slot, used, archive, raced, bound, upsets, tvars>>

\* The file of the slot is removed, under the starts that have it open.
Unlinked(k, n) ==
  /\ slot' = [slot EXCEPT ![k] = NoSpan] /\ raced' = raced \ {k}
  /\ cmd' = [o \in Cmd |->
       IF o = n THEN NoCmd
       ELSE IF cmd[o].op = "start" /\ cmd[o].slot = k THEN [cmd[o] EXCEPT !.op = "lost"]
       ELSE cmd[o]]

\* stopMeasurement: the span is read,
StopReads(n, k) ==
  /\ cmd[n] = NoCmd /\ slot[k] \in Span /\ Turns(n, "stop", k, slot[k])
  /\ UNCHANGED <<slot, used, archive, raced, bound, upsets, tvars>>

\* archived, in one step by a rename,
Archives(n) ==
  /\ cmd[n].op = "stop" /\ Turns(n, "archived", cmd[n].slot, cmd[n].span)
  /\ archive' = archive \cup {cmd[n].span}
  /\ UNCHANGED <<slot, used, raced, bound, upsets, tvars>>

\* and the file is removed, whatever is in it by then.
Removes(n) ==
  /\ cmd[n].op = "archived" /\ Unlinked(cmd[n].slot, n)
  /\ UNCHANGED <<used, archive, bound, upsets, tvars>>

\* clearAgentSpan.
ClearAgent(n) ==
  /\ cmd[n] = NoCmd /\ slot["agent"] # NoSpan /\ Unlinked("agent", n)
  /\ UNCHANGED <<used, archive, bound, upsets, tvars>>

\* The command is killed.
Dies(n) ==
  /\ upsets < MaxUpsets /\ upsets' = upsets + 1
  /\ cmd[n] # NoCmd /\ Finishes(n)
  /\ UNCHANGED <<slot, used, archive, raced, bound, tvars>>

-----------------------------------------------------------------------------
(* The calls.                                                              *)

\* getActiveMeasurement: a file that does not parse is no span.
Active(k) == IF slot[k] \in Span THEN slot[k] ELSE NoSpan

\* Mutant: while no file can be read the span of the last armed call stands.
LiveRemembered ==
  IF Active("global") # NoSpan THEN Active("global")
  ELSE IF Active("agent") # NoSpan THEN Active("agent") ELSE last
\* resolveLiveTaskId: a deliberate span first, the agent's before the one for all. The
\* two files are read one after the other, which is taken as one step.
Live ==
  LET own == Active("agent") all == Active("global") IN
  IF own # NoSpan /\ own \notin Ambient THEN own
  ELSE IF all # NoSpan /\ all \notin Ambient THEN all
  ELSE IF own # NoSpan THEN own ELSE all

Armed(s) == s # NoSpan /\ Mode[s] # "off" /\ mods

\* Mutant: the ordinals run on.
ResetNever(s) == FALSE
Resets(s) == Armed(s) /\ s # last

Begun(c, pc) ==
  bound' = [bound EXCEPT ![c] = [pc |-> pc, span |-> Active("global"),
             task |-> IF c \in Tap THEN Active("agent") ELSE NoSpan,
             seen |-> {Active("global"), Active("agent")} \ {NoSpan}]]

\* The passthrough: bindTapTaskId looks at the agent's slot, at once.
TapBegins(c) ==
  /\ c \in Tap /\ bound[c].pc = "new" /\ Begun(c, "open")
  /\ UNCHANGED <<slot, cmd, used, archive, raced, upsets, tvars>>

\* POST /api/complete, up to the decision; a replayed call ends here.
Begins(c) ==
  LET s == Active("global")
      at == IF Resets(s) THEN 0 ELSE ordinal
      replayed == Armed(s) /\ Mode[s] = "replay"
      hit == \E i \in DOMAIN fixtures[From[s]] : fixtures[From[s]][i] = at
  IN
  /\ c \notin Tap /\ bound[c].pc = "new"
  /\ Begun(c, IF ~replayed THEN "open" ELSE IF hit THEN "replayed" ELSE "missed")
  /\ last' = IF Armed(s) THEN s ELSE last
  /\ ordinal' = IF replayed THEN at + 1 ELSE at
  /\ UNCHANGED <<slot, cmd, used, archive, raced, mods, fixtures, mixed, upsets>>

\* The tap's answer has passed: its row goes to the task it began with.
TapEnds(c) ==
  /\ c \in Tap /\ Running(c)
  /\ bound' = [bound EXCEPT ![c] = Idle("done", @.task)]
  /\ UNCHANGED <<slot, cmd, used, archive, raced, upsets, tvars>>

\* bindCompleteTaskId, when the answer is in.
Task(c) == IF c \in Background THEN NoSpan ELSE Live

\* The answer is in: recorded under the span the call began in, the row is bound.
Ends(c) ==
  LET s == bound[c].span
      records == Armed(s) /\ Mode[s] = "record"
  IN
  /\ c \notin Tap /\ Running(c)
  /\ bound' = [bound EXCEPT ![c] = Idle("done", Task(c))]
  /\ fixtures' = IF records THEN [fixtures EXCEPT ![s] = Append(@, ordinal)] ELSE fixtures
  /\ ordinal' = IF records THEN ordinal + 1 ELSE ordinal
  /\ mixed' = IF records /\ s # last THEN mixed \cup {s, last} ELSE mixed
  /\ UNCHANGED <<slot, cmd, used, archive, raced, mods, last, upsets>>

Fails(c) ==
  /\ Running(c) /\ bound' = [bound EXCEPT ![c] = Idle("done", NoSpan)]
  /\ UNCHANGED <<slot, cmd, used, archive, raced, upsets, tvars>>

\* The proxy restarts: an armed span that stays open starts its ordinals over.
Restart ==
  /\ upsets < MaxUpsets /\ upsets' = upsets + 1
  /\ mixed' = IF last = NoSpan THEN mixed ELSE mixed \cup {last}
  /\ last' = NoSpan /\ ordinal' = 0
  /\ bound' = [c \in Job |-> IF Running(c) THEN Idle("done", NoSpan) ELSE bound[c]]
  /\ UNCHANGED <<slot, cmd, used, archive, raced, mods, fixtures>>

PNext ==
  \/ \E n \in Cmd :
       \/ StartEnds(n) \/ StartLost(n) \/ Archives(n) \/ Removes(n) \/ Dies(n) \/ ClearAgent(n)
       \/ \E k \in Slot : StopReads(n, k) \/ \E s \in Span : StartBegins(n, k, s)
  \/ \E c \in Job : TapBegins(c) \/ TapEnds(c) \/ Begins(c) \/ Ends(c) \/ Fails(c)
  \/ Restart

PSpec == PInit /\ [][PNext]_pvars

-----------------------------------------------------------------------------
(* Properties.                                                             *)

Answered(c) == Running(c) /\ bound'[c].pc = "done"

\* No row goes to a span that was not open at any time while its call ran, whatever
\* was written or removed meanwhile, and none to a file that is half written.
NoBorrowedTask ==
  [][\A c \in Job : Answered(c) => bound'[c].task \in bound[c].seen \cup {NoSpan}]_bound

\* An answer that comes while a deliberate span is open is not booked on the span the
\* reconciler keeps for the agent.
DeliberateWins ==
  [][\A c \in Job \ (Tap \cup Background) :
       Answered(c) /\ slot["global"] \in Span \ Ambient =>
         bound'[c].task \notin Ambient]_bound

\* A span leaves the slot for all only for another or into the archive, unless it was
\* written while a stop was under way: a command that is killed half way has not lost it.
NoSpanVanishes ==
  [][slot["global"] \in Span /\ slot'["global"] = NoSpan =>
       slot["global"] \in archive' \/ "global" \in raced]_slot

\* A row is booked where it belongs, although spans come and go by commands of other
\* processes while the call runs.
SpansHonoured == NoBorrowedTask /\ DeliberateWins /\ NoSpanVanishes

\* The fixtures of a span are numbered from zero without a gap, unless calls of two
\* armed spans overlapped or the proxy was restarted under it.
FixturesLineUp ==
  \A s \in Span \ mixed : \A i \in DOMAIN fixtures[s] : fixtures[s][i] = i - 1

\* A replayed call misses only when its span has made more calls than were recorded by
\* then, with the same exceptions.
ReplayHits ==
  [][\A c \in Job :
       LET s == bound'[c].span IN
       bound[c].pc = "new" /\ bound'[c].pc = "missed" /\ {s, From[s]} \cap mixed = {} =>
         Cardinality({x \in Job : bound'[x].span = s /\ bound'[x].pc \in {"replayed", "missed"}})
           > Len(fixtures[From[s]])]_bound

\* A recording can be replayed: it is gapless, and is hit call by call.
ReplayFaithful == []FixturesLineUp /\ ReplayHits

\* server.mjs:3940 says that a call under a replay span never falls through to a live
\* provider.
NeverLive ==
  \A c \in Job \ Tap :
    bound[c].span # NoSpan /\ Running(c) => Mode[bound[c].span] # "replay"

\* stopMeasurement's comment says that it archives the span and "then removes" its file;
\* but the span that a start has put there since it read goes too, unarchived. Nothing
\* but "single-operator workflow", in startMeasurement's, keeps the two apart.
RemovedIsArchived ==
  [][slot["global"] \in Span /\ slot'["global"] = NoSpan => slot["global"] \in archive']_slot

\* The row goes to the span whose flags armed the call.
ArmedIsBound ==
  [][\A c \in Job \ (Tap \cup Background) :
       Answered(c) /\ bound[c].span # NoSpan => bound'[c].task = bound[c].span]_bound
=============================================================================
