# Verification of rapid-llm-proxy

TLA+ models of rapid-llm-proxy, the TLC runs that check them on small instances,
and theorems about them that TLAPS proves for all instances. Paths below are
relative to the repository; `pb/` stands for `proxy-bridge/`.

| component (source) | modules | runs | proofs |
|---|---|---|---|
| worker pool (`pb/worker-pool.mjs`) | `WorkerPool`, abstract `PromptService` | `pool_*` | `WorkerPoolProofs` |
| dispatcher of `/api/complete` (`pb/server.mjs`, `turn-band.mjs`) | `Dispatch`, abstract `ChainWalk` | `dispatch*` | `DispatchProofs` |
| passthrough with offload (`pb/offload.mjs`, `anthropic-forward.mjs`, `openai-passthrough.mjs`) | `Offload`, `Bands` | `daemon` | `OffloadProofs` |
| routing configuration (`pb/routing-config.mjs`, handlers in `server.mjs`) | `Routing`, `RoutingStore` | `routing` | `RoutingStoreProofs` |
| egress proxy (`pb/server.mjs`, `egress-decision.mjs`) | `Egress` | `egress_*` | `EgressProofs` |
| start and end of the process (`pb/server.mjs`) | `Server` | `server*` | `ServerProofs` |
| CONNECT tunnels (`pb/intercept.mjs`) | `Intercept` | `server` | `ServerProofs` |
| local endpoints, network mode (`pb/server.mjs`) | `LocalEndpoints` | `server` | - |
| one call to one provider, its token (`pb/server.mjs`) | `Completers` | `server` | - |
| SDK facade (`src/llm-service.ts`, `circuit-breaker.ts`) | `LLMService`, `CircuitBreaker` | `sdk` | `LLMServiceProofs` |
| subscription quota (`src/subscription-quota-tracker.ts`) | `QuotaTracker` | `sdk` | `LLMServiceProofs` |
| start of the SDK (`src/llm-service.ts`, `provider-registry.ts`) | `Registry` | `sdk` | `LLMServiceProofs` |
| token-usage rows (`src/token-usage.ts`) | `TokenUsage` | `measurement` | `MeasurementProofs` |
| spans, record and replay (`src/measurement-span.ts`, `pb/measurement.mjs`) | `Spans` | `measurement` | `MeasurementProofs` |

`MC<module>` instantiates modules for TLC; each `.cfg` gives the constants of one
run. Definitions whose comment begins "Mutant" are plausible bugs that no
specification uses; each property is refuted by one of them.

## 1. The system

The repository is two programs. The **proxy** (`pb/server.mjs`) is one Node
process that takes completion requests over HTTP and sends each along a chain of
providers; a second entry (`pb/intercept.mjs` with the passthroughs) sits between
a coding agent and its provider, measures what passes and may answer the easy
calls from a local endpoint. The **SDK** (`src/`) is a library with its own
provider chain. All are single-threaded: what interleaves are callbacks, between
awaits. The hard part is state read before an await and used after it, and
the child processes, timers, files and networks around it.

| part | state it keeps | operations | what makes it correct |
|---|---|---|---|
| worker pool | key -> workers in order of use; per worker the request in flight, timers, turns; crash windows; the CLI's version | `complete`, result line, timeout, abort, exit, idle timer, recycle, LRU eviction, drift drain, `disposeAll` | answers go to their own caller, each call settles once, limits hold, no child leaks, no request dies for another's sake |
| dispatcher | in-flight count per provider; turn and session records | decide, classify, decide again, ask, retry, fall back, abort | counts exact, limit seen, chain walked in order and whole, calls settle |
| passthrough with offload | configuration, the endpoint's verdict, its load, turn and session records | arrive, classify, ask the target, stream, forward, retry, edit, probe | a client gets one answer; the provider is the last resort; the load counter is exact; a turn is not split |
| routing configuration | two files, the parsed pair and its stamp | load, PUT, PATCH, edit, crash within a save; resolve, chain | what was saved always loads; memory says what the files say; no route leads where it must not |
| egress | pin, remembered file, published state, a shared re-check | timer run, nudge, re-check of failing requests, re-send | nothing unproved is pinned, silence changes nothing, state published is state in force, requests that wait go on |
| process | flags of providers, open calls, subprocesses, the listening port | start checks, requests, signal, drain and its timeout, `auth.json` watch | no routed call before the providers are known; nothing left behind |
| tunnels | open sockets, the upstream | CONNECT, dial, ends leave, close | every open socket is known to `close()`, none outlives it |
| local endpoints | availability flags, the remembered network | probe on a timer, nudge | flags settle on what is the case |
| provider calls | the token that is remembered, timers, the aborts | read token, send, head, body, refusal, CLI fallback | refusals end, nothing hangs |
| SDK facade | breakers, cache | `complete` by the local or the public route, schema retry | what is sensitive stays local, the chain is walked in turn and to its end, calls settle |
| quota | marks in memory and in a file | first load, mark, save, retry | nobody is refused for longer than the wait |
| start of the SDK | registry, network mode | `initialize()` by several callers, fill | the registry in use is a filled one |
| token rows | SQLite rows, windows' files, the counter | repair, index, hydrate, probe, insert, merge, export | no row and no cache split is lost, no id is given twice |
| spans | span files, archive, ordinals, fixtures | start, stop, clear by overlapping commands; bind, record, replay | a row is booked on a span that was open; no span is lost; a recording can be replayed |

How they meet: the dispatcher asks `Routing` for the chain, reads the flags of
`LocalEndpoints` and the records of the bands, and calls a completer per attempt;
claude's completer falls back to the pool; every HTTP call of a completer leaves
through the egress proxy; when the answer is in, a row is bound to a span and
logged. `LLMService` waits for `Registry`'s start and asks `QuotaTracker`. Each of
these is one call and its outcome, and a model that makes the call allows
every outcome the called one has (`Dispatch`'s `Fails` and `Answers` allow all that
`PromptService` promises); the chains and flags are constants or change at any
moment. The modules are therefore not composed into one state space, which would
multiply states without adding behaviours; the runs `sdk`, `server` and
`measurement` hold several specifications that share no state, one at a time.

`PROJECT.json` lists all components, those not modelled with the reason, and
the hazards of the code line by line with the properties that cover them.

## 2. The models

**Granularity.** An action is what JavaScript runs between two awaits, the
continuation of a `finally` included when the same callback resumes it. Time is
left out: an armed timer may fire at any moment, a record with a time to live may
go at any moment. Prompts, messages, models and answers are identities. What other
processes do to files is one action per system call that matters.

**WorkerPool.** `Complete` is `complete()` up to its await: drain the drifted
workers, then one of `Bypass` (pool off, or the key is cooling down), `Acquire`,
`SpawnFor` or `Overflow`. The child is external and answers its stdin in order
without tags (`turn`). The callbacks are `Result` and `StrayResult`, `Timeout`,
`IdleTimeout`, `ExitBusy` and `ExitIdle`, `Abort`, `StdinError`, each with the
`finally` that recycles a spent worker and evicts the least recently used idle
keys; `CrashAges`, `Upgrade` and `DisposeAll` are the clock, the operator's new CLI
and the shutdown. `before` is the insertion order of the `Map`. `PromptService` is
the abstract promise of `complete()`: accepted or diverted, then settled once with
its own answer or an error; `ServiceSafe` and `ServiceLive` are the refinement
(`INSTANCE PromptService WITH`).

**Dispatch.** `Arrive` reads the counts and the session's record and either
routes at once (a promoted session, a loop call that inherits its turn's band) or
awaits the classifier. `Classified` applies the verdict, writes the records from
what was read *before* the await, takes the counts anew (`Counted`) and sends the
call to the first available provider of the chain. `Answers`, `Fails`, `AsksAgain`
are the walk: `Fails` has the three exits of the catch block. Chains are
constants; the network and the routing config do not change within the decision of
one call. `ChainWalk` is the abstract promise to one call: it walks the reachable
positions of one of its chains, each with a budget of second tries, until one answers,
an error ends it, or the last has failed. `WalksAsPromised` says that each call of
`Dispatch`, seen through `Seen` (which forgets classification, records, counts,
clients and the pause), is such a walk. `ChainWalk` has no other calls in it, so this
also says that no call is disturbed by another.

**Offload.** `Arrive` decides from the configuration and records as they are, or
awaits the classifier and keeps what it read (`with`, `seen`); `Classified` looks at
the configuration and the load again where the code does. `TargetFails`,
`TargetAnswers`, `TargetStreams`, `StreamEnds`, `StreamBreaks` are the ends of
`serve()`; `ProviderAnswers` and `ProviderFails` the forward of the held original
with its attempts. `Edit`, `ProbeStarts` and `ProbeEnds` run beside them, so that an
answer about the old endpoint may come in after a new one is configured. An
agent may send the first call of a turn again; `OpenedOnce` says it did not, and
only then can the calls of the turn be expected on one side, because each opening
judges the turn afresh.

**Routing and RoutingStore.** `Routing` is pure: `Valid` is every rule that relates
two parts of the documents (rules about one value alone are the flag `shape`),
`Parsed` what a load returns, `Resolve` and `ChainOf` where a request goes. The
filters of the code (disabled candidates, the origin taken out of the declared
chain, the hops that may not be asked) are one operator, `Only`, a recursive
function over the positions of a sequence, so that they can be proved about.
`RoutingStore` is who changes the files: PUT awaits an import between reading the
file it was not given and writing both; PATCH; an edit by hand; a crash
between the two writes. Loading compares the files' stamps.

**Egress.** `ReadVerdict`, `ProbePinned`, `ProbeCandidate` are the awaits of
`reevaluateEgressProxy`, which two runners (the timer's and the re-check's) execute
overlapped; `ConnectionLost` joins or starts the shared re-check, which resumes
every request that joined it in the step that ends it. `Restart` loses memory and
keeps the file.

**Server, LocalEndpoints, Intercept, Completers.** The process from the open port
to its exit; the flags of local endpoints under overlapping probes and a remembered
network; tunnels whose dial is awaited while the client leaves, the egress
changes or the listener closes; a call with its token, ceiling, head, body and
fallback. A connection carries one call.

**LLMService, QuotaTracker, Registry.** `Complete` and one action for each await; the
`Enter*` operators are the code that runs from there to the next await.
`CircuitBreaker` is the record and the operations of one breaker. Beside the steps,
`HSpec` notes of each call which positions of its chain failed it or were passed with
an open circuit (`past`), which is what `InTurn` speaks of. The quota's time
is kept as ages; each of the first calls loads the file on its own and saves end in
any order. `Registry` is `initialize()` run by several callers, each making a
registry that replaces the last one before it is filled.

**TokenUsage and Spans.** Logging statement by statement beside another process
that writes the same tables; the start's repair, index, hydration and counter; the
debounced export. Spans are files that commands of other processes write and remove
without a lock. A start truncates the file and then writes it: between the two it is
torn, two starts may leave it garbled, and what a start writes into a file that was
removed meanwhile is lost (`StartBegins`, `StartEnds`, `StartLost`). A stop reads the
span, archives it and removes the file, whatever is in it by then (`StopReads`,
`Archives`, `Removes`); `raced` notes a span that was written in between. A call is
bound to what it finds, and recorded or replayed under an ordinal.

## 3. Runs

| run | instance | shows |
|---|---|---|
| `pool_safety` | 4 calls, 2 keys, 3 workers, size 2, cap 1, crash threshold 2, 2 turns per worker | the inductive invariant with all it contains, the cap, bystanders and recycled workers, the refinement's safety part |
| `pool_liveness` | 3 calls, 2 workers, 2 CLI versions, failing version probes | every accepted call settles, all children are reaped once calls stop, under drift |
| `dispatch` | 3 turns and a loop call of one session, a cluster with 1 slot before one account, 1 retry | counts, slot, each walk as promised (order, budget, completeness), calls settle |
| `dispatch_abort` | same | **violated**: work goes on for a client that left |
| `daemon` | 2 turns and a loop call, 2 endpoints (one flaky), 3 configurations, 1 slot, 2 attempts, 1 edit | the load, the verdict's owner, unsplit turns, the last resort; calls end and the target recovers |
| `routing` | some hundred valid configurations, 384 requests, 2 savers, 2 patches, 1 edit or crash | saved pairs load, memory is the files, routes and offloads reach only what serves them |
| `egress_safety` | 2 proxies, 2 requests, 1 restart | pins, published state, silence, re-sends, joined requests |
| `egress_liveness` | 2 proxies, 1 request, nudges | convergence on public and on corporate, joined requests get on |
| `server` | 3 calls and 2 start checks; 2 endpoints with 2 probes each; 2 tunnels; 2 calls with 2 tokens | the process's start and end, tunnels, flags, refusals, everything begun ends |
| `server_refresh` | same | **violated**: a new login ends the process |
| `sdk` | a local-only, a public and a sensitive call, 3 providers; 2 calls on the quota, 1 restart; 2 starts | breaker accounting, privacy, checked answers, the walk of a chain in turn, quota, a whole registry after overlapping starts, calls settle |
| `measurement` | 5 calls (2 of one request) over 2 windows, 2 faults; 3 spans in 2 slots, 2 commands at once, 3 calls (those of the passthrough and the others apart), 1 upset | rows, splits and ids survive; rows on open spans, spans not lost; recordings replay |

*Bounds.* The number of calls is the smallest at which the interactions appear:
in the pool one call holds a worker, a second finds it busy or spawns a sibling, a
third finds the key full or cooling down, and one of another key causes eviction
while the first is busy; three workers allow a replacement to coexist with a
terminating one. Thresholds of 2 distinguish "one short" from "reached". In the
dispatcher two calls contend for the slot while a third has promoted the session
and a fourth inherits the band; chains of two have a first and a last. In `daemon`
a loop call follows the turn that may have failed, and the other turn takes the
slot meanwhile; one edit is what a probe needs to be late. Two egress runners are
all the code has; two proxies distinguish the pinned one from the candidate. Two
savers suffice for a lost update and the checks it must survive, two starts for a
replaced registry. Of five rows two race for an id of the machine's, two for the
adapter's, and two share a request; two windows let a file be of the past; two
faults are a torn export and a deleted database. Three spans give a recording, its
replay and one that must give way; two commands at once are a start that meets a stop,
two starts or two stops on one slot. In `pool_safety` no worker drifts (that is
`pool_liveness`'s, and the theorems cover both at once). The proofs lift these bounds for the safety
properties they cover.

*Deadlock* is not checked: all systems may stop for good once the calls have ended
or the process has; a proxy that finds broken routing files stops until a person
repairs them.

*Fairness.* Of the code's own making: an armed request or idle timer fires, a SIGTERMed
child ends, an exit is delivered (pool); the classifier and every provider call has
a timeout and the retry pause is a timer (dispatch); the classifier, the target and
probes have timers, and the fetch behind a forward gives a silent connection up
(daemon); the interval fires and curl ends by `--max-time` (egress); start checks and
the drain have timeouts, ceilings and aborts fire, a remembered network or token
ages (server; a probe's start needs strong fairness because its slots may be taken
again and again while it waits); provider calls race a hard timeout and reset
timeouts pass (SDK). Assumed beyond the code, which sets no limit of its own: that
the operating system ends a direct TCP connect (`intercept.mjs:108`); that the HTTP
client of the schema retry and the local route times out (`llm-service.ts:398`, 221);
that the caller's classifier and `canAfford` settle (`llm-service.ts:265`, 280).
Never assumed: that a dial through an upstream proxy ends (`intercept.mjs:113-120` has no
timeout, and neither `close()` nor a client that leaves aborts it; the tunnels' part
of `BegunEnds` is therefore about direct dials), that a provider answers, that a client
stays, that a probe succeeds, that a command finishes.

*Assumptions about outcomes.* These failures are caught by the code, logged as not
fatal, and left out of the models, so the properties named do not speak of them:
* the statements that merge a duplicate into its row (`token-usage.ts:1362-1364`) and
  that carry a split over before the repair deletes (925-937) succeed: otherwise the
  richer duplicate is dropped and its split with it (`CacheKept`);
* the deletion of duplicates at the start (940-952) succeeds; otherwise the unique
  index is not built and duplicates stay;
* each export file that parses is ingested whole (1105-1106): otherwise its ids are
  free again (`HistoryKept`);
* a call that finds no free id in `MAX_ID_RETRIES` tries has no row and does not count
  as logged (`NoRowLost`);
* `recordFixture` succeeds (`server.mjs:4295`): otherwise a recording may have a gap
  (`ReplayFaithful`);
* `SchemaHonouredUncached` and `PublicCallsSettle` speak of the calls they name:
  uncached public ones, and those neither sensitive nor metered. What the code does
  with the others is in §5;
* `BackoffOnlyWhileTripped` needs a breaker whose wait may at least double (`MaxMult >= 2`:
  the maximal reset timeout is not below twice the base), as the defaults have it.

## 4. Proofs

All in the `*Proofs` modules; constants are arbitrary subject to the `ASSUME`s of
the models (finite sets where cardinalities occur).

* **WorkerPool.** `IInv` adds to the properties what makes them inductive:
  `InFlight` (a request in flight waits, on a live worker of its key whose child
  owes at most this answer), `HeldOnce`, `Filed` (what can be acquired is alive,
  unflagged, has a turn left and owes no answer) and `Unborn`. `Filed` is the heart:
  `OwnAnswer` holds because a worker whose child still owes an answer has left
  the map before anybody else can acquire it. From it the safety properties and
  `Refinement` (initial states and steps map to `PromptService`'s). `CapKept` needs
  that the eviction loop, which takes the least recently used idle key each time,
  ends below the cap when nothing is busy: a least element exists because the strict
  subset order on finite sets is well founded.
* **Dispatch.** `IInv` is types, `OnChain` (a call that walks is at an available
  position of its chain), `CountsMatch` and `WalkedInOrder`. The count lemma
  `Recount` says what one call's change does to the set of open calls of every
  provider; each handler is then one of four shapes (stays, enters, leaves, moves
  on). `FreeSlot` needs the second reading of the counts: its mutant, without it,
  fails in TLC. `WholeChain` follows from the order of the walk.
  `ChainsAreWalked` maps each handler to a step of `ChainWalk` or to none: the decision
  to `Begins`, the three exits of the catch block to `AsksOnceMore`, `MovesOn` and `Ends`,
  the pause's end, a disconnect and all of other calls to nothing.
* **Offload.** The invariant adds to the load and the verdict that a call at its
  provider has an attempt left, and that only the target writes before an answer is
  whole. The load is a cardinality; one call's change moves it by at most one.
  `TurnsStayTogether` needs `TurnInv`: the record of a turn lets its loop calls to the
  target only once the one call that opens the turn is decided, and from the first
  failure of a call of the turn it says otherwise for good. A record may also expire,
  and then the loop calls go to the provider.
* **RoutingStore.** What is on disk after a whole save is valid and what is in
  memory is the disk, in one induction: a save is checked before it is written and
  read back at once, all else that writes clears both flags. From it, and from
  what `Valid` says of targets and routes, `BandsServed` and `WireReached`.
  For the chains, the lemmas on `Only` say what a filter keeps (`OnlyPlaces`: each
  element of the result stands at a place that is kept, in the same order;
  `KeptToTheEnd`, `OnlyFirst`: nothing kept is lost, and what is kept at the front
  stays there). They unfold a function one step at a time; where an induction
  would be used, a least counterexample is taken instead (`LeastNumber`). With them
  the candidates of a route are sound and distinct (`AllSound`), and `RoutesHold` and
  `OffloadsHold` follow.
* **Egress.** `IInv` is types, a run that probes has a candidate, and every joined
  request has a run; from it `Joined`, `PinsProven` and `Blips` (together `PinMoves`), `Retries`. `Status`
  assumes that an agent can be built for every URL; without that it is false (§5).
* **Server and Intercept.** A routed call is open only when the start is over; until
  the process ends no call is cut and each own subprocess is of an open call. While
  it is dialled a tunnel has a client and no far end.
* **LLMService.** `IInv` is types, pointers into the lists walked and
  `BackoffOnlyWhileTripped`. `Privacy` needs no pc of the public chain after
  classification, `SchemaChecked` an invariant on the answer held while fixing
  (together `Honoured`). `WalksInTurn` is by `WalkInv`: what is noted of a call is exactly what lies before the
  provider that it is with, and nothing before it has reached its chain. A step of
  another call may open or close any circuit but leaves both the note and the place.
* **QuotaTracker.** A mark is copied into the file, into saves under way and
  back. `QuotaInv` says of every copy that no mark in it is younger than the
  provider's last word, so whichever copy wins, a refusal ends in time.
* **TokenUsage.** `RInv`: rows and lines are typed and bounded, only a proxy that is
  up logs, a row with a request is its call's row (`Genuine`), and between the two
  steps of the repair the earliest duplicate has the split (`Repaired`). `HInv`: an
  id of the machine stands for one call and window in the database, between
  database and files, and across files; once up, no id of a line is free.
* **Spans.** `SpansInv`, for any number of overlapping commands: a running call has
  every open span in sight; a span that is being started is in no file yet, and is
  started once (`Fresh`); a stop on the slot for all works on the span that is there,
  or the slot was written under it (`Held`), so that what is removed unarchived was
  written under a stop; a span that left the slot does not come back; the ordinal is
  the place of the last armed span unless something was mixed into it. From it
  `SpansKept` and, counting the calls that asked, `RecordingsReplay`.

* **Registry.** `RInv`: a registry is filled by the start that made it only, and a
  provider of it is registered, left out, or still to be decided by that start. So
  whoever replaced the registry last has filled the one in use (`StartsLeaveWhole`).

*Only model-checked:* liveness (`ServiceLive`, `EventuallyQuiet`, `Converges`,
`JoinedGoOn`, `PublicCallsSettle`, `StartSucceeds`, `CallsSettle`, `GoesOn`,
`FlagsSettle`, `RefusalsEnd`, `BegunEnds`): fairness and `ENABLED` are beyond the
prover. Every invariant and every action property of a passing run is a theorem.

## 5. Where code and comments disagree

With a run:
* `dispatch_abort` (`server.mjs:4580`): only a new same-provider retry looks at the
  client's signal; the classifier's wait, a pause under way and the fallback do not.
* `server_refresh` (`server.mjs:4784`): the `auth.json` watcher assigns
  `copilotSession`, which no scope declares; in a module the assignment throws.

Stated as a property of a module and refuted by TLC, without a run of its own:
* `WriteErrorContained` (`worker-pool.mjs:586`): nothing listens to the child's stdin
  `error`, so a late write ends the process;
* `OneSlot` (`server.mjs:4573`): the in-flight count is given back before the 200 ms
  pause and the retry does not look at the limit;
* `NeverDemoted` (`server.mjs:4140`): the session's record is a read-modify-write
  around an await;
* `SensitiveCallsSettle` (`llm-service.ts:271`): a sensitive call without a working
  local provider goes from the public to the local route and back for ever;
* `SchemaHonoured` (`llm-service.ts:371`): answers are cached before they are checked (an
  answer without content is not checked at all, `llm-service.ts:382`);
* `PatchSaves` (`server.mjs:3286`): the PATCH handler uses `withLocalProviders`
  without importing it, so no patch of a valid pair is saved;
* `NothingWritten` (`offload.mjs`, at `serve()`): a stream that breaks may have
  written before the call is forwarded;
* `CeilingCaps` (`server.mjs:1731-1740`): a declared ceiling does not cap every phase
  of a call;
* `BoundaryExported` (`token-usage.ts:1171-1174`): a row at a window's end may miss its
  file until the next start or export;
* `NeverLive` (`server.mjs:3940-3944`): under a replay span the taps' modules may be
  missing, and the call goes to a live provider;
* `ArmedIsBound`: a row may go to another span than the one whose flags armed the call;
* `RemovedIsArchived` (`measurement-span.ts:263-280`): a stop removes what is in the slot by
  then, be it a span that another command has started since the stop's read;
* `ProxiedTunnelsEnd` (`intercept.mjs:113-120`): a proxy that accepts the connection and
  never answers the CONNECT holds a tunnel for good, also after its client has left
  and the listener is closed.

Noticed while reading (the models show them where they model the code at all):
* every exit counts as a crash (`worker-pool.mjs:1064`; the comment at 1060 speaks
  of a burst of spawns that die), so aborts can put a healthy key in cooldown;
* a worker SIGTERMed by its idle timer can be acquired until its exit arrives
  (`worker-pool.mjs:1332`; 1110-1121 say a disposed worker leaves the map at once);
* a worker that booted from a newer binary than the snapshot counts as drifted
  until the snapshot is re-read (`worker-pool.mjs:1186`);
* when no `ProxyAgent` can be built the pin stays and the published state says
  otherwise (`server.mjs:545` ignores the result of `setEgressProxy`);
* a run that probed a dead pin drops the pin another run has just proved
  (`server.mjs:520`, `egress-decision.mjs:66`); the next tick repairs it;
* a nudge may join a run that read the older verdict (`server.mjs:609`);
* a bearer token may go out for up to 30 s after the machine left its network;
  subprocesses started outside the pool outlive a drain's timeout and a crash;
* the comment at `server.mjs:2424-2425` lets 429 and network errors through where the
  code falls back on 429, and 2139 has a fallback on network failure that the code has not;
  the responses leg does not reset a refused token, and one re-read within a
  minute is used once more;
* two PUTs of different files may lose one of the updates; a crash between the two
  writes leaves a pair that the next start refuses, and PUT, which loads first,
  cannot repair it; rebuilding a target by PATCH drops its foreground limits and
  the scopes of its bands; a route's profile model goes with a call that is moved
  (`routing-config.mjs:1395`);
* a quota refusal adds one failure to the breaker (`llm-service.ts:300`) where the
  comment says the provider is made unavailable; a late first load may forget a mark;
* a cooled breaker lets all concurrent calls through (`docs/architecture.md:187`
  has one probe); a local-only call may end on the public route
  (`llm-service.ts:240`); `docs/integration-guide.md:86` constructs the quota tracker
  without its path;
* the first caller of two overlapping `initialize()` may go on with a registry that
  is still being filled;
* a promoted session's turn that its caller declares small is offloaded
  (`server.mjs:1972` says "for good");
* a call given up after `MAX_ID_RETRIES` has no row; hydrated rows have no
  `tool_call_id`; ordinals mix when armed spans overlap or the proxy restarts;
  `ReplayFaithful` and `NoRowLost` say precisely what is left;
* the handler of `/api/complete` reads the body outside any `try` (`server.mjs:3912`), and
  nothing in the repository handles a rejection: a client that resets the connection
  in the middle of its upload rejects the handler's promise, which Node answers by
  ending the process. In `Server` a call arrives with its body whole, and the one
  crash is that of `server_refresh`;
* the cache key is a 32-bit hash (`cache.ts:76`): two prompts may share it.

## 6. Not modelled

* Pure conversions, on one request at a time: wire formats and tool calls (the
  OpenAI shim), headers, names of models, declared complexity, prompt text
  heuristics, context capture and turn identity, cost tables.
* SQL over a consistent database: the dashboard's queries, the usage cache, the
  migration of the primary key, the backfill of model names.
* The SDK's providers: one HTTP or CLI call each, whose every outcome the callers'
  models allow. Its configuration, metrics and cache markers.
* Settings (`server.mjs:773-849`): read at boot, written by one synchronous call. A
  file torn by a crash reads as no overrides.
* Within modelled parts: `ClaudeWorker`'s own FIFO queue, `abortQueuedJob` and
  `cancel`, which the pool never reaches because it writes to idle workers only;
  what the classifier answers; hourly quota counts, `resetProvider`, tier resolution and
  run-time priorities; certificates and decrypted HTTP; warming of the classifier;
  explicit task ids and raw bodies; a reconfiguration of a running daemon.
