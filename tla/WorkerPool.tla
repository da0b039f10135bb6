----------------------------- MODULE WorkerPool -----------------------------
(***************************************************************************)
(* The pool of warm `claude -p` subprocesses of proxy-bridge/worker-pool   *)
(* .mjs: ClaudeWorker objects, each driving one child process and serving  *)
(* one request at a time, filed under (model x system prompt) keys by a    *)
(* WorkerPool.                                                             *)
(*                                                                         *)
(* JavaScript runs a callback to its end, then drains the microtask queue. *)
(* An action is therefore one callback (a call of complete(), a stdout     *)
(* line, a timer, an 'exit' event, an abort) together with the `finally`   *)
(* block of complete() that its settling of a promise resumes.             *)
(*                                                                         *)
(* The child process is external: it answers the prompts on its stdin in   *)
(* order, one result line each, without saying which prompt it answers.    *)
(* Time is left out: a timer that is armed may fire at any moment, and a   *)
(* crash timestamp may leave the crash window at any moment.               *)
(***************************************************************************)
EXTENDS Integers, Sequences, FiniteSets

CONSTANTS Request,        \* calls of complete()
          Key,            \* (model x prompt hash) keys
          Worker,         \* identities of the workers the run may spawn
          KeyOf,          \* the key workerKeyFor gives each request
          Size,           \* workers per key
          PromptCap,      \* keys that may keep a pool of idle workers
          CrashThreshold, \* exits within the window that start a cooldown
          MaxRequests,    \* turns a worker serves before it is recycled
          MaxVersion,     \* bound: versions of the CLI are 1 .. MaxVersion
          ProbeMayFail,   \* bound: whether `claude --version` may fail
          PoolDisabled,   \* LLM_PROXY_DISABLE_WORKER_POOL
          None            \* no request, no key

ASSUME PoolAssumption ==
  /\ KeyOf \in [Request -> Key]
  /\ Size \in Nat \ {0} /\ PromptCap \in Nat \ {0}
  /\ CrashThreshold \in Nat \ {0} /\ MaxRequests \in Nat \ {0}
  /\ MaxVersion \in Nat \ {0}
  /\ PoolDisabled \in BOOLEAN /\ ProbeMayFail \in BOOLEAN
  /\ IsFiniteSet(Worker)
  /\ None \notin Request \cup Key

NoVersion == 0   \* `claude --version` failed

VARIABLES
  status,    \* request -> where its call of complete() stands
  answer,    \* request -> the request whose prompt the result it got answers
  aborted,   \* requests whose abort listener has fired
  pool,      \* workersByKey: key -> workers filed under it
  keys,      \* the keys workersByKey holds
  before,    \* <<j, k>>: j precedes k in workersByKey, it was used less recently
  crashes,   \* key -> exits recorded that are still within the crash window
  installed, \* external: version of the CLI on disk
  snapshot,  \* the pool's _currentVersion
  proc,      \* worker -> state of its child process and of the _exited flag
  home,      \* worker -> key it was spawned for
  pending,   \* worker -> request in flight (_pending, with its timer; _busy)
  turn,      \* worker -> external: prompts its child has read and not answered
  idle,      \* workers whose idle timer is armed
  recycle,   \* workers flagged needsRecycle / isStale
  count,     \* worker -> turns served
  boot,      \* worker -> _bootVersion
  up         \* the proxy process runs

callVars    == <<status, answer, aborted>>
poolVars    == <<pool, keys, before>>
versionVars == <<installed, snapshot>>
workerVars  == <<proc, home, pending, turn, idle, recycle, count, boot>>
vars == <<callVars, poolVars, crashes, versionVars, workerVars, up>>

Status  == {"new", "waiting", "resolved", "rejected", "overflowed"}
Settled == {"resolved", "rejected", "overflowed"}

\* A child that was told to stop is "terminating" until the worker learns of
\* its exit; one whose exit the pool did not ask for ends "crashed".
ProcState == {"unborn", "running", "terminating", "exited", "crashed"}
Alive     == {"running", "terminating"}

Busy == {w \in Worker : pending[w] # None}

-----------------------------------------------------------------------------
(* Operations of the pool's map, as functions of its value.                *)

\* dispose(): end stdin, SIGTERM, clear the idle timer.
Terminated(W) ==
  [v \in Worker |-> IF v \in W /\ proc[v] = "running" THEN "terminating" ELSE proc[v]]

\* Delete keys from the map; the others keep their place.
Unregister(K) ==
  /\ keys' = keys \ K
  /\ before' = {p \in before : p[1] \notin K /\ p[2] \notin K}

\* _touch: delete and set again, which puts the key last.
Touch(k) ==
  /\ keys' = keys \cup {k}
  /\ before' = {p \in before : k \notin {p[1], p[2]}} \cup ((keys \ {k}) \X {k})

\* _dropWorker: splice the worker out, delete the key once its array is empty.
Dropped(k, W) == [pool EXCEPT ![k] = @ \ W]
EmptiedBy(k, W) == IF W # {} /\ Dropped(k, W)[k] = {} THEN {k} ELSE {}

\* _enforcePromptCap(active) on pools p while the workers b are busy: the
\* least recently used keys over the cap, the active key and every key with
\* a busy worker apart.
EvictableBusy(p, b, active) == {k \in Key \ {active} : p[k] # {}}  \* mutant
Evictable(p, b, active) == {k \in Key \ {active} : p[k] # {} /\ p[k] \cap b = {}}

\* Mutant: the active key does not count toward the cap.
VictimsOneShort(p, b, active) ==
  LET free == Evictable(p, b, active)
  IN  {k \in free : Cardinality({j \in free : <<j, k>> \in before}) <
                     Cardinality({k2 \in Key \ {active} : p[k2] # {}}) - PromptCap}

Victims(p, b, active) ==
  LET open   == {k \in Key : p[k] # {}}
      excess == Cardinality(open) - PromptCap
      free   == Evictable(p, b, active)
  IN  {k \in free : Cardinality({j \in free : <<j, k>> \in before}) < excess}

\* The finally block of complete() when the request in flight on w settles:
\* drop w if the callback left it flagged, then evict the keys over the cap.
Drops(w) == {w} \cap recycle'

Evicts(w) ==
  Victims(Dropped(KeyOf[pending[w]], Drops(w)), Busy \ {w}, KeyOf[pending[w]])

DisposesDropped(w) == Drops(w)  \* mutant: evicted workers are only forgotten
Disposes(w) == Drops(w) \cup UNION {pool[j] : j \in Evicts(w)}

Finally(w) ==
  LET k == KeyOf[pending[w]] IN
  /\ pool' = [j \in Key |-> IF j \in Evicts(w) THEN {} ELSE Dropped(k, Drops(w))[j]]
  /\ Unregister(Evicts(w) \cup EmptiedBy(k, Drops(w)))

-----------------------------------------------------------------------------
\* What the reader of the CLI version returns; it degrades open.
ReadVersion == {installed} \cup (IF ProbeMayFail THEN {NoVersion} ELSE {})

Init ==
  /\ status = [r \in Request |-> "new"]
  /\ answer = [r \in Request |-> None]
  /\ aborted = {}
  /\ pool = [k \in Key |-> {}]
  /\ keys = {}
  /\ before = {}
  /\ crashes = [k \in Key |-> 0]
  /\ installed = 1
  /\ snapshot \in ReadVersion
  /\ proc = [w \in Worker |-> "unborn"]
  /\ home = [w \in Worker |-> None]
  /\ pending = [w \in Worker |-> None]
  /\ turn = [w \in Worker |-> <<>>]
  /\ idle = {}
  /\ recycle = {}
  /\ count = [w \in Worker |-> 0]
  /\ boot = [w \in Worker |-> NoVersion]
  /\ up = TRUE

-----------------------------------------------------------------------------
(* complete(): everything up to its await is one synchronous block.        *)

InCooldown(k) == crashes[k] >= CrashThreshold

\* _maybeRefreshVersionSnapshot: re-read once the refresh interval elapsed.
Refreshed == {snapshot} \cup ReadVersion

IsDrifted(w, v) == boot[w] # NoVersion /\ v # NoVersion /\ boot[w] # v

\* The key's pool is in cooldown, or the pool is switched off: execFile.
Bypass(r) ==
  /\ up
  /\ status[r] = "new"
  /\ PoolDisabled \/ InCooldown(KeyOf[r])
  /\ \E v \in Refreshed : snapshot' = v
  /\ status' = [status EXCEPT ![r] = "overflowed"]
  /\ UNCHANGED <<answer, aborted, poolVars, crashes, installed, workerVars, up>>

\* Flag the key's drifted workers, busy ones too, and reap whatever is flagged.
KeptAnyKey(k, flagged) == UNION {pool[j] : j \in Key} \ flagged  \* mutant: one pool
KeptFlagged(k, flagged) == pool[k]                              \* mutant: no reaping
Kept(k, flagged) == pool[k] \ flagged

Reap(k, flagged) ==
  /\ recycle' = flagged
  /\ proc' = Terminated(pool[k] \cap flagged)

\* Mutant: a write to a stdin that has ended is ignored.
DispatchIfOpen(r, w, open) ==
  /\ pending' = IF open THEN [pending EXCEPT ![w] = r] ELSE pending
  /\ turn' = IF open THEN [turn EXCEPT ![w] = Append(@, r)] ELSE turn
  /\ status' = [status EXCEPT ![r] = "waiting"]

\* writeTracked on a free worker: _dispatch clears the idle timer, sets
\* _pending with its timer, and writes the prompt if stdin is still open.
Dispatch(r, w, open) ==
  /\ pending' = [pending EXCEPT ![w] = r]
  /\ turn' = IF open THEN [turn EXCEPT ![w] = Append(@, r)] ELSE turn
  /\ status' = [status EXCEPT ![r] = "waiting"]

Admits(r) == up /\ status[r] = "new" /\ ~PoolDisabled /\ ~InCooldown(KeyOf[r])

Flagged(k, v) == recycle \cup {w \in pool[k] : IsDrifted(w, v)}

HasRoomForExtra(kept) == Cardinality(kept) <= Size  \* mutant
HasRoom(kept) == Cardinality(kept) < Size

\* A free worker of the key takes the request.
Acquire(r, w, v) ==
  LET k == KeyOf[r] IN
  /\ Admits(r)
  /\ w \in Kept(k, Flagged(k, v)) \ Busy
  /\ snapshot' = v
  /\ Reap(k, Flagged(k, v))
  /\ pool' = [pool EXCEPT ![k] = Kept(k, Flagged(k, v))]
  /\ Touch(k)
  /\ Dispatch(r, w, proc[w] = "running")
  /\ idle' = idle \ ((pool[k] \cap Flagged(k, v)) \cup {w})
  /\ UNCHANGED <<answer, aborted, crashes, installed, home, count, boot, up>>

\* No free worker and room for one more: spawn a sibling.
SpawnFor(r, w, v, b) ==
  LET k == KeyOf[r]
      kept == Kept(k, Flagged(k, v)) IN
  /\ Admits(r)
  /\ kept \subseteq Busy
  /\ HasRoom(kept)
  /\ proc[w] = "unborn"
  /\ snapshot' = v
  /\ recycle' = Flagged(k, v)
  /\ proc' = [Terminated(pool[k] \cap Flagged(k, v)) EXCEPT ![w] = "running"]
  /\ home' = [home EXCEPT ![w] = k]
  /\ boot' = [boot EXCEPT ![w] = b]
  /\ pool' = [pool EXCEPT ![k] = kept \cup {w}]
  /\ Touch(k)
  /\ Dispatch(r, w, TRUE)
  /\ idle' = idle \ (pool[k] \cap Flagged(k, v))
  /\ UNCHANGED <<answer, aborted, crashes, installed, count, up>>

\* Every worker of the key is busy and the key is full: execFile.
Overflow(r, v) ==
  LET k == KeyOf[r]
      kept == Kept(k, Flagged(k, v)) IN
  /\ Admits(r)
  /\ kept \subseteq Busy
  /\ ~HasRoom(kept)
  /\ snapshot' = v
  /\ Reap(k, Flagged(k, v))
  /\ pool' = [pool EXCEPT ![k] = kept]
  /\ Touch(k)
  /\ idle' = idle \ (pool[k] \cap Flagged(k, v))
  /\ status' = [status EXCEPT ![r] = "overflowed"]
  /\ UNCHANGED <<answer, aborted, crashes, installed, home, pending, turn, count, boot, up>>

Complete(r) ==
  \/ Bypass(r)
  \/ \E v \in Refreshed :
       \/ \E w \in Worker : Acquire(r, w, v)
       \/ \E w \in Worker, b \in ReadVersion : SpawnFor(r, w, v, b)
       \/ Overflow(r, v)

-----------------------------------------------------------------------------
(* Callbacks of a worker.                                                  *)

\* _evaluateRecycle: whether the turn that ends now is the worker's last.
SpentLate(w, heavy) == heavy \/ count[w] + 1 > MaxRequests  \* mutant
SpentByTokens(w, heavy) == heavy                           \* mutant
Spent(w, heavy) == heavy \/ count[w] + 1 >= MaxRequests

\* A result line that finds _pending settles it, whatever prompt it answers;
\* ok is ~is_error, heavy says the turn's input tokens reached the ceiling.
Result(w, ok, heavy) ==
  LET r == pending[w] IN
  /\ up
  /\ proc[w] \in Alive
  /\ turn[w] # <<>>
  /\ r # None
  /\ turn' = [turn EXCEPT ![w] = Tail(@)]
  /\ count' = [count EXCEPT ![w] = @ + 1]
  /\ recycle' = IF Spent(w, heavy) THEN recycle \cup {w} ELSE recycle
  /\ pending' = [pending EXCEPT ![w] = None]
  /\ status' = [status EXCEPT ![r] = IF ok THEN "resolved" ELSE "rejected"]
  /\ answer' = IF ok THEN [answer EXCEPT ![r] = Head(turn[w])] ELSE answer
  /\ Finally(w)
  /\ proc' = Terminated(Disposes(w))
  /\ idle' = (idle \cup {w}) \ Disposes(w)
  /\ UNCHANGED <<aborted, crashes, versionVars, home, boot, up>>

\* A result line that finds _pending empty is dropped.
StrayResult(w) ==
  /\ up
  /\ proc[w] \in Alive
  /\ turn[w] # <<>>
  /\ pending[w] = None
  /\ turn' = [turn EXCEPT ![w] = Tail(@)]
  /\ UNCHANGED <<callVars, poolVars, crashes, versionVars, proc, home, pending,
                 idle, recycle, count, boot, up>>

\* Mutant: the request timer only rejects, the child goes on.
TimeoutKeepsWorker(w) ==
  /\ up
  /\ pending[w] # None
  /\ pending' = [pending EXCEPT ![w] = None]
  /\ status' = [status EXCEPT ![pending[w]] = "rejected"]
  /\ idle' = idle \cup {w}
  /\ UNCHANGED <<answer, aborted, poolVars, crashes, versionVars, proc, home, turn,
                 recycle, count, boot, up>>

\* The request timer: reject, flag, dispose; complete() then drops the worker.
Timeout(w) ==
  /\ up
  /\ pending[w] # None
  /\ pending' = [pending EXCEPT ![w] = None]
  /\ recycle' = recycle \cup {w}
  /\ status' = [status EXCEPT ![pending[w]] = "rejected"]
  /\ Finally(w)
  /\ proc' = Terminated(Disposes(w))
  /\ idle' = idle \ Disposes(w)
  /\ UNCHANGED <<answer, aborted, crashes, versionVars, home, turn, count, boot, up>>

\* Mutant: the last worker of a key is kept warm, its timer is not set again.
IdleTimeoutKeepsLast(w) ==
  /\ up
  /\ w \in idle
  /\ proc' = IF pool[home[w]] = {w} THEN proc ELSE Terminated({w})
  /\ idle' = idle \ {w}
  /\ UNCHANGED <<callVars, poolVars, crashes, versionVars, home, pending, turn,
                 recycle, count, boot, up>>

\* The idle timer calls dispose() on the worker; the pool is not told.
IdleTimeout(w) ==
  /\ up
  /\ w \in idle
  /\ proc' = Terminated({w})
  /\ idle' = idle \ {w}
  /\ UNCHANGED <<callVars, poolVars, crashes, versionVars, home, pending, turn,
                 recycle, count, boot, up>>

\* _onExit, reached by 'exit', 'close' or a failed write, and the pool's 'exit'
\* listener: record a crash for the key, drop the worker. A request in flight
\* is rejected and complete() resumes.
Ended(w) ==
  /\ up
  /\ proc[w] \in Alive
  /\ recycle' = recycle \cup {w}
  /\ turn' = [turn EXCEPT ![w] = <<>>]
  /\ crashes' = [crashes EXCEPT ![home[w]] = @ + 1]
  /\ UNCHANGED <<answer, aborted, versionVars, home, count, boot, up>>

ExitState(w) == IF proc[w] = "running" THEN "crashed" ELSE "exited"

ExitIdle(w) ==
  /\ Ended(w)
  /\ pending[w] = None
  /\ pool' = Dropped(home[w], {w})
  /\ Unregister(EmptiedBy(home[w], {w}))
  /\ proc' = [proc EXCEPT ![w] = ExitState(w)]
  /\ idle' = idle \ {w}
  /\ UNCHANGED <<status, pending>>

ExitBusy(w) ==
  /\ Ended(w)
  /\ pending[w] # None
  /\ pending' = [pending EXCEPT ![w] = None]
  /\ status' = [status EXCEPT ![pending[w]] = "rejected"]
  /\ Finally(w)
  /\ proc' = [Terminated(Disposes(w)) EXCEPT ![w] = ExitState(w)]
  /\ idle' = idle \ Disposes(w)

Exit(w) == ExitIdle(w) \/ ExitBusy(w)

-----------------------------------------------------------------------------
(* The rest: abort of a call, passing time, CLI upgrade, shutdown.         *)

\* handleAbort on a request in flight: _disposeAndDrop its worker. A signal
\* that was aborted before the call is this action right after Complete.
Abort(r, w) ==
  /\ up
  /\ status[r] = "waiting"
  /\ r \notin aborted
  /\ pending[w] = r
  /\ aborted' = aborted \cup {r}
  /\ pool' = Dropped(KeyOf[r], {w})
  /\ Unregister(EmptiedBy(KeyOf[r], {w}))
  /\ proc' = Terminated({w})
  /\ idle' = idle \ {w}
  /\ UNCHANGED <<status, answer, crashes, versionVars, home, pending, turn, recycle,
                 count, boot, up>>

\* The oldest exit of a key leaves the crash window.
CrashAges(k) ==
  /\ up
  /\ crashes[k] > 0
  /\ crashes' = [crashes EXCEPT ![k] = @ - 1]
  /\ UNCHANGED <<callVars, poolVars, versionVars, workerVars, up>>

\* External: the CLI is upgraded on disk.
Upgrade ==
  /\ up
  /\ installed < MaxVersion
  /\ installed' = installed + 1
  /\ UNCHANGED <<callVars, poolVars, crashes, snapshot, workerVars, up>>

\* disposeAll, the last thing the proxy does before process.exit.
DisposeAll ==
  LET all == UNION {pool[k] : k \in keys} IN
  /\ up
  /\ up' = FALSE
  /\ pool' = [k \in Key |-> {}]
  /\ Unregister(keys)
  /\ proc' = Terminated(all)
  /\ idle' = idle \ all
  /\ UNCHANGED <<callVars, crashes, versionVars, home, pending, turn, recycle, count, boot>>

\* External: a prompt was written to a stdin that has ended or broken. The
\* write's callback leads to ExitBusy; but the stream also emits 'error', to which
\* nothing listens, and Node ends a process on such an event before any `finally`
\* resumes. The pipes of all the children close with it.
StdinError(w) ==
  /\ up
  /\ proc[w] \in Alive
  /\ pending[w] # None
  /\ up' = FALSE
  /\ proc' = Terminated(Worker)
  /\ idle' = {}
  /\ UNCHANGED <<callVars, poolVars, crashes, versionVars, home, pending, turn,
                 recycle, count, boot>>

Next ==
  \/ \E r \in Request : Complete(r)
  \/ \E r \in Request, w \in Worker : Abort(r, w)
  \/ \E w \in Worker, ok, heavy \in BOOLEAN : Result(w, ok, heavy)
  \/ \E w \in Worker : StrayResult(w) \/ Timeout(w) \/ IdleTimeout(w) \/ Exit(w)
  \/ \E w \in Worker : StdinError(w)
  \/ \E k \in Key : CrashAges(k)
  \/ Upgrade
  \/ DisposeAll

\* Timers that are armed fire, and a child that got SIGTERM dies. Nothing makes
\* a client call, a child answer or crash, or the operator upgrade or stop.
Fairness ==
  /\ \A w \in Worker : WF_vars(Timeout(w))
  /\ \A w \in Worker : WF_vars(IdleTimeout(w))
  /\ \A w \in Worker : WF_vars(proc[w] = "terminating" /\ Exit(w))
  /\ \A k \in Key : WF_vars(CrashAges(k))

Spec == Init /\ [][Next]_vars
FairSpec == Spec /\ Fairness

-----------------------------------------------------------------------------
(* Properties.                                                             *)

\* Types of all the variables of the pool, its workers and their children.
TypeOK ==
  /\ status \in [Request -> Status]
  /\ answer \in [Request -> Request \cup {None}]
  /\ aborted \subseteq Request
  /\ pool \in [Key -> SUBSET Worker]
  /\ keys \subseteq Key
  /\ before \subseteq Key \X Key
  /\ crashes \in [Key -> Nat]
  /\ installed \in 1 .. MaxVersion
  /\ snapshot \in 0 .. MaxVersion
  /\ proc \in [Worker -> ProcState]
  /\ home \in [Worker -> Key \cup {None}]
  /\ pending \in [Worker -> Request \cup {None}]
  /\ turn \in [Worker -> Seq(Request)]
  /\ idle \subseteq Worker
  /\ recycle \subseteq Worker
  /\ count \in [Worker -> Nat]
  /\ boot \in [Worker -> 0 .. MaxVersion]
  /\ up \in BOOLEAN

\* A call of complete() is only ever resolved with the answer to its own
\* prompt: a late result of a timed out or aborted turn, which the CLI does not
\* tag with a generation, never reaches the next caller.
OwnAnswer == \A r \in Request : status[r] = "resolved" => answer[r] = r

\* A call that awaits is in flight on exactly one worker, whose timer or exit
\* will settle it, and a call that has settled is in flight on none.
ServedByOne ==
  \A r \in Request :
    Cardinality({w \in Worker : pending[w] = r}) = IF status[r] = "waiting" THEN 1 ELSE 0

\* A worker is filed under the key it was spawned for and serves only requests
\* of that key, so no prompt reaches a child of another model or system prompt.
KeyIsolation ==
  /\ \A k \in Key : \A w \in pool[k] : home[w] = k
  /\ \A w \in Busy : KeyOf[pending[w]] = home[w]

\* A key never holds more than Size workers.
SizeRespected == \A k \in Key : Cardinality(pool[k]) <= Size

\* No child accumulates more than MaxRequests turns of context, although a
\* worker is only checked after a turn and only dropped by later callbacks.
TurnsBounded == \A w \in Worker : count[w] <= MaxRequests

\* Once no request is in flight, at most PromptCap keys keep workers, though
\* eviction skips every key that is busy when it runs.
CapAtRest == Busy = {} => Cardinality(keys) <= PromptCap

\* A child nobody told to stop is reachable from workersByKey, where recycling,
\* eviction and shutdown can find it; after shutdown there is none.
NoLeakedChild == \A w \in Worker : proc[w] = "running" => up /\ w \in pool[home[w]]

\* A running child always has a timer that will end it: the idle timer or the
\* timer of the request in flight.
NoImmortalChild == \A w \in Worker : proc[w] = "running" => w \in idle \cup Busy

\* workersByKey holds exactly the keys that have workers, in a total order of
\* use: no empty array stays behind to count toward the cap.
MapConsistent ==
  /\ keys = {k \in Key : pool[k] # {}}
  /\ before \subseteq keys \X keys
  /\ \A j, k \in keys : <<j, k>> \in before <=> (j # k /\ <<k, j>> \notin before)
  /\ \A i, j, k \in keys : <<i, j>> \in before /\ <<j, k>> \in before => <<i, k>> \in before

\* The child of a request in flight is told to stop only because that request
\* was aborted, or the worker drifted from the pool's snapshot, or the proxy
\* shuts down: never to recycle or evict on behalf of somebody else.
NoBystanderKilled ==
  [][\A w \in Worker :
       /\ proc[w] = "running" /\ proc'[w] = "terminating"
       /\ pending[w] # None /\ pending'[w] = pending[w]
       => pending[w] \in aborted' \/ IsDrifted(w, snapshot') \/ ~up']_vars

\* A worker that has been flagged needsRecycle takes no further request.
NoRecycledReuse ==
  [][\A w \in Worker : pending'[w] # None /\ pending'[w] # pending[w]
       => w \notin recycle' /\ count[w] < MaxRequests]_vars

\* Once the clients stop calling, no child is left running: idle timers, request
\* timers and SIGTERM between them reap every worker.
EventuallyQuiet == <>[](\A w \in Worker : up => proc[w] \notin Alive)

\* The pool implements the promise of PromptService: accepted calls are settled
\* exactly once, with their own answer or an error, and none waits for ever.
Accepted == {r \in Request : status[r] = "waiting"}
Outcome  == [r \in Request |-> IF status[r] \in Settled THEN status[r] ELSE "none"]
Service  == INSTANCE PromptService WITH accepted <- Accepted, outcome <- Outcome
ServiceSafe == Service!SSafe
ServiceLive == Service!SSpec

-----------------------------------------------------------------------------
(* The inductive invariant behind the safety properties.                   *)

\* A request in flight awaits, on a live worker of its own key that has a turn
\* left, whose child has at most this one prompt to answer, and whose idle timer
\* is off.
InFlight ==
  \A w \in Worker : pending[w] # None =>
    /\ status[pending[w]] = "waiting"
    /\ KeyOf[pending[w]] = home[w]
    /\ proc[w] \in Alive
    /\ count[w] < MaxRequests
    /\ turn[w] \in {<<>>, <<pending[w]>>}
    /\ w \notin idle

\* No two workers hold the same request, and one holds every request that waits.
HeldOnce ==
  /\ \A v, w \in Worker : pending[v] = pending[w] /\ pending[v] # None => v = w
  /\ \A r \in Request : status[r] = "waiting" => \E w \in Worker : pending[w] = r

\* A worker that can be acquired is fresh: alive, not flagged, with a turn left
\* and, unless it is busy, a child that owes no answer.
Filed ==
  \A k \in Key : \A w \in pool[k] :
    /\ home[w] = k
    /\ proc[w] \in Alive
    /\ w \notin recycle
    /\ count[w] < MaxRequests
    /\ pending[w] = None => turn[w] = <<>>

\* An identity that has not been spawned carries no state, any other has a key.
Unborn ==
  \A w \in Worker :
    /\ proc[w] # "unborn" => home[w] \in Key
    /\ proc[w] = "unborn" =>
         pending[w] = None /\ turn[w] = <<>> /\ count[w] = 0 /\ w \notin recycle \cup idle

\* The conjunction that every step preserves.
IInv ==
  /\ TypeOK /\ InFlight /\ HeldOnce /\ Filed /\ Unborn /\ MapConsistent
  /\ NoLeakedChild /\ NoImmortalChild /\ TurnsBounded /\ SizeRespected /\ OwnAnswer

-----------------------------------------------------------------------------
(* What comments of the code say, and the code does not do.                *)

\* _writeGuarded's comment: a write error is routed "to the crash reap instead of
\* letting the error escape the dispatch path", so the proxy only ever stops
\* through disposeAll, which empties the map.
WriteErrorContained == ~up => keys = {}
=============================================================================
