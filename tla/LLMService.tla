----------------------------- MODULE LLMService -----------------------------
(***************************************************************************)
(* The SDK facade of src/llm-service.ts: complete() with its local and     *)
(* public routes, the response cache, the circuit breakers and the         *)
(* subscription quota, under concurrent calls.                             *)
(*                                                                         *)
(* A call is a chain of awaits (the sensitivity classifier, the budget,    *)
(* each quota check, a provider, the bookkeeping, the schema retry); an    *)
(* action is what runs between two of them, and anything another call did  *)
(* meanwhile is seen by the next. The service is initialised, and no       *)
(* call is in mock mode. A backoff may pass, and a cache entry expire or   *)
(* be evicted, at any moment. An answer is good or bad for a schema.       *)
(***************************************************************************)
EXTENDS CircuitBreaker, Sequences

CONSTANTS Request,         \* calls of complete()
          Provider,        \* registered providers
          LocalOrder,      \* those with isLocal, in registration order
          Subscription,    \* those with a quota, in the order they are checked
          Chain,           \* resolveProviderChain of each call
          Prompt,          \* cache keys
          PromptOf,        \* the cache key of each call
          LocalOnly,       \* calls in local mode or with privacy: 'local'
          Sensitive,       \* calls the classifier finds sensitive
          Metered,         \* calls whose budget is checked
          Schema,          \* calls with a responseSchema
          SkipCache,       \* calls with skipCache
          ClassifierFails  \* bound: whether the classifier may throw

ASSUME ServiceAssumption ==
  /\ LocalOrder \in Seq(Provider) /\ Subscription \in Seq(Provider)
  /\ Chain \in [Request -> Seq(Provider)]
  /\ PromptOf \in [Request -> Prompt]
  /\ LocalOnly \subseteq Request /\ Sensitive \subseteq Request
  /\ Metered \subseteq Request /\ Schema \subseteq Request /\ SkipCache \subseteq Request
  /\ ClassifierFails \in BOOLEAN

VARIABLES
  call,     \* request -> [pc, i, ok]: what it awaits, the index in the list it
            \* walks, and the quota check or the answer it holds: that it passes the
            \* schema check, which an answer without content is not put to
  breaker,  \* provider -> its circuit breaker
  quota,    \* provider -> "ok", "exhausted", or "rested" when it may be retried
  cache     \* prompt -> "none", or the answer kept

vars == <<call, breaker, quota, cache>>

Waiting == {"classifying", "affording", "quota", "local", "asking", "booking", "fixing"}
Settled == {"done", "failed"}
Answer  == {"good", "bad"}

IsSubscription(p) == \E i \in DOMAIN Subscription : Subscription[i] = p

Init ==
  /\ call = [r \in Request |-> [pc |-> "new", i |-> 1, ok |-> FALSE]]
  /\ breaker = [p \in Provider |-> Closed]
  /\ quota = [p \in Provider |-> "ok"]
  /\ cache = [k \in Prompt |-> "none"]

-----------------------------------------------------------------------------
(* Where a call goes next. Each of these gives call', from the breakers as *)
(* the step leaves them.                                                   *)

At(r, pc, i, ok) == call' = [call EXCEPT ![r] = [pc |-> pc, i |-> i, ok |-> ok]]

\* The walk of a list from position i on: the first whose circuit lets a call
\* through, or none.
FirstUsable(s, i) ==
  {j \in i .. Len(s) : ~IsOpen(breaker'[s[j]]) /\ \A k \in i .. j - 1 : IsOpen(breaker'[s[k]])}

AllOpen(s, i) == \A j \in i .. Len(s) : IsOpen(breaker'[s[j]])

\* Mutant: an open circuit ends the walk.
EnterChainStops(r, i) ==
  \/ i \in FirstUsable(Chain[r], i) /\ At(r, "asking", i, FALSE)
  \/ i \notin FirstUsable(Chain[r], i) /\ At(r, "failed", 1, FALSE)

\* The providers of the chain in turn.
EnterChain(r, i) ==
  \/ \E j \in FirstUsable(Chain[r], i) : At(r, "asking", j, FALSE)
  \/ AllOpen(Chain[r], i) /\ At(r, "failed", 1, FALSE)

\* completePublic: a cached answer ends the call, whatever the schema.
EnterPublic(r) ==
  LET kept == cache[PromptOf[r]]
      hit  == r \notin SkipCache /\ kept # "none"
  IN  \/ hit /\ At(r, "done", 1, kept = "good")
      \/ ~hit /\ At(r, "classifying", 1, FALSE)

\* completeWithLocal, from position i on; public as the last resort.
EnterLocal(r, i) ==
  \/ \E j \in FirstUsable(LocalOrder, i) : At(r, "local", j, FALSE)
  \/ AllOpen(LocalOrder, i) /\ EnterPublic(r)

\* The quota checks from position i on, then the chain. isAvailable gives a
\* provider that has rested its chance and is awaited with its answer known.
EnterQuota(r, i) ==
  \/ /\ i <= Len(Subscription)
     /\ LET p == Subscription[i]
        IN  /\ quota' = [quota EXCEPT ![p] = IF quota[p] = "rested" THEN "ok" ELSE quota[p]]
            /\ At(r, "quota", i, quota[p] # "exhausted")
  \/ /\ i > Len(Subscription)
     /\ UNCHANGED quota
     /\ EnterChain(r, 1)

-----------------------------------------------------------------------------
(* Steps of a call.                                                        *)

Complete(r) ==
  /\ call[r].pc = "new"
  /\ UNCHANGED <<breaker, quota, cache>>
  /\ \/ r \in LocalOnly /\ EnterLocal(r, 1)
     \/ r \notin LocalOnly /\ EnterPublic(r)

\* Mutant: the budget comes first.
ClassifiedUnlessMetered(r) ==
  /\ call[r].pc = "classifying"
  /\ UNCHANGED <<breaker, cache>>
  /\ \/ r \in Metered /\ At(r, "affording", 1, FALSE) /\ UNCHANGED quota
     \/ r \in Sensitive \ Metered /\ EnterLocal(r, 1) /\ UNCHANGED quota
     \/ r \notin Sensitive \cup Metered /\ EnterQuota(r, 1)

\* The classifier answers; when it throws, the call counts as not sensitive.
Classified(r) ==
  /\ call[r].pc = "classifying"
  /\ UNCHANGED <<breaker, cache>>
  /\ \/ /\ r \in Sensitive
        /\ EnterLocal(r, 1)
        /\ UNCHANGED quota
     \/ /\ r \notin Sensitive \/ ClassifierFails
        /\ \/ r \in Metered /\ At(r, "affording", 1, FALSE) /\ UNCHANGED quota
           \/ r \notin Metered /\ EnterQuota(r, 1)

\* canAfford answers; when it throws, the call is allowed.
Afforded(r) ==
  /\ call[r].pc = "affording"
  /\ UNCHANGED <<breaker, cache>>
  /\ \/ EnterLocal(r, 1) /\ UNCHANGED quota
     \/ EnterQuota(r, 1)

\* Mutant: an exhausted provider is checked until it is available.
QuotaCheckedWaits(r) ==
  /\ call[r].pc = "quota"
  /\ UNCHANGED <<breaker, cache>>
  /\ EnterQuota(r, IF call[r].ok THEN call[r].i + 1 ELSE call[r].i)

\* isAvailable answers; no means a failure on the breaker.
QuotaChecked(r) ==
  LET p == Subscription[call[r].i] IN
  /\ call[r].pc = "quota"
  /\ breaker' = [breaker EXCEPT ![p] = IF call[r].ok THEN breaker[p] ELSE RecordFailure(breaker[p])]
  /\ UNCHANGED cache
  /\ EnterQuota(r, call[r].i + 1)

LocalAnswers(r) ==
  LET p == LocalOrder[call[r].i] IN
  /\ call[r].pc = "local"
  /\ breaker' = [breaker EXCEPT ![p] = RecordSuccess(breaker[p])]
  /\ \E ok \in BOOLEAN : At(r, "done", 1, ok)
  /\ UNCHANGED <<quota, cache>>

LocalFails(r) ==
  LET p == LocalOrder[call[r].i] IN
  /\ call[r].pc = "local"
  /\ \E b \in {Trip(breaker[p]), RecordFailure(breaker[p])} : breaker' = [breaker EXCEPT ![p] = b]
  /\ UNCHANGED <<quota, cache>>
  /\ EnterLocal(r, call[r].i + 1)

\* A provider of the chain answers in time. A subscription's usage is recorded,
\* which clears its exhaustion, before the bookkeeping is awaited.
Answers(r) ==
  LET p == Chain[r][call[r].i] IN
  /\ call[r].pc = "asking"
  /\ breaker' = [breaker EXCEPT ![p] = RecordSuccess(breaker[p])]
  /\ quota' = [quota EXCEPT ![p] = IF IsSubscription(p) THEN "ok" ELSE quota[p]]
  /\ \E ok \in BOOLEAN : At(r, "booking", call[r].i, ok)
  /\ UNCHANGED cache

\* The catch block: an AUTH_ERROR trips the circuit, QUOTA_EXHAUSTED marks the
\* provider, and the next one is tried.
Caught(r) ==
  LET p == Chain[r][call[r].i] IN
  /\ \/ breaker' = [breaker EXCEPT ![p] = Trip(breaker[p])] /\ UNCHANGED quota
     \/ /\ breaker' = [breaker EXCEPT ![p] = RecordFailure(breaker[p])]
        /\ quota' \in {quota, [quota EXCEPT ![p] = "exhausted"]}
  /\ UNCHANGED cache
  /\ EnterChain(r, call[r].i + 1)

\* An error, or the hard timeout of the call.
Fails(r) ==
  /\ call[r].pc = "asking"
  /\ Caught(r)

\* The bookkeeping is done: the answer is cached as it is, then checked.
Booked(r) ==
  /\ call[r].pc = "booking"
  /\ cache' = IF r \in SkipCache THEN cache
              ELSE [cache EXCEPT ![PromptOf[r]] = IF call[r].ok THEN "good" ELSE "bad"]
  /\ UNCHANGED <<breaker, quota>>
  /\ IF r \in Schema /\ ~call[r].ok
     THEN At(r, "fixing", call[r].i, FALSE)
     ELSE At(r, "done", 1, call[r].ok)

\* Mutant: the second answer is taken as it is.
FixedUnchecked(r) ==
  /\ call[r].pc = "fixing"
  /\ \/ (\E ok \in BOOLEAN : At(r, "done", 1, ok)) /\ UNCHANGED <<breaker, quota, cache>>
     \/ Caught(r)
\* The same provider is asked once more; a second bad answer is an error.
Fixed(r) ==
  /\ call[r].pc = "fixing"
  /\ \/ At(r, "done", 1, TRUE) /\ UNCHANGED <<breaker, quota, cache>>
     \/ Caught(r)

\* External: time passes.
CoolDown(p) ==
  /\ IsOpen(breaker[p])
  /\ breaker' = [breaker EXCEPT ![p] = Cooled(breaker[p])]
  /\ UNCHANGED <<call, quota, cache>>

Rest(p) ==
  /\ quota[p] = "exhausted"
  /\ quota' = [quota EXCEPT ![p] = "rested"]
  /\ UNCHANGED <<call, breaker, cache>>

Forget(k) ==
  /\ cache[k] # "none"
  /\ cache' = [cache EXCEPT ![k] = "none"]
  /\ UNCHANGED <<call, breaker, quota>>

Resume(r) ==
  \/ Classified(r) \/ Afforded(r) \/ QuotaChecked(r)
  \/ LocalAnswers(r) \/ LocalFails(r)
  \/ Answers(r) \/ Fails(r) \/ Booked(r) \/ Fixed(r)

Next ==
  \/ \E r \in Request : Complete(r) \/ Resume(r)
  \/ \E p \in Provider : CoolDown(p) \/ Rest(p)
  \/ \E k \in Prompt : Forget(k)

\* Whatever a call awaits settles: a provider of the chain by the hard timeout,
\* a local one and the schema retry by the timeout of their HTTP client. That the
\* caller's classifier and canAfford settle is assumed: the code awaits them without
\* a timeout. A reset timeout passes.
Fairness ==
  /\ \A r \in Request : WF_vars(Resume(r))
  /\ \A p \in Provider : WF_vars(CoolDown(p))

Spec == Init /\ [][Next]_vars
FairSpec == Spec /\ Fairness

-----------------------------------------------------------------------------
(* The walk of a call, written down beside the steps and seen by none.     *)

VARIABLE past  \* history: call -> the positions of its chain that failed it, or that
               \* it passed while their circuit was open

\* What a call leaves behind when it walks on: the provider that it asked, and each
\* one before the next, if its circuit is open.
Left(r) ==
  LET here == IF call[r].pc \in {"asking", "fixing"} THEN call[r].i ELSE 0
      next == IF call'[r].pc = "asking" THEN call'[r].i ELSE Len(Chain[r]) + 1
  IN  {j \in 1 .. Len(Chain[r]) :
         j = here \/ (here < j /\ j < next /\ IsOpen(breaker'[Chain[r][j]]))}

WalksOn(r) == call'[r] # call[r] /\ call'[r].pc \in {"asking", "failed"}

Noted ==
  past' = [r \in Request |-> IF WalksOn(r) THEN past[r] \cup Left(r)
                            ELSE IF call'[r].pc = "done" THEN {} ELSE past[r]]

HInit == Init /\ past = [r \in Request |-> {}]
HNext == Next /\ Noted
HSpec == HInit /\ [][HNext]_<<vars, past>>

-----------------------------------------------------------------------------
(* Properties.                                                             *)

\* Types, and a call that waits on a list points into it.
TypeOK ==
  /\ call \in [Request -> [pc : {"new"} \cup Waiting \cup Settled, i : Nat, ok : BOOLEAN]]
  /\ breaker \in [Provider -> Breaker]
  /\ quota \in [Provider -> {"ok", "exhausted", "rested"}]
  /\ cache \in [Prompt -> Answer \cup {"none"}]

PointsInto(r) ==
  /\ call[r].pc = "quota" => call[r].i \in 1 .. Len(Subscription)
  /\ call[r].pc = "local" => call[r].i \in 1 .. Len(LocalOrder)
  /\ call[r].pc \in {"asking", "booking", "fixing"} => call[r].i \in 1 .. Len(Chain[r])

\* The wait of a breaker is longer than the base exactly while the circuit has
\* tripped, whatever order failures, auth errors, exhausted quotas and successes
\* of concurrent calls arrive in: one success resets both, and nothing else does.
BackoffOnlyWhileTripped ==
  \A p \in Provider : breaker[p].mult > 1 <=> breaker[p].failures >= Threshold

\* A call the classifier found sensitive is never sent along the public chain,
\* however often the local route gives up on it, as long as the classifier does
\* not throw.
SensitiveStaysLocal ==
  \A r \in Sensitive :
    ~ClassifierFails => call[r].pc \notin {"affording", "quota", "asking", "booking", "fixing"}

\* The chain is walked in turn, whatever other calls do to its breakers between one
\* provider and the next: a provider is asked once each before it has failed the call
\* or was passed with its circuit open, never again after it has failed it, and a call
\* fails only after that became of every provider of its chain.
InTurn ==
  \A r \in Request :
    /\ call[r].pc \in {"asking", "booking", "fixing"} => past[r] = 1 .. call[r].i - 1
    /\ call[r].pc = "failed" => past[r] = 1 .. Len(Chain[r])

\* A public call with a schema that does not take cached answers is only ever
\* resolved with an answer that passes its check, be it the first or the second of
\* a provider, whatever other calls leave in the cache meanwhile.
SchemaHonouredUncached ==
  \A r \in (Schema \cap SkipCache) \ (LocalOnly \cup Sensitive \cup Metered) :
    call[r].pc = "done" => call[r].ok

\* What a request says of where its prompt may go and what its answer must be, no
\* fallback, second try or other call undoes.
RequestHonoured == SensitiveStaysLocal /\ SchemaHonouredUncached

\* Every public call settles, one way or the other.
PublicCallsSettle ==
  \A r \in Request \ (Sensitive \cup Metered) :
    call[r].pc # "new" ~> call[r].pc \in Settled

IInv == TypeOK /\ (\A r \in Request : PointsInto(r)) /\ BackoffOnlyWhileTripped

-----------------------------------------------------------------------------
(* What the docs and comments say, and the code does not do.               *)

\* "fall through to public as last resort": a sensitive call whose local providers
\* keep failing settles too.
SensitiveCallsSettle ==
  \A r \in Sensitive : call[r].pc # "new" ~> call[r].pc \in Settled

\* "Validate responseSchema (Zod) if provided".
SchemaHonoured ==
  \A r \in Schema : call[r].pc = "done" => call[r].ok
=============================================================================
