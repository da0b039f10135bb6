-------------------------- MODULE WorkerPoolProofs --------------------------
(***************************************************************************)
(* Proofs about WorkerPool for any requests, keys, workers and limits.     *)
(* IInv is inductive; the safety properties and the refinement of          *)
(* PromptService follow from it.                                           *)
(***************************************************************************)
EXTENDS WorkerPool, FiniteSetTheorems, SequenceTheorems, WellFoundedInduction, TLAPS

-----------------------------------------------------------------------------
(* Operators of the model.                                                 *)

\* Terminated changes only running children of the set, into "terminating".
LEMMA TerminatedFacts ==
  ASSUME TypeOK, NEW W
  PROVE  /\ Terminated(W) \in [Worker -> ProcState]
         /\ \A v \in Worker :
              Terminated(W)[v] = IF v \in W /\ proc[v] = "running" THEN "terminating" ELSE proc[v]
BY DEF Terminated, TypeOK, ProcState

\* Removing keys from the map leaves keys and an order on keys.
LEMMA UnregisterType ==
  ASSUME TypeOK, NEW K, Unregister(K)
  PROVE  keys' \subseteq Key /\ before' \subseteq Key \X Key
BY DEF TypeOK, Unregister

\* A version the pool reads is a version or the mark of a failed read.
LEMMA RefreshedType ==
  ASSUME PoolAssumption, TypeOK, NEW v \in Refreshed
  PROVE  v \in 0 .. MaxVersion
BY DEF PoolAssumption, TypeOK, Refreshed, ReadVersion, NoVersion

\* A step that only removes workers from the pool keeps every key within Size.
LEMMA SmallerPools ==
  ASSUME PoolAssumption, TypeOK, SizeRespected,
         \A j \in Key : pool'[j] \subseteq pool[j]
  PROVE  SizeRespected'
<1>1. \A j \in Key : IsFiniteSet(pool[j])
  BY FS_Subset DEF PoolAssumption, TypeOK
<1>2. \A j \in Key : /\ Cardinality(pool'[j]) \in Nat /\ Cardinality(pool[j]) \in Nat
                     /\ Cardinality(pool'[j]) <= Cardinality(pool[j])
  BY <1>1, FS_Subset, FS_CardinalityType
<1>3. QED
  BY <1>2 DEF SizeRespected, PoolAssumption

\* Touching a key does, too.
LEMMA TouchType ==
  ASSUME TypeOK, NEW k \in Key, Touch(k)
  PROVE  keys' \subseteq Key /\ before' \subseteq Key \X Key
BY DEF TypeOK, Touch

\* Deleting the keys whose pools a step empties keeps the map consistent.
LEMMA UnregisterMap ==
  ASSUME MapConsistent, NEW K, Unregister(K),
         \A j \in Key : pool'[j] = {} <=> pool[j] = {} \/ j \in K
  PROVE  MapConsistent'
<1>1. /\ keys' = keys \ K
      /\ before' = {p \in before : p[1] \notin K /\ p[2] \notin K}
  BY DEF Unregister
<1>2. keys' = {j \in Key : pool'[j] # {}}
  BY <1>1 DEF MapConsistent
<1>3. /\ before' \subseteq keys' \X keys'
      /\ \A j, k \in keys' : <<j, k>> \in before' <=> <<j, k>> \in before
  BY <1>1 DEF MapConsistent
<1>4. QED
  BY <1>1, <1>2, <1>3 DEF MapConsistent

\* Moving a key that has workers to the end keeps the map consistent.
LEMMA TouchMap ==
  ASSUME MapConsistent, NEW k \in Key, Touch(k), pool'[k] # {},
         \A j \in Key \ {k} : pool'[j] = pool[j]
  PROVE  MapConsistent'
<1>1. /\ keys' = keys \cup {k}
      /\ before' = {p \in before : k \notin {p[1], p[2]}} \cup ((keys \ {k}) \X {k})
  BY DEF Touch
<1>2. keys' = {j \in Key : pool'[j] # {}}
  BY <1>1 DEF MapConsistent
<1>3. before' \subseteq keys' \X keys'
  BY <1>1 DEF MapConsistent
<1>4. \A i, j \in keys' :
        <<i, j>> \in before' <=> (i # k /\ j # k /\ <<i, j>> \in before) \/ (i # k /\ j = k)
  BY <1>1 DEF MapConsistent
<1>5. \A j \in keys' : j # k => j \in keys
  BY <1>1
<1>6. \A i, j \in keys' : <<i, j>> \in before' <=> (i # j /\ <<j, i>> \notin before')
  BY <1>4, <1>5 DEF MapConsistent
<1>7. \A h, i, j \in keys' :
        <<h, i>> \in before' /\ <<i, j>> \in before' => <<h, j>> \in before'
  <2> SUFFICES ASSUME NEW h \in keys', NEW i \in keys', NEW j \in keys',
                      <<h, i>> \in before', <<i, j>> \in before'
               PROVE  <<h, j>> \in before'
    OBVIOUS
  <2>1. h # k /\ i # k /\ <<h, i>> \in before
    BY <1>4
  <2>2. CASE j = k
    BY <2>1, <2>2, <1>4
  <2>3. CASE j # k
    BY <2>1, <2>3, <1>4, <1>5 DEF MapConsistent
  <2>4. QED
    BY <2>2, <2>3
<1>8. QED
  BY <1>2, <1>3, <1>6, <1>7 DEF MapConsistent

\* What the finally block does to the pool: it only removes workers, it
\* disposes of all it removes, and apart from w it removes no busy worker.
LEMMA FinallyFacts ==
  ASSUME PoolAssumption, TypeOK, NEW w \in Worker, pending[w] # None, Finally(w)
  PROVE  /\ pool' \in [Key -> SUBSET Worker]
         /\ keys' \subseteq Key /\ before' \subseteq Key \X Key
         /\ Disposes(w) \subseteq Worker
         /\ \A j \in Key : pool'[j] \subseteq pool[j]
         /\ \A j \in Key : \A u \in pool[j] \ pool'[j] : u \in Disposes(w)
         /\ w \in recycle' => w \in Disposes(w) /\ w \notin pool'[KeyOf[pending[w]]]
         /\ \A u \in Disposes(w) : u \in Busy => u = w
         /\ MapConsistent => MapConsistent'
<1> DEFINE k == KeyOf[pending[w]]
           E == Evicts(w)
           D == Drops(w)
<1>1. k \in Key /\ D \subseteq {w} /\ (w \in recycle' => w \in D)
  BY DEF TypeOK, PoolAssumption, Drops
<1>2. E \subseteq {j \in Key \ {k} : pool[j] # {} /\ pool[j] \cap (Busy \ {w}) = {}}
  BY <1>1 DEF Evicts, Victims, Evictable, Dropped, TypeOK
<1>3. pool' = [j \in Key |-> IF j \in E THEN {} ELSE Dropped(k, D)[j]]
  BY DEF Finally
<1>4. \A j \in Key : Dropped(k, D)[j] = IF j = k THEN pool[k] \ D ELSE pool[j]
  BY DEF Dropped, TypeOK
<1>5. Disposes(w) = D \cup UNION {pool[j] : j \in E}
  BY DEF Disposes
<1>6. pool \in [Key -> SUBSET Worker]
  BY DEF TypeOK
<1>7. keys' \subseteq Key /\ before' \subseteq Key \X Key
  BY UnregisterType DEF Finally
<1>8. Unregister(E \cup EmptiedBy(k, D))
  BY DEF Finally
<1>9. EmptiedBy(k, D) = IF D # {} /\ pool[k] \ D = {} THEN {k} ELSE {}
  BY <1>1, <1>4 DEF EmptiedBy
<1> HIDE DEF E, D
<1>10. \A j \in Key : pool'[j] = {} <=> pool[j] = {} \/ j \in E \cup EmptiedBy(k, D)
  BY <1>1, <1>2, <1>3, <1>4, <1>6, <1>9
<1>11. MapConsistent => MapConsistent'
  BY <1>8, <1>10, UnregisterMap
<1>12. QED
  BY <1>1, <1>2, <1>3, <1>4, <1>5, <1>6, <1>7, <1>11

-----------------------------------------------------------------------------
(* The invariant holds initially, and every step preserves it.             *)

\* Init establishes the invariant.
LEMMA InitIInv == ASSUME PoolAssumption, Init PROVE IInv
<1>1. TypeOK
  BY DEF Init, PoolAssumption, TypeOK, Status, ProcState, ReadVersion, NoVersion
<1>2. \A k \in Key : Cardinality(pool[k]) = 0
  BY FS_EmptySet DEF Init
<1>3. InFlight /\ HeldOnce /\ Filed /\ Unborn
  BY DEF Init, InFlight, HeldOnce, Filed, Unborn
<1>4. NoLeakedChild /\ NoImmortalChild /\ OwnAnswer
  BY DEF Init, NoLeakedChild, NoImmortalChild, OwnAnswer
<1>5. TurnsBounded /\ SizeRespected
  BY <1>2, SMT DEF Init, TurnsBounded, SizeRespected, PoolAssumption
<1>6. MapConsistent
  BY DEF Init, MapConsistent
<1>7. QED
  BY <1>6, <1>1, <1>3, <1>4, <1>5 DEF IInv

\* A free worker takes a request.
LEMMA AcquireStep ==
  ASSUME PoolAssumption, IInv,
         NEW r \in Request, NEW w \in Worker, NEW v \in Refreshed, Acquire(r, w, v)
  PROVE  IInv'
<1> DEFINE k == KeyOf[r]
           F == Flagged(k, v)
<1>1. /\ k \in Key /\ F \subseteq Worker
      /\ status[r] = "new" /\ w \in pool[k] /\ w \notin F /\ pending[w] = None
      /\ recycle \subseteq F /\ F \subseteq recycle \cup pool[k]
  BY DEF Acquire, Admits, Kept, Busy, PoolAssumption, IInv, TypeOK, Flagged
<1>2. /\ status' = [status EXCEPT ![r] = "waiting"]
      /\ pending' = [pending EXCEPT ![w] = r]
      /\ turn' = [turn EXCEPT ![w] = IF proc[w] = "running" THEN Append(@, r) ELSE @]
      /\ recycle' = F /\ snapshot' = v
      /\ pool' = [pool EXCEPT ![k] = @ \ F]
      /\ idle' = idle \ ((pool[k] \cap F) \cup {w})
      /\ UNCHANGED <<answer, aborted, crashes, installed, home, count, boot, up>>
  BY DEF Acquire, Dispatch, Reap, Kept, IInv, TypeOK
<1>3. /\ proc' \in [Worker -> ProcState]
      /\ \A u \in Worker :
           proc'[u] = IF u \in pool[k] \cap F /\ proc[u] = "running" THEN "terminating" ELSE proc[u]
  BY TerminatedFacts DEF Acquire, Reap, IInv
<1>4. keys' \subseteq Key /\ before' \subseteq Key \X Key
  BY TouchType, <1>1 DEF Acquire, IInv
<1>5. turn[w] = <<>>
  BY <1>1 DEF IInv, Filed
<1> HIDE DEF k, F
<1>6. TypeOK'
  <2>1. snapshot' \in 0 .. MaxVersion
    BY <1>2, RefreshedType DEF IInv
  <2>2. turn' \in [Worker -> Seq(Request)]
    BY <1>2, AppendProperties DEF IInv, TypeOK
  <2>3. QED
    BY <1>1, <1>2, <1>3, <1>4, <2>1, <2>2 DEF IInv, TypeOK, Status
<1>7. InFlight'
  BY <1>1, <1>2, <1>3, <1>5 DEF IInv, TypeOK, InFlight, Filed, Alive, k
<1>8. HeldOnce'
  BY <1>1, <1>2 DEF IInv, TypeOK, HeldOnce, InFlight, PoolAssumption
<1>9. Filed'
  BY <1>1, <1>2, <1>3 DEF IInv, TypeOK, Filed, Alive
<1>10. Unborn'
  BY <1>1, <1>2, <1>3 DEF IInv, TypeOK, Unborn, Filed, Alive
<1>11. NoLeakedChild' /\ NoImmortalChild'
  BY <1>1, <1>2, <1>3 DEF IInv, TypeOK, NoLeakedChild, NoImmortalChild, Busy, PoolAssumption
<1>12. TurnsBounded' /\ OwnAnswer'
  BY <1>1, <1>2 DEF IInv, TypeOK, TurnsBounded, OwnAnswer
<1>13. SizeRespected'
  <2>1. \A j \in Key : pool'[j] \subseteq pool[j]
    BY <1>1, <1>2 DEF IInv, TypeOK
  <2>2. QED
    BY <2>1, SmallerPools DEF IInv
<1>14. MapConsistent'
  <2>1. pool'[k] # {} /\ \A j \in Key \ {k} : pool'[j] = pool[j]
    BY <1>1, <1>2 DEF IInv, TypeOK
  <2>2. QED
    BY <1>1, <2>1, TouchMap DEF IInv, Acquire, k
<1>15. QED
  BY <1>14, <1>6, <1>7, <1>8, <1>9, <1>10, <1>11, <1>12, <1>13 DEF IInv

\* A sibling is spawned for a request.
LEMMA SpawnStep ==
  ASSUME PoolAssumption, IInv, NEW r \in Request, NEW w \in Worker,
         NEW v \in Refreshed, NEW b \in ReadVersion, SpawnFor(r, w, v, b)
  PROVE  IInv'
<1> DEFINE k == KeyOf[r]
           F == Flagged(k, v)
<1>1. /\ k \in Key /\ F \subseteq Worker
      /\ status[r] = "new" /\ proc[w] = "unborn"
      /\ recycle \subseteq F /\ F \subseteq recycle \cup pool[k]
      /\ pool[k] \ F \subseteq Busy /\ Cardinality(pool[k] \ F) < Size
  BY DEF SpawnFor, Admits, Kept, Busy, PoolAssumption, IInv, TypeOK, Flagged, HasRoom
<1>2. /\ status' = [status EXCEPT ![r] = "waiting"]
      /\ pending' = [pending EXCEPT ![w] = r]
      /\ turn' = [turn EXCEPT ![w] = Append(@, r)]
      /\ recycle' = F /\ snapshot' = v
      /\ home' = [home EXCEPT ![w] = k]
      /\ boot' = [boot EXCEPT ![w] = b]
      /\ pool' = [pool EXCEPT ![k] = (@ \ F) \cup {w}]
      /\ idle' = idle \ (pool[k] \cap F)
      /\ UNCHANGED <<answer, aborted, crashes, installed, count, up>>
  BY DEF SpawnFor, HasRoom, Dispatch, Kept, IInv, TypeOK
<1>3. /\ proc' \in [Worker -> ProcState]
      /\ \A u \in Worker :
           proc'[u] = IF u = w THEN "running"
                      ELSE IF u \in pool[k] \cap F /\ proc[u] = "running" THEN "terminating"
                      ELSE proc[u]
  BY TerminatedFacts DEF SpawnFor, IInv, ProcState
<1>4. keys' \subseteq Key /\ before' \subseteq Key \X Key
  BY TouchType, <1>1 DEF SpawnFor, IInv
<1>5. /\ turn[w] = <<>> /\ pending[w] = None /\ count[w] = 0
      /\ w \notin recycle \cup idle /\ w \notin pool[k] /\ w \notin F
      /\ \A j \in Key : w \notin pool[j]
  BY <1>1 DEF IInv, Filed, Unborn, Alive
<1>6. b \in 0 .. MaxVersion /\ snapshot' \in 0 .. MaxVersion /\ up
  BY <1>2, RefreshedType DEF IInv, Refreshed, SpawnFor, Admits
<1> HIDE DEF k, F
<1>7. TypeOK'
  <2>1. turn' \in [Worker -> Seq(Request)]
    BY <1>2, AppendProperties DEF IInv, TypeOK
  <2>2. QED
    BY <1>1, <1>2, <1>3, <1>4, <1>6, <2>1 DEF IInv, TypeOK, Status
<1>8. InFlight'
  BY <1>1, <1>2, <1>3, <1>5 DEF IInv, TypeOK, InFlight, Alive, PoolAssumption, k
<1>9. HeldOnce'
  BY <1>1, <1>2, <1>5 DEF IInv, TypeOK, HeldOnce, InFlight, PoolAssumption
<1>10. Filed'
  BY <1>1, <1>2, <1>3, <1>5 DEF IInv, TypeOK, Filed, Alive, PoolAssumption
<1>11. Unborn'
  BY <1>1, <1>2, <1>3, <1>5 DEF IInv, TypeOK, Unborn, Filed, Alive
<1>12. NoLeakedChild' /\ NoImmortalChild'
  BY <1>1, <1>2, <1>3, <1>5, <1>6
     DEF IInv, TypeOK, NoLeakedChild, NoImmortalChild, Busy, PoolAssumption
<1>13. TurnsBounded' /\ OwnAnswer'
  BY <1>1, <1>2 DEF IInv, TypeOK, TurnsBounded, OwnAnswer
<1>14. SizeRespected'
  <2>1. \A j \in Key : IsFiniteSet(pool[j] \ F)
    BY FS_Subset DEF IInv, TypeOK, PoolAssumption
  <2>2. Cardinality((pool[k] \ F) \cup {w}) = Cardinality(pool[k] \ F) + 1
    BY <2>1, <1>1, <1>5, FS_AddElement
  <2>3. Cardinality(pool'[k]) <= Size
    <3>1. pool'[k] = (pool[k] \ F) \cup {w}
      BY <1>1, <1>2 DEF IInv, TypeOK
    <3>2. Cardinality(pool[k] \ F) \in Nat
      BY <2>1, <1>1, FS_CardinalityType
    <3>3. QED
      BY <3>1, <3>2, <2>2, <1>1 DEF PoolAssumption
  <2>4. \A j \in Key \ {k} : pool'[j] = pool[j]
    BY <1>1, <1>2 DEF IInv, TypeOK
  <2>5. QED
    BY <2>3, <2>4 DEF IInv, SizeRespected
<1>15. MapConsistent'
  <2>1. pool'[k] # {} /\ \A j \in Key \ {k} : pool'[j] = pool[j]
    BY <1>1, <1>2 DEF IInv, TypeOK
  <2>2. QED
    BY <1>1, <2>1, TouchMap DEF IInv, SpawnFor, k
<1>16. QED
  BY <1>15, <1>7, <1>8, <1>9, <1>10, <1>11, <1>12, <1>13, <1>14 DEF IInv

\* A call goes to the overflow, past the pool or because its key is full.
LEMMA OverflowStep ==
  ASSUME PoolAssumption, IInv, NEW r \in Request, NEW v \in Refreshed, Overflow(r, v)
  PROVE  IInv'
<1> DEFINE k == KeyOf[r]
           F == Flagged(k, v)
<1>1. /\ k \in Key /\ F \subseteq Worker /\ status[r] = "new"
      /\ recycle \subseteq F /\ F \subseteq recycle \cup pool[k]
  BY DEF Overflow, Admits, PoolAssumption, IInv, TypeOK, Flagged
<1>2. /\ status' = [status EXCEPT ![r] = "overflowed"]
      /\ recycle' = F /\ snapshot' = v
      /\ pool' = [pool EXCEPT ![k] = @ \ F]
      /\ idle' = idle \ (pool[k] \cap F)
      /\ UNCHANGED <<answer, aborted, crashes, installed, home, pending, turn, count, boot, up>>
  BY DEF Overflow, Reap, Kept, IInv, TypeOK
<1>3. /\ proc' \in [Worker -> ProcState]
      /\ \A u \in Worker :
           proc'[u] = IF u \in pool[k] \cap F /\ proc[u] = "running" THEN "terminating" ELSE proc[u]
  BY TerminatedFacts DEF Overflow, Reap, IInv
<1>4. keys' \subseteq Key /\ before' \subseteq Key \X Key /\ snapshot' \in 0 .. MaxVersion
  BY TouchType, RefreshedType, <1>1 DEF Overflow, IInv
<1> HIDE DEF k, F
<1>5. TypeOK'
  BY <1>1, <1>2, <1>3, <1>4 DEF IInv, TypeOK, Status
<1>6. InFlight' /\ HeldOnce'
  BY <1>1, <1>2, <1>3 DEF IInv, TypeOK, InFlight, HeldOnce, Alive
<1>7. Filed' /\ Unborn'
  BY <1>1, <1>2, <1>3 DEF IInv, TypeOK, Filed, Unborn, Alive
<1>8. NoLeakedChild' /\ NoImmortalChild'
  BY <1>1, <1>2, <1>3 DEF IInv, TypeOK, NoLeakedChild, NoImmortalChild, Busy
<1>9. TurnsBounded' /\ OwnAnswer'
  BY <1>1, <1>2 DEF IInv, TypeOK, TurnsBounded, OwnAnswer
<1>10. SizeRespected'
  <2>1. \A j \in Key : pool'[j] \subseteq pool[j]
    BY <1>1, <1>2 DEF IInv, TypeOK
  <2>2. QED
    BY <2>1, SmallerPools DEF IInv
<1>11. MapConsistent'
  <2>1. Cardinality(pool[k] \ F) # 0
    BY DEF Overflow, HasRoom, Kept, PoolAssumption, k, F
  <2>2. pool'[k] # {} /\ \A j \in Key \ {k} : pool'[j] = pool[j]
    BY <1>1, <1>2, <2>1, FS_EmptySet DEF IInv, TypeOK
  <2>3. QED
    BY <1>1, <2>2, TouchMap DEF IInv, Overflow, k
<1>12. QED
  BY <1>11, <1>5, <1>6, <1>7, <1>8, <1>9, <1>10 DEF IInv

\* A request in flight settles: worker w gives it up, the finally block disposes
\* of the workers G. What Result, Timeout and ExitBusy have in common.
LEMMA SettleStep ==
  ASSUME PoolAssumption, IInv, NEW w \in Worker, NEW r \in Request, NEW k, up,
         pending[w] = r, k = KeyOf[r],
         NEW G, NEW st \in {"resolved", "rejected"},
         \* FinallyFacts
         \A j \in Key : pool'[j] \subseteq pool[j],
         \A j \in Key : \A u \in pool[j] \ pool'[j] : u \in G,
         \A u \in G : u \in Busy => u = w,
         w \in recycle' => w \notin pool'[k],
         \* the step
         pending' = [pending EXCEPT ![w] = None],
         status' = [status EXCEPT ![r] = st],
         home' = home, up' = up,
         \A u \in Worker \ {w} :
           /\ proc'[u] = IF u \in G /\ proc[u] = "running" THEN "terminating" ELSE proc[u]
           /\ turn'[u] = turn[u] /\ count'[u] = count[u]
           /\ u \in recycle' <=> u \in recycle
           /\ u \in idle' <=> u \in idle \ G,
         \* and what becomes of w itself
         proc'[w] = "running" => w \notin G /\ w \in idle' /\ proc[w] = "running",
         proc'[w] # "unborn",
         w \notin recycle' => proc'[w] \in Alive /\ turn'[w] = <<>> /\ count'[w] < MaxRequests,
         count'[w] <= MaxRequests
  PROVE  /\ InFlight' /\ HeldOnce' /\ Filed' /\ Unborn'
         /\ NoLeakedChild' /\ NoImmortalChild' /\ TurnsBounded' /\ SizeRespected'
<1>1. /\ TypeOK /\ r # None /\ k \in Key
      /\ status[r] = "waiting" /\ home[w] = k /\ proc[w] \in Alive
  BY DEF IInv, TypeOK, InFlight, PoolAssumption
<1>4. \A u \in Worker \ {w} : pending'[u] = pending[u] /\ pending[u] # r
  BY <1>1 DEF IInv, TypeOK, HeldOnce
<1>5. pending'[w] = None
  BY <1>1 DEF TypeOK
<1>6. /\ status'[r] # "waiting"
      /\ \A q \in Request : q # r => status'[q] = status[q]
  BY <1>1 DEF TypeOK
<1>7. InFlight'
  <2> SUFFICES ASSUME NEW u \in Worker, pending'[u] # None
               PROVE  /\ status'[pending'[u]] = "waiting"
                      /\ KeyOf[pending'[u]] = home'[u]
                      /\ proc'[u] \in Alive
                      /\ count'[u] < MaxRequests
                      /\ turn'[u] \in {<<>>, <<pending'[u]>>}
                      /\ u \notin idle'
    BY DEF InFlight
  <2>1. u # w /\ pending'[u] = pending[u] /\ pending[u] # r /\ pending[u] \in Request
    BY <1>1, <1>4, <1>5 DEF TypeOK
  <2>2. proc'[u] \in Alive
    BY <2>1 DEF IInv, InFlight, Alive
  <2>3. QED
    BY <2>1, <2>2, <1>6 DEF IInv, InFlight
<1>8. HeldOnce'
  BY <1>1, <1>4, <1>5, <1>6 DEF IInv, TypeOK, HeldOnce
<1>9. Filed'
  <2> SUFFICES ASSUME NEW j \in Key, NEW u \in pool'[j]
               PROVE  /\ home'[u] = j /\ proc'[u] \in Alive
                      /\ u \notin recycle' /\ count'[u] < MaxRequests
                      /\ pending'[u] = None => turn'[u] = <<>>
    BY DEF Filed
  <2>1. u \in Worker /\ u \in pool[j] /\ home[u] = j
    BY <1>1 DEF TypeOK, IInv, Filed
  <2>2. CASE u = w
    <3>1. w \notin recycle' /\ j = k
      BY <2>1, <2>2, <1>1
    <3>2. QED
      BY <3>1, <2>1, <2>2, <1>1
  <2>3. CASE u # w
    BY <2>1, <2>3, <1>4 DEF IInv, Filed, Alive
  <2>4. QED
    BY <2>2, <2>3
<1>10. Unborn'
  <2> SUFFICES ASSUME NEW u \in Worker
               PROVE  /\ proc'[u] # "unborn" => home'[u] \in Key
                      /\ proc'[u] = "unborn" =>
                           /\ pending'[u] = None /\ turn'[u] = <<>> /\ count'[u] = 0
                           /\ u \notin recycle' \cup idle'
    BY DEF Unborn
  <2>1. CASE u = w
    BY <2>1, <1>1
  <2>2. CASE u # w
    BY <2>2, <1>4 DEF IInv, Unborn
  <2>3. QED
    BY <2>1, <2>2
<1>11. NoLeakedChild' /\ NoImmortalChild'
  <2> SUFFICES ASSUME NEW u \in Worker, proc'[u] = "running"
               PROVE  /\ up' /\ u \in pool'[home'[u]]
                      /\ u \in idle' \/ pending'[u] # None
    BY DEF NoLeakedChild, NoImmortalChild, Busy
  <2>1. proc[u] = "running" /\ u \notin G
    OBVIOUS
  <2>2. u \in pool[home[u]] /\ home[u] \in Key /\ (u \in idle \/ pending[u] # None)
    BY <2>1 DEF IInv, NoLeakedChild, NoImmortalChild, Busy, Unborn
  <2>3. u \in pool'[home[u]]
    BY <2>1, <2>2
  <2>4. CASE u = w
    BY <2>3, <2>4
  <2>5. CASE u # w
    BY <2>1, <2>2, <2>3, <2>5, <1>4
  <2>6. QED
    BY <2>4, <2>5
<1>12. TurnsBounded'
  BY DEF IInv, TurnsBounded
<1>13. SizeRespected'
  BY SmallerPools DEF IInv
<1>14. QED
  BY <1>7, <1>8, <1>9, <1>10, <1>11, <1>12, <1>13

\* The worker of a request in flight, as the invariant describes it.
LEMMA InFlightFacts ==
  ASSUME PoolAssumption, IInv, NEW w \in Worker, pending[w] # None
  PROVE  /\ pending[w] \in Request /\ KeyOf[pending[w]] \in Key
         /\ status[pending[w]] = "waiting" /\ home[w] = KeyOf[pending[w]]
         /\ proc[w] \in Alive /\ count[w] < MaxRequests
         /\ turn[w] \in {<<>>, <<pending[w]>>} /\ w \notin idle
BY DEF PoolAssumption, IInv, TypeOK, InFlight

\* A result line settles the request in flight with the answer to its own prompt.
LEMMA ResultStep ==
  ASSUME PoolAssumption, IInv, NEW w \in Worker,
         NEW ok \in BOOLEAN, NEW heavy \in BOOLEAN, Result(w, ok, heavy)
  PROVE  IInv' /\ Head(turn[w]) = pending[w]
<1> DEFINE r == pending[w]
           G == Disposes(w)
<1>1. /\ up /\ proc[w] \in Alive /\ turn[w] # <<>> /\ r # None
      /\ turn' = [turn EXCEPT ![w] = Tail(@)]
      /\ count' = [count EXCEPT ![w] = @ + 1]
      /\ recycle' = IF Spent(w, heavy) THEN recycle \cup {w} ELSE recycle
      /\ pending' = [pending EXCEPT ![w] = None]
      /\ status' = [status EXCEPT ![r] = IF ok THEN "resolved" ELSE "rejected"]
      /\ answer' = IF ok THEN [answer EXCEPT ![r] = Head(turn[w])] ELSE answer
      /\ Finally(w)
      /\ proc' = Terminated(G)
      /\ idle' = (idle \cup {w}) \ G
      /\ UNCHANGED <<aborted, crashes, installed, snapshot, home, boot, up>>
  BY DEF Result, Spent, versionVars
<1>2. /\ r \in Request /\ KeyOf[r] \in Key /\ count[w] < MaxRequests /\ turn[w] = <<r>>
      /\ TypeOK
  BY <1>1, InFlightFacts DEF IInv
<1>3. Head(turn[w]) = r /\ Tail(turn[w]) = <<>>
  BY <1>2
<1>4. /\ pool' \in [Key -> SUBSET Worker]
      /\ keys' \subseteq Key /\ before' \subseteq Key \X Key
      /\ G \subseteq Worker
      /\ \A j \in Key : pool'[j] \subseteq pool[j]
      /\ \A j \in Key : \A u \in pool[j] \ pool'[j] : u \in G
      /\ w \in recycle' => w \in G /\ w \notin pool'[KeyOf[r]]
      /\ \A u \in G : u \in Busy => u = w
  BY <1>1, <1>2, FinallyFacts
<1> HIDE DEF G
<1>5. /\ proc' \in [Worker -> ProcState]
      /\ \A u \in Worker :
           proc'[u] = IF u \in G /\ proc[u] = "running" THEN "terminating" ELSE proc[u]
  BY <1>1, <1>2, TerminatedFacts
<1>6. turn'[w] = <<>> /\ count'[w] = count[w] + 1 /\ count[w] \in Nat
  BY <1>1, <1>2, <1>3 DEF TypeOK
<1>7. TypeOK'
  <2>1. turn' \in [Worker -> Seq(Request)]
    BY <1>1, <1>2, <1>3 DEF TypeOK
  <2>2. status' \in [Request -> Status] /\ answer' \in [Request -> Request \cup {None}]
    BY <1>1, <1>2, <1>3 DEF TypeOK, Status
  <2>3. count' \in [Worker -> Nat] /\ recycle' \subseteq Worker /\ idle' \subseteq Worker
    BY <1>1, <1>2 DEF TypeOK
  <2>4. QED
    BY <1>1, <1>2, <1>4, <1>5, <2>1, <2>2, <2>3 DEF TypeOK
<1>8. /\ InFlight' /\ HeldOnce' /\ Filed' /\ Unborn'
      /\ NoLeakedChild' /\ NoImmortalChild' /\ TurnsBounded' /\ SizeRespected'
  <2>1. proc'[w] = "running" => w \notin G /\ w \in idle' /\ proc[w] = "running"
    BY <1>1, <1>5
  <2>2. proc'[w] \in Alive /\ proc'[w] # "unborn"
    BY <1>1, <1>5 DEF Alive
  <2>3. w \notin recycle' => count'[w] < MaxRequests
    BY <1>1, <1>6 DEF Spent, PoolAssumption
  <2>4. count'[w] <= MaxRequests
    BY <1>2, <1>6 DEF PoolAssumption
  <2>5. \A u \in Worker \ {w} :
          /\ proc'[u] = IF u \in G /\ proc[u] = "running" THEN "terminating" ELSE proc[u]
          /\ turn'[u] = turn[u] /\ count'[u] = count[u]
          /\ u \in recycle' <=> u \in recycle
          /\ u \in idle' <=> u \in idle \ G
    BY <1>1, <1>2, <1>5 DEF TypeOK
  <2>6. PICK st \in {"resolved", "rejected"} : status' = [status EXCEPT ![r] = st]
    BY <1>1
  <2>7. /\ r \in Request /\ up /\ home' = home /\ up' = up
        /\ pending' = [pending EXCEPT ![w] = None]
        /\ turn'[w] = <<>>
        /\ w \in recycle' => w \notin pool'[KeyOf[r]]
    BY <1>1, <1>2, <1>4, <1>6
  <2>8. /\ \A j \in Key : pool'[j] \subseteq pool[j]
        /\ \A j \in Key : \A u \in pool[j] \ pool'[j] : u \in G
        /\ \A u \in G : u \in Busy => u = w
    BY <1>4
  <2> HIDE DEF r
  <2>9. QED
    BY <2>1, <2>2, <2>3, <2>4, <2>5, <2>6, <2>7, <2>8, SettleStep DEF r
<1>9. OwnAnswer'
  BY <1>1, <1>2, <1>3 DEF IInv, TypeOK, OwnAnswer
<1>10. MapConsistent'
  BY <1>1, <1>2, FinallyFacts DEF IInv
<1>11. QED
  BY <1>10, <1>3, <1>7, <1>8, <1>9 DEF IInv

\* The request timer fires.
LEMMA TimeoutStep ==
  ASSUME PoolAssumption, IInv, NEW w \in Worker, Timeout(w)
  PROVE  IInv'
<1> DEFINE r == pending[w]
           G == Disposes(w)
<1>1. /\ up /\ r # None
      /\ pending' = [pending EXCEPT ![w] = None]
      /\ recycle' = recycle \cup {w}
      /\ status' = [status EXCEPT ![r] = "rejected"]
      /\ Finally(w)
      /\ proc' = Terminated(G)
      /\ idle' = idle \ G
      /\ UNCHANGED <<answer, aborted, crashes, installed, snapshot, home, turn, count, boot, up>>
  BY DEF Timeout, versionVars
<1>2. /\ r \in Request /\ KeyOf[r] \in Key /\ count[w] < MaxRequests /\ proc[w] \in Alive
      /\ TypeOK
  BY <1>1, InFlightFacts DEF IInv
<1>3. /\ pool' \in [Key -> SUBSET Worker]
      /\ keys' \subseteq Key /\ before' \subseteq Key \X Key
      /\ G \subseteq Worker
      /\ \A j \in Key : pool'[j] \subseteq pool[j]
      /\ \A j \in Key : \A u \in pool[j] \ pool'[j] : u \in G
      /\ w \in recycle' => w \in G /\ w \notin pool'[KeyOf[r]]
      /\ \A u \in G : u \in Busy => u = w
  BY <1>1, <1>2, FinallyFacts
<1> HIDE DEF G
<1>4. /\ proc' \in [Worker -> ProcState]
      /\ \A u \in Worker :
           proc'[u] = IF u \in G /\ proc[u] = "running" THEN "terminating" ELSE proc[u]
  BY <1>1, <1>2, TerminatedFacts
<1>5. TypeOK'
  BY <1>1, <1>2, <1>3, <1>4 DEF TypeOK, Status
<1>6. /\ InFlight' /\ HeldOnce' /\ Filed' /\ Unborn'
      /\ NoLeakedChild' /\ NoImmortalChild' /\ TurnsBounded' /\ SizeRespected'
  <2>1. w \in recycle' /\ proc'[w] # "running" /\ proc'[w] # "unborn"
    BY <1>1, <1>2, <1>3, <1>4 DEF Alive
  <2>2. count'[w] <= MaxRequests
    BY <1>1, <1>2 DEF PoolAssumption, TypeOK
  <2>3. \A u \in Worker \ {w} :
          /\ proc'[u] = IF u \in G /\ proc[u] = "running" THEN "terminating" ELSE proc[u]
          /\ turn'[u] = turn[u] /\ count'[u] = count[u]
          /\ u \in recycle' <=> u \in recycle
          /\ u \in idle' <=> u \in idle \ G
    BY <1>1, <1>4
  <2>4. /\ r \in Request /\ up /\ home' = home /\ up' = up
        /\ pending' = [pending EXCEPT ![w] = None]
        /\ status' = [status EXCEPT ![r] = "rejected"]
        /\ w \in recycle' => w \notin pool'[KeyOf[r]]
    BY <1>1, <1>2, <1>3
  <2>5. /\ \A j \in Key : pool'[j] \subseteq pool[j]
        /\ \A j \in Key : \A u \in pool[j] \ pool'[j] : u \in G
        /\ \A u \in G : u \in Busy => u = w
    BY <1>3
  <2> HIDE DEF r
  <2>6. QED
    BY <2>1, <2>2, <2>3, <2>4, <2>5, SettleStep DEF r
<1>7. OwnAnswer'
  BY <1>1, <1>2 DEF IInv, TypeOK, OwnAnswer
<1>8. MapConsistent'
  BY <1>1, <1>2, FinallyFacts DEF IInv
<1>9. QED
  BY <1>8, <1>5, <1>6, <1>7 DEF IInv

\* The child of a request in flight ends.
LEMMA ExitBusyStep ==
  ASSUME PoolAssumption, IInv, NEW w \in Worker, ExitBusy(w)
  PROVE  IInv'
<1> DEFINE r == pending[w]
           G == Disposes(w)
<1>1. /\ up /\ r # None /\ proc[w] \in Alive
      /\ pending' = [pending EXCEPT ![w] = None]
      /\ recycle' = recycle \cup {w}
      /\ turn' = [turn EXCEPT ![w] = <<>>]
      /\ crashes' = [crashes EXCEPT ![home[w]] = @ + 1]
      /\ status' = [status EXCEPT ![r] = "rejected"]
      /\ Finally(w)
      /\ proc' = [Terminated(G) EXCEPT ![w] = ExitState(w)]
      /\ idle' = idle \ G
      /\ UNCHANGED <<answer, aborted, installed, snapshot, home, count, boot, up>>
  BY DEF ExitBusy, Ended, versionVars
<1>2. /\ r \in Request /\ KeyOf[r] \in Key /\ home[w] = KeyOf[r] /\ count[w] < MaxRequests
      /\ TypeOK
  BY <1>1, InFlightFacts DEF IInv
<1>3. /\ pool' \in [Key -> SUBSET Worker]
      /\ keys' \subseteq Key /\ before' \subseteq Key \X Key
      /\ G \subseteq Worker
      /\ \A j \in Key : pool'[j] \subseteq pool[j]
      /\ \A j \in Key : \A u \in pool[j] \ pool'[j] : u \in G
      /\ w \in recycle' => w \in G /\ w \notin pool'[KeyOf[r]]
      /\ \A u \in G : u \in Busy => u = w
  BY <1>1, <1>2, FinallyFacts
<1> HIDE DEF G
<1>4. /\ proc' \in [Worker -> ProcState]
      /\ proc'[w] \in {"exited", "crashed"}
      /\ \A u \in Worker \ {w} :
           proc'[u] = IF u \in G /\ proc[u] = "running" THEN "terminating" ELSE proc[u]
  BY <1>1, <1>2, TerminatedFacts DEF ExitState, ProcState
<1>5. TypeOK'
  <2>1. crashes' \in [Key -> Nat] /\ turn' \in [Worker -> Seq(Request)]
    BY <1>1, <1>2 DEF TypeOK
  <2>2. QED
    BY <1>1, <1>2, <1>3, <1>4, <2>1 DEF TypeOK, Status
<1>6. /\ InFlight' /\ HeldOnce' /\ Filed' /\ Unborn'
      /\ NoLeakedChild' /\ NoImmortalChild' /\ TurnsBounded' /\ SizeRespected'
  <2>1. w \in recycle' /\ proc'[w] # "running" /\ proc'[w] # "unborn"
    BY <1>1, <1>4
  <2>2. count'[w] <= MaxRequests
    BY <1>1, <1>2 DEF PoolAssumption, TypeOK
  <2>3. \A u \in Worker \ {w} :
          /\ proc'[u] = IF u \in G /\ proc[u] = "running" THEN "terminating" ELSE proc[u]
          /\ turn'[u] = turn[u] /\ count'[u] = count[u]
          /\ u \in recycle' <=> u \in recycle
          /\ u \in idle' <=> u \in idle \ G
    BY <1>1, <1>2, <1>4 DEF TypeOK
  <2>4. /\ r \in Request /\ up /\ home' = home /\ up' = up
        /\ pending' = [pending EXCEPT ![w] = None]
        /\ status' = [status EXCEPT ![r] = "rejected"]
        /\ w \in recycle' => w \notin pool'[KeyOf[r]]
    BY <1>1, <1>2, <1>3
  <2>5. /\ \A j \in Key : pool'[j] \subseteq pool[j]
        /\ \A j \in Key : \A u \in pool[j] \ pool'[j] : u \in G
        /\ \A u \in G : u \in Busy => u = w
    BY <1>3
  <2> HIDE DEF r
  <2>6. QED
    BY <2>1, <2>2, <2>3, <2>4, <2>5, SettleStep DEF r
<1>7. OwnAnswer'
  BY <1>1, <1>2 DEF IInv, TypeOK, OwnAnswer
<1>8. MapConsistent'
  BY <1>1, <1>2, FinallyFacts DEF IInv
<1>9. QED
  BY <1>8, <1>5, <1>6, <1>7 DEF IInv

\* The child of an idle or dropped worker ends.
LEMMA ExitIdleStep ==
  ASSUME PoolAssumption, IInv, NEW w \in Worker, ExitIdle(w)
  PROVE  IInv'
<1>1. /\ up /\ pending[w] = None /\ proc[w] \in Alive /\ home[w] \in Key /\ TypeOK
      /\ recycle' = recycle \cup {w}
      /\ turn' = [turn EXCEPT ![w] = <<>>]
      /\ crashes' = [crashes EXCEPT ![home[w]] = @ + 1]
      /\ pool' = [pool EXCEPT ![home[w]] = @ \ {w}]
      /\ proc' = [proc EXCEPT ![w] = ExitState(w)]
      /\ idle' = idle \ {w}
      /\ UNCHANGED <<status, answer, aborted, installed, snapshot, home, pending, count, boot, up>>
  BY DEF ExitIdle, Ended, versionVars, Dropped, IInv, Unborn, Alive
<1>2. ExitState(w) \in {"exited", "crashed"}
  BY DEF ExitState
<1>3. keys' \subseteq Key /\ before' \subseteq Key \X Key
  BY <1>1, UnregisterType DEF ExitIdle
<1>4. TypeOK'
  BY <1>1, <1>2, <1>3 DEF TypeOK, ProcState
<1>5. InFlight' /\ HeldOnce'
  BY <1>1, <1>2 DEF IInv, TypeOK, InFlight, HeldOnce
<1>6. Filed' /\ Unborn'
  BY <1>1, <1>2 DEF IInv, TypeOK, Filed, Unborn
<1>7. NoLeakedChild' /\ NoImmortalChild'
  BY <1>1, <1>2 DEF IInv, TypeOK, NoLeakedChild, NoImmortalChild, Busy, Unborn
<1>8. TurnsBounded' /\ OwnAnswer'
  BY <1>1 DEF IInv, TurnsBounded, OwnAnswer
<1>9. SizeRespected'
  <2>1. \A j \in Key : pool'[j] \subseteq pool[j]
    BY <1>1 DEF TypeOK
  <2>2. QED
    BY <2>1, SmallerPools DEF IInv
<1>10. MapConsistent'
  <2>1. \A j \in Key : pool'[j] = {} <=> pool[j] = {} \/ j \in EmptiedBy(home[w], {w})
    BY <1>1 DEF EmptiedBy, Dropped, TypeOK
  <2>2. QED
    BY <2>1, UnregisterMap DEF IInv, ExitIdle
<1>11. QED
  BY <1>10, <1>4, <1>5, <1>6, <1>7, <1>8, <1>9 DEF IInv

\* A caller aborts a request in flight.
LEMMA AbortStep ==
  ASSUME PoolAssumption, IInv, NEW r \in Request, NEW w \in Worker, Abort(r, w)
  PROVE  IInv'
<1>1. /\ pending[w] = r /\ KeyOf[r] \in Key /\ home[w] = KeyOf[r] /\ TypeOK
      /\ aborted' = aborted \cup {r}
      /\ pool' = [pool EXCEPT ![KeyOf[r]] = @ \ {w}]
      /\ idle' = idle \ {w}
      /\ UNCHANGED <<status, answer, crashes, installed, snapshot, home, pending, turn,
                     recycle, count, boot, up>>
  BY InFlightFacts DEF Abort, versionVars, Dropped, IInv, PoolAssumption
<1>2. /\ proc' \in [Worker -> ProcState]
      /\ \A u \in Worker :
           proc'[u] = IF u = w /\ proc[u] = "running" THEN "terminating" ELSE proc[u]
  BY <1>1, TerminatedFacts DEF Abort
<1>3. keys' \subseteq Key /\ before' \subseteq Key \X Key
  BY <1>1, UnregisterType DEF Abort
<1>4. TypeOK'
  BY <1>1, <1>2, <1>3 DEF TypeOK
<1>5. InFlight' /\ HeldOnce'
  BY <1>1, <1>2 DEF IInv, TypeOK, InFlight, HeldOnce, Alive
<1>6. Filed' /\ Unborn'
  BY <1>1, <1>2 DEF IInv, TypeOK, Filed, Unborn, Alive
<1>7. NoLeakedChild' /\ NoImmortalChild'
  BY <1>1, <1>2 DEF IInv, TypeOK, NoLeakedChild, NoImmortalChild, Busy
<1>8. TurnsBounded' /\ OwnAnswer'
  BY <1>1 DEF IInv, TurnsBounded, OwnAnswer
<1>9. SizeRespected'
  <2>1. \A j \in Key : pool'[j] \subseteq pool[j]
    BY <1>1 DEF TypeOK
  <2>2. QED
    BY <2>1, SmallerPools DEF IInv
<1>10. MapConsistent'
  <2>1. \A j \in Key : pool'[j] = {} <=> pool[j] = {} \/ j \in EmptiedBy(KeyOf[r], {w})
    BY <1>1 DEF EmptiedBy, Dropped, TypeOK
  <2>2. QED
    BY <2>1, UnregisterMap DEF IInv, Abort
<1>11. QED
  BY <1>10, <1>4, <1>5, <1>6, <1>7, <1>8, <1>9 DEF IInv

\* The proxy disposes of every worker and exits.
LEMMA DisposeAllStep ==
  ASSUME PoolAssumption, IInv, DisposeAll
  PROVE  IInv'
<1> DEFINE all == UNION {pool[k] : k \in keys}
<1>1. /\ TypeOK /\ up' = FALSE /\ pool' = [k \in Key |-> {}]
      /\ idle' = idle \ all
      /\ UNCHANGED <<status, answer, aborted, crashes, installed, snapshot, home, pending,
                     turn, recycle, count, boot>>
  BY DEF DisposeAll, callVars, versionVars, IInv
<1>2. /\ proc' \in [Worker -> ProcState]
      /\ \A u \in Worker :
           proc'[u] = IF u \in all /\ proc[u] = "running" THEN "terminating" ELSE proc[u]
  BY <1>1, TerminatedFacts DEF DisposeAll
<1>3. keys' \subseteq Key /\ before' \subseteq Key \X Key
  BY <1>1, UnregisterType DEF DisposeAll
<1>4. all \subseteq Worker
  BY <1>1 DEF TypeOK
<1> HIDE DEF all
<1>5. TypeOK'
  BY <1>1, <1>2, <1>3, <1>4 DEF TypeOK
<1>6. InFlight' /\ HeldOnce' /\ Filed' /\ Unborn' /\ TurnsBounded' /\ OwnAnswer'
  BY <1>1, <1>2, <1>4
     DEF IInv, TypeOK, InFlight, HeldOnce, Filed, Unborn, TurnsBounded, OwnAnswer, Alive
<1>7. NoLeakedChild' /\ NoImmortalChild'
  BY <1>1, <1>2, <1>4 DEF IInv, NoLeakedChild, NoImmortalChild, MapConsistent, Unborn, Busy, all
<1>8. SizeRespected'
  <2>1. \A j \in Key : pool'[j] \subseteq pool[j]
    BY <1>1 DEF TypeOK
  <2>2. QED
    BY <2>1, SmallerPools DEF IInv
<1>9. MapConsistent'
  <2>1. \A j \in Key : pool'[j] = {} <=> pool[j] = {} \/ j \in keys
    BY <1>1 DEF IInv, MapConsistent
  <2>2. QED
    BY <2>1, UnregisterMap DEF IInv, DisposeAll
<1>10. QED
  BY <1>9, <1>5, <1>6, <1>7, <1>8 DEF IInv

\* An unhandled 'error' of a child's stdin ends the proxy.
LEMMA StdinErrorStep ==
  ASSUME PoolAssumption, IInv, NEW w \in Worker, StdinError(w)
  PROVE  IInv'
<1>1. /\ idle' = {} /\ up' = FALSE
      /\ UNCHANGED <<status, answer, aborted, pool, keys, before, crashes, installed,
                     snapshot, home, pending, turn, recycle, count, boot>>
  BY DEF StdinError, callVars, poolVars, versionVars
<1>2. /\ proc' \in [Worker -> ProcState]
      /\ \A u \in Worker : proc'[u] = IF proc[u] = "running" THEN "terminating" ELSE proc[u]
  BY TerminatedFacts DEF StdinError, IInv
<1>3. TypeOK' /\ InFlight' /\ HeldOnce' /\ Filed' /\ Unborn'
  <2>1. TypeOK'
    BY <1>1, <1>2 DEF IInv, TypeOK
  <2>2. InFlight' /\ HeldOnce'
    BY <1>1, <1>2 DEF IInv, TypeOK, InFlight, HeldOnce, Alive
  <2>3. Filed' /\ Unborn'
    BY <1>1, <1>2 DEF IInv, TypeOK, Filed, Unborn, Alive
  <2>4. QED
    BY <2>1, <2>2, <2>3
<1>4. NoLeakedChild' /\ NoImmortalChild'
  BY <1>2 DEF NoLeakedChild, NoImmortalChild
<1>5. QED
  BY <1>1, <1>3, <1>4 DEF IInv, MapConsistent, TurnsBounded, SizeRespected, OwnAnswer

\* The invariant but for the types speaks of calls, the map and workers only.
LEMMA FrameStep ==
  ASSUME IInv, TypeOK',
         UNCHANGED <<status, answer, pool, keys, before, proc, home, pending, turn, idle,
                     recycle, count, up>>
  PROVE  IInv'
<1>1. InFlight' /\ HeldOnce'
  BY DEF IInv, InFlight, HeldOnce
<1>2. Filed' /\ Unborn' /\ MapConsistent'
  BY DEF IInv, Filed, Unborn, MapConsistent
<1>3. NoLeakedChild' /\ NoImmortalChild'
  BY DEF IInv, NoLeakedChild, NoImmortalChild, Busy
<1>4. TurnsBounded' /\ SizeRespected' /\ OwnAnswer'
  BY DEF IInv, TurnsBounded, SizeRespected, OwnAnswer
<1>5. QED
  BY <1>1, <1>2, <1>3, <1>4 DEF IInv

\* A step of passing time, an upgrade, a stray line, an idle timer or a bypassed
\* call changes nothing that the rest of the invariant speaks of.
LEMMA QuietStep ==
  ASSUME PoolAssumption, IInv,
         \/ \E k \in Key : CrashAges(k)
         \/ Upgrade
         \/ \E r \in Request : Bypass(r)
         \/ \E w \in Worker : StrayResult(w) \/ IdleTimeout(w)
  PROVE  IInv'
<1>1. CASE \E k \in Key : CrashAges(k)
  <2>1. PICK k \in Key : CrashAges(k)
    BY <1>1
  <2>2. /\ crashes' \in [Key -> Nat]
        /\ UNCHANGED <<callVars, poolVars, versionVars, workerVars, up>>
    BY <2>1 DEF CrashAges, IInv, TypeOK
  <2>3. QED
    <3>1. TypeOK'
      BY <2>2 DEF callVars, poolVars, versionVars, workerVars, IInv, TypeOK
    <3>2. QED
      BY <2>2, <3>1, FrameStep DEF callVars, poolVars, workerVars
<1>2. CASE Upgrade
  <2>1. /\ installed' \in 1 .. MaxVersion
        /\ UNCHANGED <<callVars, poolVars, crashes, snapshot, workerVars, up>>
    BY <1>2 DEF Upgrade, IInv, TypeOK, PoolAssumption
  <2>2. QED
    <3>1. TypeOK'
      BY <2>1 DEF callVars, poolVars, workerVars, IInv, TypeOK
    <3>2. QED
      BY <2>1, <3>1, FrameStep DEF callVars, poolVars, workerVars
<1>3. CASE \E r \in Request : Bypass(r)
  <2>1. PICK r \in Request : Bypass(r)
    BY <1>3
  <2>2. /\ status[r] = "new" /\ snapshot' \in 0 .. MaxVersion
        /\ status' = [status EXCEPT ![r] = "overflowed"]
        /\ UNCHANGED <<answer, aborted, poolVars, crashes, installed, workerVars, up>>
    BY <2>1, RefreshedType DEF Bypass, IInv
  <2>3. TypeOK' /\ InFlight' /\ HeldOnce' /\ OwnAnswer'
    BY <2>2 DEF poolVars, workerVars, IInv, TypeOK, InFlight, HeldOnce, OwnAnswer, Status
  <2>4. QED
    BY <2>2, <2>3 DEF poolVars, workerVars, IInv, Filed, Unborn, MapConsistent,
      NoLeakedChild, NoImmortalChild, TurnsBounded, SizeRespected, Busy
<1>4. ASSUME NEW w \in Worker, StrayResult(w)
      PROVE  IInv'
  <2>1. /\ pending[w] = None /\ turn[w] # <<>> /\ proc[w] \in Alive
        /\ turn' = [turn EXCEPT ![w] = Tail(@)]
        /\ UNCHANGED <<callVars, poolVars, crashes, versionVars, proc, home, pending,
                       idle, recycle, count, boot, up>>
    BY <1>4 DEF StrayResult
  <2>2. turn' \in [Worker -> Seq(Request)]
    BY <2>1, HeadTailProperties DEF IInv, TypeOK
  <2>3. Filed' /\ Unborn' /\ InFlight'
    BY <2>1 DEF callVars, poolVars, versionVars, IInv, TypeOK, Filed, Unborn, InFlight, Alive
  <2>4. TypeOK' /\ HeldOnce' /\ MapConsistent'
    <3>1. TypeOK'
      BY <2>1, <2>2 DEF callVars, poolVars, versionVars, IInv, TypeOK
    <3>2. HeldOnce' /\ MapConsistent'
      BY <2>1 DEF callVars, poolVars, IInv, HeldOnce, MapConsistent
    <3>3. QED
      BY <3>1, <3>2
  <2>5. NoLeakedChild' /\ NoImmortalChild'
    BY <2>1 DEF poolVars, IInv, NoLeakedChild, NoImmortalChild, Busy
  <2>6. TurnsBounded' /\ SizeRespected' /\ OwnAnswer'
    BY <2>1 DEF callVars, poolVars, IInv, TurnsBounded, SizeRespected, OwnAnswer
  <2>7. QED
    BY <2>3, <2>4, <2>5, <2>6 DEF IInv
<1>5. ASSUME NEW w \in Worker, IdleTimeout(w)
      PROVE  IInv'
  <2>1. /\ idle' = idle \ {w}
        /\ UNCHANGED <<callVars, poolVars, crashes, versionVars, home, pending, turn,
                       recycle, count, boot, up>>
    BY <1>5 DEF IdleTimeout
  <2>2. /\ proc' \in [Worker -> ProcState]
        /\ \A u \in Worker :
             proc'[u] = IF u = w /\ proc[u] = "running" THEN "terminating" ELSE proc[u]
    BY <1>5, TerminatedFacts DEF IdleTimeout, IInv
  <2>3. TypeOK' /\ InFlight' /\ Filed' /\ Unborn'
    BY <2>1, <2>2 DEF callVars, poolVars, versionVars, IInv, TypeOK, InFlight, Filed,
      Unborn, Alive
  <2>4. NoLeakedChild' /\ NoImmortalChild'
    BY <2>1, <2>2 DEF poolVars, IInv, NoLeakedChild, NoImmortalChild, Busy
  <2>5. QED
    BY <2>1, <2>3, <2>4 DEF callVars, poolVars, IInv, HeldOnce, MapConsistent,
      TurnsBounded, SizeRespected, OwnAnswer
<1>6. QED
  BY <1>1, <1>2, <1>3, <1>4, <1>5

\* Every step preserves the invariant.
LEMMA NextIInv == ASSUME PoolAssumption, IInv, [Next]_vars PROVE IInv'
<1>1. CASE UNCHANGED vars
  <2>1. TypeOK'
    BY <1>1 DEF vars, callVars, poolVars, versionVars, workerVars, IInv, TypeOK
  <2>2. QED
    BY <1>1, <2>1, FrameStep DEF vars, callVars, poolVars, workerVars
<1>2. CASE \E r \in Request : Complete(r)
  <2>1. PICK r \in Request : Complete(r)
    BY <1>2
  <2>2. CASE Bypass(r)
    BY <2>2, QuietStep
  <2>3. CASE \E v \in Refreshed, w \in Worker : Acquire(r, w, v)
    BY <2>3, AcquireStep
  <2>4. CASE \E v \in Refreshed, w \in Worker, b \in ReadVersion : SpawnFor(r, w, v, b)
    BY <2>4, SpawnStep
  <2>5. CASE \E v \in Refreshed : Overflow(r, v)
    BY <2>5, OverflowStep
  <2>6. QED
    BY <2>1, <2>2, <2>3, <2>4, <2>5 DEF Complete
<1>3. CASE \E r \in Request, w \in Worker : Abort(r, w)
  BY <1>3, AbortStep
<1>4. CASE \E w \in Worker, ok, heavy \in BOOLEAN : Result(w, ok, heavy)
  BY <1>4, ResultStep
<1>5. CASE \E w \in Worker : Timeout(w)
  BY <1>5, TimeoutStep
<1>6. CASE \E w \in Worker : Exit(w)
  BY <1>6, ExitIdleStep, ExitBusyStep DEF Exit
<1>7. CASE \/ \E w \in Worker : StrayResult(w) \/ IdleTimeout(w)
           \/ \E k \in Key : CrashAges(k)
           \/ Upgrade
  BY <1>7, QuietStep
<1>8. CASE DisposeAll \/ \E w \in Worker : StdinError(w)
  BY <1>8, DisposeAllStep, StdinErrorStep
<1>9. QED
  BY <1>1, <1>2, <1>3, <1>4, <1>5, <1>6, <1>7, <1>8 DEF Next

\* The inductive invariant holds in every behaviour of the pool.
THEOREM Invariance == Spec => []IInv
<1>1. Init => IInv
  BY InitIInv, PoolAssumption
<1>2. IInv /\ [Next]_vars => IInv'
  BY NextIInv, PoolAssumption
<1>3. QED
  BY <1>1, <1>2, PTL DEF Spec

-----------------------------------------------------------------------------
(* What follows.                                                           *)

\* The variables of the pool keep their types.
THEOREM TypeCorrect == Spec => []TypeOK
<1>1. IInv => TypeOK
  BY DEF IInv
<1>2. QED
  BY <1>1, Invariance, PTL

\* No result of a timed out or aborted turn reaches another caller.
THEOREM NoCrossTalk == Spec => []OwnAnswer
<1>1. IInv => OwnAnswer
  BY DEF IInv
<1>2. QED
  BY <1>1, Invariance, PTL

\* A call that awaits is in flight on exactly one worker, a settled one on none.
THEOREM ExactlyOneServer == Spec => []ServedByOne
<1>1. IInv => ServedByOne
  <2> SUFFICES ASSUME IInv, NEW r \in Request
               PROVE  Cardinality({w \in Worker : pending[w] = r})
                        = IF status[r] = "waiting" THEN 1 ELSE 0
    BY DEF ServedByOne
  <2>1. CASE status[r] = "waiting"
    <3>1. PICK w \in Worker : pending[w] = r
      BY <2>1 DEF IInv, HeldOnce
    <3>2. {v \in Worker : pending[v] = r} = {w}
      BY <3>1, PoolAssumption DEF IInv, HeldOnce, PoolAssumption
    <3>3. QED
      BY <2>1, <3>2, FS_Singleton
  <2>2. CASE status[r] # "waiting"
    <3>1. {v \in Worker : pending[v] = r} = {}
      BY <2>2, PoolAssumption DEF IInv, InFlight, PoolAssumption
    <3>2. QED
      BY <2>2, <3>1, FS_EmptySet
  <2>3. QED
    BY <2>1, <2>2
<1>2. QED
  BY <1>1, Invariance, PTL

\* Workers serve only the key they were spawned for.
THEOREM Isolation == Spec => []KeyIsolation
<1>1. IInv => KeyIsolation
  BY DEF IInv, KeyIsolation, Filed, InFlight, Busy
<1>2. QED
  BY <1>1, Invariance, PTL

\* No key ever holds more workers than its size.
THEOREM SizeKept == Spec => []SizeRespected
  BY Invariance, PTL DEF IInv

\* No worker serves more turns than its limit.
THEOREM Turns == Spec => []TurnsBounded
  BY Invariance, PTL DEF IInv

\* A child that runs can be reached through the map and will be timed out.
THEOREM Lifecycle == Spec => [](NoLeakedChild /\ NoImmortalChild)
<1>1. IInv => NoLeakedChild /\ NoImmortalChild
  BY DEF IInv
<1>2. QED
  BY <1>1, Invariance, PTL

\* The map holds the keys that have workers, and no worker is filed twice.
THEOREM MapKept == Spec => []MapConsistent
  BY Invariance, PTL DEF IInv

-----------------------------------------------------------------------------
(* The prompt cap.                                                         *)

\* The elements of S that R puts before k.
Elder(S, R, k) == {j \in S : <<j, k>> \in R}

\* Of a finite set in a total order, the elements with fewer than n predecessors
\* are at least n, or all of them.
LEMMA Eldest ==
  ASSUME NEW S, IsFiniteSet(S), NEW R, NEW n \in Int,
         \A j, k \in S : <<j, k>> \in R <=> (j # k /\ <<k, j>> \notin R),
         \A i, j, k \in S : <<i, j>> \in R /\ <<j, k>> \in R => <<i, k>> \in R,
         NEW V \in SUBSET S, \A k \in S : k \in V <=> Cardinality(Elder(S, R, k)) < n
  PROVE  V = S \/ n <= Cardinality(V)
<1> DEFINE P(k) == Elder(S, R, k)
           T == {P(k) : k \in S \ V}
<1>0. \A j, k : j \in P(k) <=> j \in S /\ <<j, k>> \in R
  BY DEF Elder
<1> SUFFICES ASSUME S \ V # {} PROVE n <= Cardinality(V)
  OBVIOUS
<1>1. T \subseteq SUBSET S /\ T # {}
  <2>1. T \subseteq SUBSET S
    <3>1. \A k \in S \ V : P(k) \in SUBSET S
      BY <1>0
    <3> HIDE DEF P
    <3>2. QED
      BY <3>1
  <2>2. PICK k \in S \ V : TRUE
    OBVIOUS
  <2>3. P(k) \in T
    BY <2>2
  <2>4. QED
    BY <2>1, <2>3
<1>2. IsWellFoundedOn(StrictSubsetOrdering(S), SUBSET S)
  <2>1. FiniteSubsetsOf(S) = SUBSET S
    BY FS_FiniteSubsetsOfFinite
  <2>2. IsWellFoundedOn(StrictSubsetOrdering(S), FiniteSubsetsOf(S))
    BY FS_StrictSubsetOrderingWellFounded
  <2>3. QED
    BY <2>1, <2>2
<1>3. PICK p \in T : \A q \in T : <<q, p>> \notin StrictSubsetOrdering(S)
  <2> HIDE DEF T
  <2> QED BY <1>1, <1>2, WFMin
<1>4. PICK k \in S \ V : p = P(k)
  BY <1>3
<1>5. ASSUME NEW j \in P(k) PROVE j \in V
  <2> SUFFICES ASSUME j \notin V PROVE FALSE
    OBVIOUS
  <2>1. j \in S /\ <<j, k>> \in R /\ P(j) \in T
    BY <1>0, <1>5
  <2>2. P(j) \subseteq P(k)
    BY <1>0, <1>4, <2>1
  <2>3. j \notin P(j)
    BY <1>0, <2>1
  <2>4. <<P(j), P(k)>> \in StrictSubsetOrdering(S)
    BY <1>0, <1>5, <2>2, <2>3 DEF StrictSubsetOrdering
  <2>5. QED
    BY <1>3, <1>4, <2>1, <2>4
<1>6. Cardinality(P(k)) \in Nat /\ Cardinality(V) \in Nat /\ Cardinality(P(k)) <= Cardinality(V)
  <2>1. IsFiniteSet(V) /\ P(k) \in SUBSET V
    BY <1>5, FS_Subset
  <2>2. QED
    BY <2>1, FS_Subset, FS_CardinalityType
<1>7. ~(Cardinality(P(k)) < n)
  BY <1>4
<1>8. QED
  BY <1>6, <1>7

\* The map holds finitely many keys: each has a worker.
LEMMA KeysFinite == ASSUME PoolAssumption, IInv PROVE IsFiniteSet(keys)
<1> DEFINE H == {w \in Worker : home[w] \in keys /\ w \in pool[home[w]]}
           f == [w \in H |-> home[w]]
<1>1. IsFiniteSet(H)
  BY FS_Subset DEF PoolAssumption
<1>2. \A k \in keys : \E w \in H : f[w] = k
  <2> TAKE k \in keys
  <2>1. k \in Key /\ pool[k] # {} /\ pool[k] \subseteq Worker
    BY DEF IInv, MapConsistent, TypeOK
  <2>2. PICK w \in pool[k] : w \in Worker /\ home[w] = k
    BY <2>1 DEF IInv, Filed
  <2>3. w \in H
    BY <2>2
  <2>4. QED
    BY <2>2, <2>3
<1>3. f \in Surjection(H, keys)
  BY <1>2 DEF Surjection
<1>4. QED
  BY <1>1, <1>3, FS_Surjection

\* The eviction at the end of the last request in flight brings the map under
\* its cap: no other key is busy, so all but the active one may go.
LEMMA EvictionSuffices ==
  ASSUME PoolAssumption, IInv, MapConsistent', NEW w \in Worker, pending[w] # None,
         pending' = [pending EXCEPT ![w] = None], Finally(w), Busy' = {}
  PROVE  Cardinality(keys') <= PromptCap
<1> DEFINE a == KeyOf[pending[w]]
           p == Dropped(a, Drops(w))
           open == {k \in Key : p[k] # {}}
           n == Cardinality(open) - PromptCap
           free == Evictable(p, Busy \ {w}, a)
           V == Evicts(w)
<1>1. a \in Key
  BY DEF IInv, TypeOK, PoolAssumption
<1>2. \A k \in Key : p[k] \subseteq pool[k] /\ pool'[k] = IF k \in V THEN {} ELSE p[k]
  BY DEF Dropped, Drops, Finally, IInv, TypeOK
<1>3. open \subseteq keys /\ IsFiniteSet(open)
  <2>1. open \subseteq keys
    BY <1>2 DEF IInv, MapConsistent
  <2>2. QED
    BY <2>1, KeysFinite, FS_Subset
<1>4. Busy \ {w} = {}
  BY DEF Busy, IInv, TypeOK
<1>5. free = open \ {a}
  BY <1>4 DEF Evictable
<1>6. V = {k \in free : Cardinality(Elder(free, before, k)) < n}
  BY DEF Evicts, Victims, Elder
<1>7. keys' = open \ V
  BY <1>2 DEF MapConsistent
<1>8. n \in Int /\ Cardinality(open) \in Nat /\ PromptCap \in Nat /\ PromptCap >= 1
  BY <1>3, FS_CardinalityType DEF PoolAssumption
<1>9. V = free \/ n <= Cardinality(V)
  <2>1. IsFiniteSet(free) /\ free \subseteq keys
    BY <1>3, <1>5, FS_Subset
  <2>2. /\ \A j, k \in free : <<j, k>> \in before <=> (j # k /\ <<k, j>> \notin before)
        /\ \A i, j, k \in free : <<i, j>> \in before /\ <<j, k>> \in before => <<i, k>> \in before
    BY <2>1 DEF IInv, MapConsistent
  <2>3. V \in SUBSET free /\ \A k \in free : k \in V <=> Cardinality(Elder(free, before, k)) < n
    BY <1>6
  <2>4. QED
    <3> HIDE DEF free, n, V
    <3> QED BY <1>8, <2>1, <2>2, <2>3, Eldest
<1>10. CASE V = free
  <2>1. keys' \in SUBSET {a}
    BY <1>5, <1>7, <1>10
  <2>2. Cardinality(keys') <= 1 /\ Cardinality(keys') \in Nat
    <3>1. IsFiniteSet({a}) /\ Cardinality({a}) = 1
      BY FS_Singleton
    <3> HIDE DEF a
    <3>2. QED
      BY <2>1, <3>1, FS_Subset, FS_CardinalityType
  <2>3. QED
    BY <1>8, <2>2
<1>11. CASE n <= Cardinality(V)
  <2>1. V \in SUBSET open
    BY <1>5, <1>6
  <2> HIDE DEF V, open
  <2>2. Cardinality(open \ V) = Cardinality(open) - Cardinality(V) /\ Cardinality(V) \in Nat
    <3>1. open \cap V = V
      BY <2>1
    <3>2. QED
      BY <1>3, <2>1, <3>1, FS_Difference, FS_Subset, FS_CardinalityType
  <2>3. QED
    BY <1>7, <1>8, <1>11, <2>2
<1>12. QED
  BY <1>9, <1>10, <1>11

\* A step that frees no worker and adds no key keeps the cap at rest.
LEMMA FewerKeys ==
  ASSUME PoolAssumption, IInv, CapAtRest, pending' = pending, keys' \subseteq keys
  PROVE  CapAtRest'
<1>1. IsFiniteSet(keys) /\ keys' \in SUBSET keys
  BY KeysFinite
<1>2. Cardinality(keys') <= Cardinality(keys) /\ Cardinality(keys') \in Nat /\ Cardinality(keys) \in Nat
  BY <1>1, FS_Subset, FS_CardinalityType
<1>3. QED
  BY <1>2 DEF CapAtRest, Busy, PoolAssumption

\* No step leaves the map over its cap with no request in flight.
LEMMA CapStep ==
  ASSUME PoolAssumption, IInv, IInv', CapAtRest, [Next]_vars
  PROVE  CapAtRest'
<1>0. TypeOK /\ MapConsistent'
  BY DEF IInv
<1>1. ASSUME NEW r \in Request, Complete(r)
      PROVE  CapAtRest'
  <2>1. CASE Bypass(r)
    BY <2>1, FewerKeys DEF Bypass, poolVars, workerVars
  <2>2. ASSUME NEW w \in Worker, pending' = [pending EXCEPT ![w] = r]
        PROVE  CapAtRest'
    BY <1>0, <2>2 DEF CapAtRest, Busy, TypeOK, PoolAssumption
  <2>3. ASSUME NEW v \in Refreshed, Overflow(r, v)
        PROVE  CapAtRest'
    <3>1. Kept(KeyOf[r], Flagged(KeyOf[r], v)) # {}
      BY <2>3, FS_EmptySet DEF Overflow, HasRoom, PoolAssumption
    <3>2. Busy # {} /\ pending' = pending
      BY <2>3, <3>1 DEF Overflow
    <3>3. QED
      BY <3>2 DEF CapAtRest, Busy
  <2>4. \A v \in Refreshed, w \in Worker :
          Acquire(r, w, v) => pending' = [pending EXCEPT ![w] = r]
    BY DEF Acquire, Dispatch
  <2>5. \A v \in Refreshed, w \in Worker, b \in ReadVersion :
          SpawnFor(r, w, v, b) => pending' = [pending EXCEPT ![w] = r]
    BY DEF SpawnFor, Dispatch
  <2>6. QED
    BY <1>1, <2>1, <2>2, <2>3, <2>4, <2>5 DEF Complete
<1>2. ASSUME NEW r \in Request, NEW w \in Worker, Abort(r, w)
      PROVE  CapAtRest'
  BY <1>2, FewerKeys DEF Abort, Unregister
<1>3. ASSUME NEW w \in Worker, pending[w] # None,
             pending' = [pending EXCEPT ![w] = None], Finally(w)
      PROVE  CapAtRest'
  BY <1>0, <1>3, EvictionSuffices DEF CapAtRest
<1>4. ASSUME NEW w \in Worker, NEW ok \in BOOLEAN, NEW heavy \in BOOLEAN, Result(w, ok, heavy)
      PROVE  CapAtRest'
  BY <1>3, <1>4 DEF Result
<1>5. ASSUME NEW w \in Worker, Timeout(w) \/ ExitBusy(w)
      PROVE  CapAtRest'
  BY <1>3, <1>5 DEF Timeout, ExitBusy
<1>6. ASSUME NEW w \in Worker, StrayResult(w) \/ IdleTimeout(w) \/ StdinError(w)
      PROVE  CapAtRest'
  BY <1>6, FewerKeys DEF StrayResult, IdleTimeout, StdinError, poolVars
<1>7. ASSUME NEW w \in Worker, ExitIdle(w)
      PROVE  CapAtRest'
  BY <1>7, FewerKeys DEF ExitIdle, Unregister
<1>8. CASE Upgrade \/ DisposeAll \/ (\E k \in Key : CrashAges(k)) \/ UNCHANGED vars
  BY <1>8, FewerKeys DEF Upgrade, DisposeAll, CrashAges, Unregister, vars, poolVars, workerVars
<1>9. QED
  BY <1>1, <1>2, <1>4, <1>5, <1>6, <1>7, <1>8 DEF Next, Exit

\* Whenever no request is in flight, at most PromptCap keys keep workers.
THEOREM CapKept == Spec => []CapAtRest
<1>1. Init => CapAtRest
  BY FS_EmptySet, PoolAssumption DEF Init, CapAtRest, PoolAssumption
<1>2. IInv /\ IInv' /\ CapAtRest /\ [Next]_vars => CapAtRest'
  BY CapStep, PoolAssumption
<1>3. QED
  BY <1>1, <1>2, Invariance, PTL DEF Spec

-----------------------------------------------------------------------------
(* Refinement of PromptService.                                            *)

\* How a change of one call's status shows in the abstract state.
LEMMA StatusChange ==
  ASSUME TypeOK, NEW r \in Request, NEW s \in Status, status' = [status EXCEPT ![r] = s]
  PROVE  /\ Accepted' = IF s = "waiting" THEN Accepted \cup {r} ELSE Accepted \ {r}
         /\ s \in Settled => Outcome' = [Outcome EXCEPT ![r] = s]
         /\ s \notin Settled /\ status[r] \notin Settled => Outcome' = Outcome
<1>1. status \in [Request -> Status] /\ status'[r] = s
  BY DEF TypeOK
<1>2. \A q \in Request : q # r => status'[q] = status[q]
  BY <1>1
<1>3. Accepted' = IF s = "waiting" THEN Accepted \cup {r} ELSE Accepted \ {r}
  BY <1>1, <1>2 DEF Accepted
<1>4. ASSUME s \in Settled PROVE Outcome' = [Outcome EXCEPT ![r] = s]
  BY <1>1, <1>2, <1>4 DEF Outcome
<1>5. ASSUME s \notin Settled, status[r] \notin Settled PROVE Outcome' = Outcome
  BY <1>1, <1>2, <1>5 DEF Outcome
<1>6. QED
  BY <1>3, <1>4, <1>5

\* A call that has not been made is unknown to the abstract service.
LEMMA NewCall ==
  ASSUME TypeOK, NEW r \in Request, status[r] = "new"
  PROVE  r \notin Accepted /\ Outcome[r] = "none" /\ Accepted \ {r} = Accepted
  BY DEF Accepted, Outcome, Settled

\* The settling of a call that waits is a step of the abstract service.
LEMMA SettlingRefines ==
  ASSUME TypeOK, NEW r \in Request, status[r] = "waiting", up, up' = up,
         NEW s \in {"resolved", "rejected"}, status' = [status EXCEPT ![r] = s]
  PROVE  Service!Ends(r, s)
<1>1. s \in Status /\ s \in Settled /\ s # "waiting"
  BY DEF Status, Settled
<1>2. Accepted' = Accepted \ {r} /\ Outcome' = [Outcome EXCEPT ![r] = s]
  BY <1>1, StatusChange
<1>3. QED
  BY <1>2 DEF Service!Ends, Accepted

\* What a step of the pool does to the calls.
LEMMA StepRefines ==
  ASSUME PoolAssumption, IInv, [Next]_vars
  PROVE  [Service!SNext]_(Service!svars)
<1> USE DEF Service!svars, Service!SNext
<1>0. TypeOK
  BY DEF IInv
<1>1. ASSUME UNCHANGED <<status, answer, up>>
      PROVE  UNCHANGED Service!svars
  BY <1>1 DEF Accepted, Outcome
<1>2. ASSUME NEW r \in Request, Complete(r)
      PROVE  Service!Accept(r) \/ Service!Divert(r)
  <2>1. up /\ up' = up /\ answer' = answer /\ status[r] = "new"
    BY <1>2 DEF Complete, Bypass, Acquire, SpawnFor, Overflow, Admits
  <2>2. Service!New(r)
    BY <1>0, <2>1, NewCall DEF Service!New
  <2>3. ASSUME status' = [status EXCEPT ![r] = "waiting"]
        PROVE  Service!Accept(r)
    <3>1. Accepted' = Accepted \cup {r} /\ Outcome' = Outcome
      BY <1>0, <2>1, <2>3, StatusChange DEF Status, Settled
    <3>2. QED
      BY <2>2, <3>1 DEF Service!Accept
  <2>4. ASSUME status' = [status EXCEPT ![r] = "overflowed"]
        PROVE  Service!Divert(r)
    <3>1. Accepted' = Accepted \ {r} /\ Outcome' = [Outcome EXCEPT ![r] = "overflowed"]
      BY <1>0, <2>4, StatusChange DEF Status, Settled
    <3>2. QED
      BY <1>0, <2>1, <2>2, <3>1, NewCall DEF Service!Divert
  <2>5. QED
    BY <1>2, <2>3, <2>4 DEF Complete, Bypass, Acquire, SpawnFor, Overflow, Dispatch
<1>3. CASE \E r \in Request, w \in Worker : Abort(r, w)
  BY <1>1, <1>3 DEF Abort
<1>4. ASSUME NEW w \in Worker, NEW ok \in BOOLEAN, NEW heavy \in BOOLEAN, Result(w, ok, heavy)
      PROVE  Service!Fail(pending[w]) \/ Service!Resolve(pending[w])
  <2>1. pending[w] # None /\ up /\ up' = up
    BY <1>4 DEF Result
  <2>2. pending[w] \in Request /\ status[pending[w]] = "waiting" /\ Head(turn[w]) = pending[w]
    BY <1>4, <2>1, InFlightFacts, ResultStep
  <2>3. CASE ok
    <3>1. /\ status' = [status EXCEPT ![pending[w]] = "resolved"]
          /\ answer' = [answer EXCEPT ![pending[w]] = pending[w]]
      BY <1>4, <2>2, <2>3 DEF Result
    <3>2. QED
      BY <1>0, <2>1, <2>2, <3>1, SettlingRefines DEF Service!Resolve
  <2>4. CASE ~ok
    <3>1. status' = [status EXCEPT ![pending[w]] = "rejected"] /\ answer' = answer
      BY <1>4, <2>4 DEF Result
    <3>2. QED
      BY <1>0, <2>1, <2>2, <3>1, SettlingRefines DEF Service!Fail
  <2>5. QED
    BY <2>3, <2>4
<1>5. ASSUME NEW w \in Worker, Timeout(w) \/ ExitBusy(w)
      PROVE  Service!Fail(pending[w])
  <2>1. /\ pending[w] # None /\ up /\ up' = up /\ answer' = answer
        /\ status' = [status EXCEPT ![pending[w]] = "rejected"]
    BY <1>5 DEF Timeout, ExitBusy, Ended
  <2>2. pending[w] \in Request /\ status[pending[w]] = "waiting"
    BY <2>1, InFlightFacts
  <2>3. QED
    BY <1>0, <2>1, <2>2, SettlingRefines DEF Service!Fail
<1>6. ASSUME NEW w \in Worker, StrayResult(w) \/ IdleTimeout(w) \/ ExitIdle(w)
      PROVE  UNCHANGED Service!svars
  BY <1>1, <1>6 DEF StrayResult, IdleTimeout, ExitIdle, Ended, callVars
<1>7. CASE Upgrade \/ \E k \in Key : CrashAges(k)
  BY <1>1, <1>7 DEF Upgrade, CrashAges, callVars
<1>8. CASE DisposeAll \/ \E w \in Worker : StdinError(w)
  <2>1. up /\ up' = FALSE /\ status' = status /\ answer' = answer
    BY <1>8 DEF DisposeAll, StdinError, callVars
  <2>2. QED
    BY <2>1 DEF Service!Stop, Accepted, Outcome
<1>9. \A w \in Worker : pending[w] # None => pending[w] \in Request
  BY InFlightFacts
<1>10. \A w \in Worker : Timeout(w) \/ ExitBusy(w) => pending[w] # None
  BY DEF Timeout, ExitBusy
<1>11. \A w \in Worker, ok, heavy \in BOOLEAN : Result(w, ok, heavy) => pending[w] # None
  BY DEF Result
<1>12. CASE UNCHANGED vars
  BY <1>1, <1>12 DEF vars, callVars
<1>13. QED
  BY <1>2, <1>3, <1>4, <1>5, <1>6, <1>7, <1>8, <1>9, <1>10, <1>11, <1>12
  DEF Next, Exit, Service!Settle

\* Every accepted call is settled at most once, with its own answer or an error.
THEOREM Refinement == Spec => ServiceSafe
<1>1. Init => Service!SInit
  BY DEF Init, Service!SInit, Accepted, Outcome, Settled
<1>2. IInv /\ [Next]_vars => [Service!SNext]_(Service!svars)
  BY StepRefines, PoolAssumption
<1>3. QED
  BY <1>1, <1>2, Invariance, PTL DEF Spec, ServiceSafe, Service!SSafe

-----------------------------------------------------------------------------
(* Action properties.                                                      *)

\* A flagged or spent worker takes no further request.
THEOREM FreshWorkersOnly == Spec => NoRecycledReuse
<1> DEFINE A == \A w \in Worker : pending'[w] # None /\ pending'[w] # pending[w]
                  => w \notin recycle' /\ count[w] < MaxRequests
<1>1. ASSUME IInv, [Next]_vars, NEW w \in Worker, pending'[w] # None, pending'[w] # pending[w]
      PROVE  w \notin recycle' /\ count[w] < MaxRequests
  <2>1. \A v \in Worker : ~(Timeout(v) \/ ExitBusy(v))
    BY <1>1 DEF Timeout, ExitBusy, IInv, TypeOK
  <2>2. \A v \in Worker, ok, heavy \in BOOLEAN : ~Result(v, ok, heavy)
    BY <1>1 DEF Result, IInv, TypeOK
  <2>3. PICK r \in Request : Complete(r)
    BY <1>1, <2>1, <2>2 DEF Next, Exit, vars, workerVars, Abort, StrayResult, IdleTimeout,
      ExitIdle, CrashAges, Upgrade, DisposeAll, StdinError
  <2>4. CASE Bypass(r)
    BY <1>1, <2>4 DEF Bypass, workerVars
  <2>5. ASSUME NEW v \in Refreshed, NEW u \in Worker, Acquire(r, u, v)
        PROVE  w \notin recycle' /\ count[w] < MaxRequests
    <3>1. w = u
      BY <1>1, <2>5 DEF Acquire, Dispatch, IInv, TypeOK
    <3>2. w \in pool[KeyOf[r]] /\ w \notin recycle' /\ KeyOf[r] \in Key
      BY <2>5, <3>1, PoolAssumption DEF Acquire, Kept, Reap, PoolAssumption
    <3>3. QED
      BY <1>1, <3>2 DEF IInv, Filed
  <2>6. ASSUME NEW v \in Refreshed, NEW u \in Worker, NEW b \in ReadVersion, SpawnFor(r, u, v, b)
        PROVE  w \notin recycle' /\ count[w] < MaxRequests
    <3>1. w = u
      BY <1>1, <2>6 DEF SpawnFor, Dispatch, IInv, TypeOK
    <3>2. proc[w] = "unborn" /\ recycle' = Flagged(KeyOf[r], v) /\ KeyOf[r] \in Key
      BY <2>6, <3>1, PoolAssumption DEF SpawnFor, PoolAssumption
    <3>3. w \notin recycle /\ w \notin pool[KeyOf[r]] /\ count[w] = 0
      BY <1>1, <3>2 DEF IInv, Filed, Unborn, Alive
    <3>4. QED
      BY <3>2, <3>3, PoolAssumption DEF Flagged, PoolAssumption
  <2>7. CASE \E v \in Refreshed : Overflow(r, v)
    BY <1>1, <2>7 DEF Overflow
  <2>8. QED
    BY <2>3, <2>4, <2>5, <2>6, <2>7 DEF Complete
<1>2. IInv /\ [Next]_vars => [A]_vars
  BY <1>1
<1>3. QED
  BY <1>2, Invariance, PTL DEF Spec, NoRecycledReuse

\* The child of a request in flight is stopped only for its own abort, for a
\* drift of its CLI version, or because the proxy ends.
THEOREM BystandersSafe == Spec => NoBystanderKilled
<1> DEFINE A == \A w \in Worker :
                  /\ proc[w] = "running" /\ proc'[w] = "terminating"
                  /\ pending[w] # None /\ pending'[w] = pending[w]
                  => pending[w] \in aborted' \/ IsDrifted(w, snapshot') \/ ~up'
<1>1. ASSUME IInv, [Next]_vars, NEW w \in Worker,
             proc[w] = "running", proc'[w] = "terminating",
             pending[w] # None, pending'[w] = pending[w]
      PROVE  pending[w] \in aborted' \/ IsDrifted(w, snapshot') \/ ~up'
  <2>1. \A W : Terminated(W)[w] = "terminating" => w \in W
    BY <1>1, TerminatedFacts DEF IInv
  <2>2. CASE UNCHANGED vars
    BY <1>1, <2>2 DEF vars, workerVars
  <2>3. CASE \E r \in Request : Complete(r)
    <3>1. PICK r \in Request : Complete(r)
      BY <2>3
    <3>2. ASSUME NEW v \in Refreshed, snapshot' = v, w \in pool[KeyOf[r]] \cap Flagged(KeyOf[r], v)
          PROVE  IsDrifted(w, snapshot')
      BY <3>2, <1>1, PoolAssumption DEF Flagged, IInv, Filed, PoolAssumption
    <3>3. CASE Bypass(r)
      BY <1>1, <3>3 DEF Bypass, workerVars
    <3>4. ASSUME NEW v \in Refreshed, NEW u \in Worker, Acquire(r, u, v)
          PROVE  IsDrifted(w, snapshot')
      BY <1>1, <2>1, <3>2, <3>4 DEF Acquire, Reap
    <3>5. ASSUME NEW v \in Refreshed, NEW u \in Worker, NEW b \in ReadVersion, SpawnFor(r, u, v, b)
          PROVE  IsDrifted(w, snapshot')
      <4>1. w # u
        BY <1>1, <3>5 DEF SpawnFor
      <4>2. proc'[w] = Terminated(pool[KeyOf[r]] \cap Flagged(KeyOf[r], v))[w]
        BY <3>5, <4>1, <1>1, TerminatedFacts DEF SpawnFor, IInv
      <4>3. QED
        BY <1>1, <2>1, <3>2, <3>5, <4>2 DEF SpawnFor
    <3>6. ASSUME NEW v \in Refreshed, Overflow(r, v)
          PROVE  IsDrifted(w, snapshot')
      BY <1>1, <2>1, <3>2, <3>6 DEF Overflow, Reap
    <3>7. QED
      BY <3>1, <3>3, <3>4, <3>5, <3>6 DEF Complete
  <2>4. CASE \E r \in Request, u \in Worker : Abort(r, u)
    BY <1>1, <2>1, <2>4 DEF Abort
  <2>5. ASSUME NEW u \in Worker, u = w \/ w \notin Disposes(u)
        PROVE  /\ \A ok, heavy \in BOOLEAN : ~Result(u, ok, heavy)
               /\ ~Timeout(u) /\ ~ExitBusy(u)
    <3>1. CASE u = w
      BY <1>1, <3>1 DEF Result, Timeout, ExitBusy, IInv, TypeOK
    <3>2. CASE u # w
      BY <1>1, <2>1, <2>5, <3>2, TerminatedFacts DEF Result, Timeout, ExitBusy, IInv
    <3>3. QED
      BY <3>1, <3>2
  <2>6. ASSUME NEW u \in Worker,
               (\E ok, heavy \in BOOLEAN : Result(u, ok, heavy)) \/ Timeout(u) \/ ExitBusy(u)
        PROVE  FALSE
    <3>1. pending[u] # None /\ Finally(u)
      BY <2>6 DEF Result, Timeout, ExitBusy
    <3>2. \A v \in Disposes(u) : v \in Busy => v = u
      BY <3>1, <1>1, PoolAssumption, FinallyFacts DEF IInv
    <3>3. QED
      BY <2>5, <2>6, <3>2, <1>1 DEF Busy
  <2>7. ASSUME NEW u \in Worker, StrayResult(u) \/ IdleTimeout(u) \/ ExitIdle(u)
        PROVE  FALSE
    BY <1>1, <2>1, <2>7 DEF StrayResult, IdleTimeout, ExitIdle, Ended, ExitState, IInv, TypeOK,
      InFlight
  <2>8. CASE Upgrade \/ \E k \in Key : CrashAges(k)
    BY <1>1, <2>8 DEF Upgrade, CrashAges, workerVars
  <2>9. CASE DisposeAll \/ \E u \in Worker : StdinError(u)
    BY <2>9 DEF DisposeAll, StdinError
  <2>10. QED
    BY <1>1, <2>2, <2>3, <2>4, <2>6, <2>7, <2>8, <2>9 DEF Next, Exit
<1>2. IInv /\ [Next]_vars => [A]_vars
  BY <1>1
<1>3. QED
  BY <1>2, Invariance, PTL DEF Spec, NoBystanderKilled
=============================================================================
