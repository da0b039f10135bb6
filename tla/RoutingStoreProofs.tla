------------------------ MODULE RoutingStoreProofs --------------------------
(***************************************************************************)
(* For any documents, any savers and any patches: whole saves leave a pair *)
(* of files that loads, and what is taken from memory is what the files    *)
(* say. A pair that validation accepts moves calls only to targets that    *)
(* serve their band, Claude turns only along their wire; every hop of a    *)
(* chain serves its band, no provider comes twice in it, and the way back  *)
(* of an offloaded call is its route's own provider.                       *)
(***************************************************************************)
EXTENDS RoutingStore, FiniteSetTheorems, TLAPS

\* The two halves are one induction: a save is checked before it is written and
\* read back at once, and everything else that writes clears both flags.
MInv == DiskValid /\ CacheIsDisk

\* A pair of documents is a pair, so that what was loaded is the files.
LEMMA LoadedIsDisk ==
  ASSUME CacheIsDisk
  PROVE  \/ Loaded = {}
         \/ Loaded = {disk} /\ Sound(disk)
PROOF
  <1>1. CASE cache # {} /\ fresh
    BY <1>1 DEF CacheIsDisk, Loaded
  <1>2. CASE ~(cache # {} /\ fresh)
    <2>1. Loaded = {p \in {disk} : Sound(p)}
      BY <1>2 DEF Loaded
    <2>2. CASE Sound(disk)
      BY <2>1, <2>2
    <2>3. CASE ~Sound(disk)
      BY <2>1, <2>3
    <2> QED BY <2>2, <2>3
  <1> QED BY <1>1, <1>2

\* A load keeps the memory true to files that it does not change.
LEMMA LoadKeeps ==
  ASSUME MInv, Load, UNCHANGED <<disk, tended>>
  PROVE  MInv'
PROOF
  <1>1. DiskValid'
    BY DEF MInv, DiskValid, Sound
  <1>2. ASSUME Loaded = {} PROVE CacheIsDisk'
    BY <1>2 DEF Load, CacheIsDisk
  <1>3. ASSUME Loaded # {} PROVE CacheIsDisk'
    <2>1. Loaded = {disk} /\ Sound(disk)
      BY <1>3, LoadedIsDisk DEF MInv
    <2>2. cache' = {disk} /\ disk' = disk
      BY <1>3, <2>1 DEF Load
    <2> QED BY <2>1, <2>2 DEF CacheIsDisk, Sound
  <1>4. CacheIsDisk'
    BY <1>2, <1>3
  <1> QED BY <1>1, <1>4 DEF MInv

\* It holds at first.
LEMMA MInvInit == Init => MInv
PROOF
  BY DEF Init, MInv, DiskValid, CacheIsDisk

\* Every step preserves it: a save writes only a sound pair, and the stamp of a load is
\* spoilt by whatever changes the files.
LEMMA MInvNext == MInv /\ [Next]_vars => MInv'
PROOF
  <1> SUFFICES ASSUME MInv, [Next]_vars PROVE MInv'
    OBVIOUS
  <1>1. CASE Boot
    BY <1>1, LoadKeeps DEF Boot
  <1>2. CASE Request
    BY <1>2, LoadKeeps DEF Request
  <1>3. CASE HandEdit
    <2>1. ~fresh' /\ ~tended'
      BY <1>3 DEF HandEdit, StampKept
    <2> QED BY <2>1 DEF MInv, DiskValid, CacheIsDisk
  <1>4. ASSUME NEW s \in Saver, NEW given, NEW r, NEW f, PutBegins(s, given, r, f)
        PROVE  MInv'
    BY <1>4, LoadKeeps DEF PutBegins
  <1>5. ASSUME NEW s \in Saver, PutRejected(s)
        PROVE  MInv'
    BY <1>5 DEF PutRejected, MInv, DiskValid, CacheIsDisk, Sound
  <1>6. ASSUME NEW s \in Saver, PutSaved(s)
        PROVE  MInv'
    <2>1. Sound(Written(s)) /\ disk' = Written(s) /\ cache' = {Written(s)}
      BY <1>6 DEF PutSaved, Written
    <2>2. Sound(disk)'
      BY <2>1 DEF Sound
    <2> QED BY <2>1, <2>2 DEF MInv, DiskValid, CacheIsDisk
  <1>7. ASSUME NEW s \in Saver, TornSave(s)
        PROVE  MInv'
    BY <1>7 DEF TornSave, MInv, DiskValid, CacheIsDisk
  <1>8. ASSUME NEW p \in Patches, Patch(p)
        PROVE  MInv'
    BY <1>8, LoadKeeps DEF Patch
  <1>9. CASE UNCHANGED vars
    BY <1>9 DEF vars, MInv, DiskValid, CacheIsDisk, Sound
  <1> QED BY <1>1, <1>2, <1>3, <1>4, <1>5, <1>6, <1>7, <1>8, <1>9 DEF Next

\* Nothing or one pair is in memory, and one when the process runs.
Remembers == (cache = {} \/ \E p : cache = {p}) /\ (up => cache # {})

Types ==
  /\ fresh \in BOOLEAN /\ tended \in BOOLEAN
  /\ \A s \in Saver : save[s].pc \in {"idle", "checking"}
  /\ reply.code \in {0, 200, 400} /\ edits \in 0 .. MaxEdits

\* One pair is what TypeOK counts.
LEMMA TypesAsCounted == Types /\ Remembers => TypeOK
PROOF
  <1> SUFFICES ASSUME Types, Remembers PROVE TypeOK
    OBVIOUS
  <1>1. Cardinality(cache) \in {0, 1}
    BY FS_EmptySet, FS_Singleton DEF Remembers
  <1> QED BY <1>1 DEF Types, Remembers, TypeOK

\* A load that throws keeps the pair there was, another puts one in its place.
LEMMA LoadRemembers ==
  ASSUME CacheIsDisk, Remembers, Load, up' => up \/ Loaded # {}
  PROVE  Remembers' /\ fresh' \in BOOLEAN
PROOF
  <1>1. CASE Loaded = {}
    BY <1>1 DEF Load, Remembers
  <1>2. CASE Loaded = {disk}
    BY <1>2 DEF Load, Remembers
  <1> QED BY <1>1, <1>2, LoadedIsDisk

\* The three parts hold at first, ...
LEMMA IInvInit == Init => IInv /\ Types /\ Remembers
PROOF
  <1> SUFFICES ASSUME Init PROVE IInv /\ Types /\ Remembers
    OBVIOUS
  <1>a. fresh \in BOOLEAN /\ tended \in BOOLEAN
    BY DEF Init
  <1>b. /\ \A s \in Saver : save[s].pc \in {"idle", "checking"}
        /\ reply.code \in {0, 200, 400} /\ edits \in 0 .. MaxEdits
    BY StoreAssumption DEF Init, Idle, NoReply
  <1>c. Remembers
    BY DEF Init, Remembers
  <1>1. Types /\ Remembers
    BY <1>a, <1>b, <1>c DEF Types
  <1> QED BY <1>1, MInvInit, TypesAsCounted DEF MInv, IInv

\* ... and every step keeps them.
LEMMA IInvNext == IInv /\ Types /\ Remembers /\ [Next]_vars => (IInv /\ Types /\ Remembers)'
PROOF
  <1> SUFFICES ASSUME MInv, Types, Remembers, [Next]_vars PROVE Types' /\ Remembers'
    BY MInvNext, TypesAsCounted, PTL DEF MInv, IInv
  <1> USE DEF Types, Idle
  <1>0. CacheIsDisk
    BY DEF MInv
  <1>1. CASE Boot
    BY <1>0, <1>1, LoadRemembers DEF Boot, BootReads
  <1>2. CASE Request
    BY <1>0, <1>2, LoadRemembers DEF Request
  <1>3. CASE HandEdit
    <2>1. edits' \in 0 .. MaxEdits
      BY <1>3, StoreAssumption DEF HandEdit
    <2> QED BY <1>3, <2>1 DEF HandEdit, StampKept, Remembers
  <1>4. ASSUME NEW s \in Saver, NEW given, NEW r, NEW f, PutBegins(s, given, r, f)
        PROVE  Types' /\ Remembers'
    <2>1. Remembers' /\ fresh' \in BOOLEAN
      BY <1>0, <1>4, LoadRemembers DEF PutBegins
    <2>2. \A x \in Saver : save'[x].pc \in {"idle", "checking"}
      BY <1>4 DEF PutBegins
    <2> QED BY <1>4, <2>1, <2>2 DEF PutBegins
  <1>5. ASSUME NEW s \in Saver, PutRejected(s)
        PROVE  Types' /\ Remembers'
    <2>1. fresh' \in BOOLEAN /\ tended' \in BOOLEAN
      BY <1>5 DEF PutRejected
    <2>2. /\ \A x \in Saver : save'[x].pc \in {"idle", "checking"}
          /\ reply'.code \in {0, 200, 400} /\ edits' \in 0 .. MaxEdits
      BY <1>5 DEF PutRejected
    <2>3. Remembers'
      BY <1>5 DEF PutRejected, Remembers
    <2> QED BY <2>1, <2>2, <2>3
  <1>6. ASSUME NEW s \in Saver, PutSaved(s)
        PROVE  Types' /\ Remembers'
    <2>1. fresh' \in BOOLEAN /\ tended' \in BOOLEAN
      BY <1>6 DEF PutSaved
    <2>2. /\ \A x \in Saver : save'[x].pc \in {"idle", "checking"}
          /\ reply'.code \in {0, 200, 400} /\ edits' \in 0 .. MaxEdits
      BY <1>6 DEF PutSaved
    <2>3. Remembers'
      BY <1>6 DEF PutSaved, Remembers
    <2> QED BY <2>1, <2>2, <2>3
  <1>7. ASSUME NEW s \in Saver, TornSave(s)
        PROVE  Types' /\ Remembers'
    <2>1. edits' \in 0 .. MaxEdits
      BY <1>7, StoreAssumption DEF TornSave
    <2> QED BY <1>7, <2>1 DEF TornSave, NoReply, Remembers
  <1>8. ASSUME NEW p \in Patches, Patch(p)
        PROVE  Types' /\ Remembers'
    <2>1. Remembers' /\ fresh' \in BOOLEAN
      BY <1>0, <1>8, LoadRemembers DEF Patch
    <2> QED BY <1>8, <2>1 DEF Patch
  <1>9. CASE UNCHANGED vars
    BY <1>9 DEF vars, Remembers
  <1> QED BY <1>1, <1>2, <1>3, <1>4, <1>5, <1>6, <1>7, <1>8, <1>9 DEF Next

\* Saving one file or both, from any number of places at once, never leaves a pair on
\* disk that the next start would refuse (server.mjs, PUT /api/llm/routing), and the
\* configuration a request is routed by, when it comes from memory, is that of the
\* files as they are (routing-config.mjs, loadRoutingConfig).
THEOREM SavesAndLoads == Spec => []IInv
PROOF
  <1> QED BY IInvInit, IInvNext, PTL DEF Spec

-----------------------------------------------------------------------------
(* What a filter keeps. The library's induction takes a predicate as a       *)
(* parameter; here it is the least length at which the lemma would fail.     *)

\* A set of numbers that has a member has a least one.
LEMMA LeastNumber ==
  ASSUME NEW T \in SUBSET Nat, T # {}
  PROVE  \E n \in T : \A m \in T : n <= m
PROOF
  <1> DEFINE F == {0 .. n : n \in T}
  <1>1. F \subseteq FiniteSubsetsOf(Nat) /\ F # {}
    <2>1. \A n \in T : 0 .. n \in SUBSET Nat /\ IsFiniteSet(0 .. n)
      BY FS_Interval
    <2> QED BY <2>1 DEF FiniteSubsetsOf
  <1>2. PICK x \in F : \A y \in F : <<y, x>> \notin StrictSubsetOrdering(Nat)
    <2> HIDE DEF F
    <2> QED BY <1>1, WFMin, FS_StrictSubsetOrderingWellFounded
  <1>3. PICK n \in T : x = 0 .. n
    BY <1>2
  <1>4. ASSUME NEW m \in T PROVE n <= m
    <2> SUFFICES ASSUME m < n PROVE FALSE
      OBVIOUS
    <2>1. 0 .. m \subseteq 0 .. n /\ 0 .. m # 0 .. n /\ 0 .. m \in SUBSET Nat /\ 0 .. n \in SUBSET Nat
      BY <1>3
    <2>2. <<0 .. m, 0 .. n>> \in StrictSubsetOrdering(Nat)
      BY <2>1 DEF StrictSubsetOrdering
    <2> QED BY <1>2, <1>3, <2>2
  <1> QED BY <1>3, <1>4

\* u is what the filter has kept after each of the first n elements.
Kept(S, seq, keep, n, u) ==
  /\ u \in [0 .. n -> Seq(S)]
  /\ \A m \in 0 .. n :
       u[m] = IF m = 0 THEN << >> ELSE IF m \in keep THEN Append(u[m - 1], seq[m]) ELSE u[m - 1]

\* The elements of t are those of seq at the first n places to keep, p says which.
Places(seq, keep, n, t, p) ==
  /\ p \in [1 .. Len(t) -> 1 .. n]
  /\ \A i \in 1 .. Len(t) : p[i] \in keep /\ t[i] = seq[p[i]]
  /\ \A i, j \in 1 .. Len(t) : i < j => p[i] < p[j]
  /\ \A k \in keep \cap (1 .. n) : \E i \in 1 .. Len(t) : p[i] = k

\* One more element: it is kept or not.
LEMMA KeptGrows ==
  ASSUME NEW S, NEW seq \in Seq(S), NEW keep, NEW n \in 1 .. Len(seq),
         NEW u, Kept(S, seq, keep, n - 1, u), NEW p, Places(seq, keep, n - 1, u[n - 1], p)
  PROVE  \E v, q : Kept(S, seq, keep, n, v) /\ Places(seq, keep, n, v[n], q)
PROOF
  <1> DEFINE t == u[n - 1]
             w == IF n \in keep THEN Append(t, seq[n]) ELSE t
             v == [m \in 0 .. n |-> IF m = n THEN w ELSE u[m]]
             q == IF n \in keep THEN [i \in 1 .. Len(t) + 1 |-> IF i <= Len(t) THEN p[i] ELSE n] ELSE p
  <1>1. n \in Nat /\ n - 1 \in Nat /\ seq[n] \in S /\ t \in Seq(S) /\ Len(t) \in Nat
    BY DEF Kept
  <1>2. w \in Seq(S)
    BY <1>1
  <1>3. v \in [0 .. n -> Seq(S)]
    <2>1. \A m \in 0 .. n : m # n => m \in 0 .. n - 1
      BY <1>1
    <2> QED BY <1>2, <2>1 DEF Kept
  <1>4. Kept(S, seq, keep, n, v)
    <2> SUFFICES ASSUME NEW m \in 0 .. n
                 PROVE  v[m] = IF m = 0 THEN << >>
                               ELSE IF m \in keep THEN Append(v[m - 1], seq[m]) ELSE v[m - 1]
      BY <1>3 DEF Kept
    <2>1. CASE m = n
      <3>1. v[n] = w /\ v[n - 1] = t /\ n # 0
        BY <1>1
      <3> QED BY <2>1, <3>1
    <2>2. CASE m # n
      <3>1. m \in 0 .. n - 1 /\ v[m] = u[m] /\ (m # 0 => v[m - 1] = u[m - 1])
        BY <1>1, <2>2
      <3> QED BY <3>1 DEF Kept
    <2> QED BY <2>1, <2>2
  <1>5. v[n] = w
    BY <1>1
  <1> HIDE DEF v
  <1>6. Places(seq, keep, n, w, q)
    <2>1. CASE n \notin keep
      <3>1. w = t /\ q = p
        BY <2>1
      <3>2. \A k \in keep \cap (1 .. n) : k \in 1 .. n - 1
        BY <1>1, <2>1
      <3>3. \A k \in 1 .. n - 1 : k \in 1 .. n
        BY <1>1
      <3> HIDE DEF t, w, q
      <3> QED BY <3>1, <3>2, <3>3 DEF Places, t
    <2>2. CASE n \in keep
      <3>1. /\ w = Append(t, seq[n]) /\ Len(w) = Len(t) + 1
            /\ \A i \in 1 .. Len(t) : w[i] = t[i]
            /\ w[Len(t) + 1] = seq[n]
        BY <1>1, <2>2
      <3>2. q = [i \in 1 .. Len(t) + 1 |-> IF i <= Len(t) THEN p[i] ELSE n]
        BY <2>2
      <3>3. \A i \in 1 .. Len(t) : p[i] \in 1 .. n - 1 /\ p[i] \in keep /\ t[i] = seq[p[i]]
        BY DEF Places
      <3> HIDE DEF t, w, q
      <3>4. /\ \A i \in 1 .. Len(t) : q[i] = p[i] /\ q[i] \in 1 .. n /\ q[i] < n
            /\ q[Len(t) + 1] = n /\ n \in 1 .. n
            /\ \A i \in 1 .. Len(t) + 1 : i \in 1 .. Len(t) \/ i = Len(t) + 1
        BY <1>1, <3>2, <3>3
      <3>5. q \in [1 .. Len(w) -> 1 .. n]
        BY <3>1, <3>2, <3>4
      <3>6. \A i \in 1 .. Len(w) : q[i] \in keep /\ w[i] = seq[q[i]]
        BY <2>2, <3>1, <3>3, <3>4
      <3>7. \A i, j \in 1 .. Len(t) : i < j => p[i] < p[j]
        BY DEF Places, t
      <3>8. \A i, j \in 1 .. Len(w) : i < j => q[i] < q[j]
        BY <1>1, <3>1, <3>4, <3>7
      <3>9. ASSUME NEW k \in keep \cap (1 .. n) PROVE \E i \in 1 .. Len(w) : q[i] = k
        <4>1. CASE k = n
          BY <1>1, <3>1, <3>4, <4>1
        <4>2. CASE k # n
          <5>1. k \in keep \cap (1 .. n - 1)
            BY <1>1, <4>2
          <5>2. PICK i \in 1 .. Len(t) : p[i] = k
            BY <5>1 DEF Places, t
          <5> QED BY <1>1, <3>1, <3>4, <5>2
        <4> QED BY <4>1, <4>2
      <3> QED BY <3>5, <3>6, <3>8, <3>9 DEF Places
    <2> QED BY <2>1, <2>2
  <1> QED BY <1>4, <1>5, <1>6

\* So it goes for the whole of a sequence.
LEMMA KeptToTheEnd ==
  ASSUME NEW S, NEW seq \in Seq(S), NEW keep
  PROVE  \E u, p : Kept(S, seq, keep, Len(seq), u) /\ Places(seq, keep, Len(seq), u[Len(seq)], p)
PROOF
  <1> DEFINE Good(n) == \E u, p : Kept(S, seq, keep, n, u) /\ Places(seq, keep, n, u[n], p)
             Bad == {n \in 0 .. Len(seq) : ~Good(n)}
  <1>1. ASSUME NEW n \in Bad PROVE \E m \in Bad : m < n
    <2>1. CASE n = 0
      <3> DEFINE u == [m \in {0} |-> << >>]
      <3>1. Kept(S, seq, keep, 0, u)
        <4>1. 0 .. 0 = {0} /\ << >> \in Seq(S)
          OBVIOUS
        <4> QED BY <4>1 DEF Kept
      <3>2. Places(seq, keep, 0, u[0], << >>)
        <4>1. u[0] = << >> /\ Len(<< >>) = 0 /\ 1 .. 0 = {} /\ << >> \in [1 .. 0 -> 1 .. 0]
          OBVIOUS
        <4> HIDE DEF u
        <4> QED BY <4>1 DEF Places
      <3> HIDE DEF u
      <3> QED BY <1>1, <2>1, <3>1, <3>2
    <2>2. CASE n # 0
      <3>1. n \in 1 .. Len(seq) /\ n - 1 \in 0 .. Len(seq) /\ n - 1 < n
        <4>1. n \in 0 .. Len(seq) /\ Len(seq) \in Nat
          BY <1>1
        <4> QED BY <2>2, <4>1
      <3>2. Good(n - 1) => Good(n)
        <4> SUFFICES ASSUME Good(n - 1) PROVE Good(n)
          OBVIOUS
        <4>1. PICK u, p : Kept(S, seq, keep, n - 1, u) /\ Places(seq, keep, n - 1, u[n - 1], p)
          OBVIOUS
        <4> QED BY <3>1, <4>1, KeptGrows
      <3> HIDE DEF Good
      <3> QED BY <1>1, <3>1, <3>2
    <2> QED BY <2>1, <2>2
  <1> HIDE DEF Good
  <1>2. Bad = {}
    <2> SUFFICES ASSUME Bad # {} PROVE FALSE
      OBVIOUS
    <2>1. Bad \in SUBSET Nat
      OBVIOUS
    <2>2. PICK n \in Bad : \A m \in Bad : n <= m
      <3> HIDE DEF Bad
      <3> QED BY <2>1, LeastNumber
    <2>3. PICK m \in Bad : m < n
      BY <1>1, <2>2
    <2> HIDE DEF Bad
    <2> QED BY <2>1, <2>2, <2>3
  <1>3. Good(Len(seq))
    BY <1>2
  <1> QED BY <1>3 DEF Good

\* What Only returns, in the order of the places it keeps.
LEMMA OnlyPlaces ==
  ASSUME NEW S, NEW seq \in Seq(S), NEW keep
  PROVE  /\ Only(seq, keep) \in Seq(S)
         /\ \E p : Places(seq, keep, Len(seq), Only(seq, keep), p)
PROOF
  <1> DEFINE Rec(u) == u = [n \in 0 .. Len(seq) |->
                              IF n = 0 THEN << >>
                              ELSE IF n \in keep THEN Append(u[n - 1], seq[n]) ELSE u[n - 1]]
  <1>1. PICK u, p : Kept(S, seq, keep, Len(seq), u) /\ Places(seq, keep, Len(seq), u[Len(seq)], p)
    BY KeptToTheEnd
  <1>2. Rec(u)
    BY <1>1 DEF Kept
  <1>3. PICK w : Rec(w) /\ Only(seq, keep) = w[Len(seq)]
    BY <1>2 DEF Only
  <1>4. \A n \in 0 .. Len(seq) : w[n] = u[n]
    <2> DEFINE Bad == {n \in 0 .. Len(seq) : w[n] # u[n]}
    <2> SUFFICES ASSUME Bad # {} PROVE FALSE
      OBVIOUS
    <2>1. PICK n \in Bad : \A m \in Bad : n <= m
      <3> HIDE DEF Bad
      <3>1. Bad \in SUBSET Nat
        BY DEF Bad
      <3> QED BY <3>1, LeastNumber
    <2>2. n # 0 => w[n - 1] = u[n - 1]
      BY <2>1
    <2>3. w[n] = u[n]
      BY <1>2, <1>3, <2>2
    <2> QED BY <2>3
  <1>5. Len(seq) \in 0 .. Len(seq)
    OBVIOUS
  <1>6. Only(seq, keep) = u[Len(seq)]
    BY <1>3, <1>4, <1>5
  <1> QED BY <1>1, <1>5, <1>6 DEF Kept

\* No provider comes twice.
Distinct(seq) == \A i \in DOMAIN seq : \A j \in 1 .. i - 1 : seq[j].provider # seq[i].provider

\* Each element it returns was one to keep, and a sequence without repeats stays one.
LEMMA OnlyKeeps ==
  ASSUME NEW S, NEW seq \in Seq(S), NEW keep
  PROVE  /\ \A i \in DOMAIN Only(seq, keep) :
              \E k \in DOMAIN seq : k \in keep /\ k >= i /\ Only(seq, keep)[i] = seq[k]
         /\ Distinct(seq) => Distinct(Only(seq, keep))
PROOF
  <1> DEFINE t == Only(seq, keep)
  <1>1. t \in Seq(S) /\ \E q : Places(seq, keep, Len(seq), t, q)
    BY OnlyPlaces
  <1>2. PICK p : Places(seq, keep, Len(seq), t, p)
    BY <1>1
  <1> HIDE DEF t
  <1>3. DOMAIN t = 1 .. Len(t) /\ Len(t) \in Nat /\ DOMAIN seq = 1 .. Len(seq)
    BY <1>1
  <1>4. \A i \in DOMAIN t : p[i] \in DOMAIN seq /\ p[i] \in keep /\ t[i] = seq[p[i]]
    BY <1>2, <1>3 DEF Places
  <1>5. \A i, j \in DOMAIN t : i < j => p[i] < p[j]
    BY <1>2, <1>3 DEF Places
  <1>6. \A i \in DOMAIN t : p[i] >= i
    <2> DEFINE Bad == {i \in DOMAIN t : p[i] < i}
    <2> SUFFICES ASSUME Bad # {} PROVE FALSE
      BY <1>3, <1>4
    <2>1. Bad \in SUBSET Nat
      BY <1>3
    <2>2. PICK i \in Bad : \A j \in Bad : i <= j
      <3> HIDE DEF Bad
      <3> QED BY <2>1, LeastNumber
    <2>3. i \in DOMAIN t /\ p[i] \in 1 .. Len(seq) /\ p[i] < i
      BY <1>3, <1>4
    <2>4. i - 1 \in DOMAIN t /\ i - 1 < i
      BY <1>3, <2>3
    <2>5. p[i - 1] < p[i] /\ p[i - 1] \in 1 .. Len(seq)
      BY <1>3, <1>4, <1>5, <2>3, <2>4
    <2>6. i - 1 \in Bad
      BY <1>3, <2>3, <2>4, <2>5
    <2> QED BY <1>3, <2>2, <2>3, <2>4, <2>6
  <1>7. ASSUME Distinct(seq) PROVE Distinct(t)
    <2> SUFFICES ASSUME NEW i \in DOMAIN t, NEW j \in 1 .. i - 1
                 PROVE  t[j].provider # t[i].provider
      BY DEF Distinct
    <2>1. j \in DOMAIN t /\ j < i
      BY <1>3
    <2>2. p[j] < p[i] /\ p[i] \in DOMAIN seq /\ p[j] \in DOMAIN seq
      BY <1>4, <1>5, <2>1
    <2>3. p[j] \in 1 .. p[i] - 1
      BY <1>3, <2>2
    <2>4. t[i] = seq[p[i]] /\ t[j] = seq[p[j]]
      BY <1>4, <2>1
    <2> QED BY <1>7, <2>2, <2>3, <2>4 DEF Distinct
  <1>8. \A i \in DOMAIN t : \E k \in DOMAIN seq : k \in keep /\ k >= i /\ t[i] = seq[k]
    BY <1>4, <1>6
  <1> QED BY <1>7, <1>8 DEF t

\* What is first, and to be kept, stays first; so for the first two.
LEMMA OnlyFirst ==
  ASSUME NEW S, NEW seq \in Seq(S), NEW keep, 1 \in keep \cap DOMAIN seq
  PROVE  /\ 1 \in DOMAIN Only(seq, keep) /\ Only(seq, keep)[1] = seq[1]
         /\ 2 \in keep \cap DOMAIN seq
              => 2 \in DOMAIN Only(seq, keep) /\ Only(seq, keep)[2] = seq[2]
PROOF
  <1> DEFINE t == Only(seq, keep)
  <1>1. t \in Seq(S) /\ \E q : Places(seq, keep, Len(seq), t, q)
    BY OnlyPlaces
  <1>2. PICK p : Places(seq, keep, Len(seq), t, p)
    BY <1>1
  <1> HIDE DEF t
  <1>3. DOMAIN t = 1 .. Len(t) /\ Len(t) \in Nat /\ DOMAIN seq = 1 .. Len(seq)
    BY <1>1
  <1>4. \A i \in DOMAIN t : p[i] \in 1 .. Len(seq) /\ t[i] = seq[p[i]]
    BY <1>2, <1>3 DEF Places
  <1>5. \A i, j \in DOMAIN t : i < j => p[i] < p[j]
    BY <1>2, <1>3 DEF Places
  <1>6. \A k \in keep \cap DOMAIN seq : \E i \in DOMAIN t : p[i] = k
    BY <1>2, <1>3 DEF Places
  <1>7. PICK i \in DOMAIN t : p[i] = 1
    BY <1>6
  <1>8. 1 \in DOMAIN t
    BY <1>3, <1>7
  <1>9. i = 1
    <2> SUFFICES ASSUME 1 < i PROVE FALSE
      BY <1>3, <1>7
    <2> QED BY <1>4, <1>5, <1>7, <1>8
  <1>10. ASSUME 2 \in keep \cap DOMAIN seq PROVE 2 \in DOMAIN t /\ t[2] = seq[2]
    <2>1. PICK k \in DOMAIN t : p[k] = 2
      BY <1>6, <1>10
    <2>2. k # 1 /\ k \in Nat /\ k >= 2 /\ 2 \in DOMAIN t
      BY <1>3, <1>7, <1>9, <2>1
    <2>3. k = 2
      <3> SUFFICES ASSUME 2 < k PROVE FALSE
        BY <2>2
      <3>1. p[1] < p[2] /\ p[2] < p[k] /\ p[2] \in 1 .. Len(seq)
        BY <1>4, <1>5, <1>8, <2>1, <2>2
      <3> QED BY <1>3, <1>7, <1>9, <2>1, <3>1
    <2> QED BY <1>4, <2>1, <2>2, <2>3
  <1> QED BY <1>4, <1>7, <1>8, <1>9, <1>10 DEF t

-----------------------------------------------------------------------------
(* What validation gives a route.                                          *)

\* A configuration in force comes from a pair that is valid.
LEMMA InForceValid ==
  ASSUME CacheIsDisk, NEW c \in InForce
  PROVE  \E r, f : Valid(r, f) /\ c = Parsed(r, f)
PROOF
  <1>1. fresh /\ c \in {Parsed(p.r, p.f) : p \in cache}
    BY DEF InForce
  <1>2. cache = {disk} /\ Sound(disk)
    BY <1>1 DEF CacheIsDisk
  <1> QED BY <1>1, <1>2 DEF Sound

\* Its parts obey the rules.
LEMMA ParsedParts ==
  ASSUME NEW r, NEW f, Valid(r, f), NEW c, c = Parsed(r, f)
  PROVE  /\ RoutesValid(c.providers, c) /\ DefaultsValid(c.providers, c)
         /\ SemanticValid(c.providers, c.semantic)
         /\ \A id \in DOMAIN c.providers : ProviderValid(c.providers[id])
PROOF
  <1>1. /\ RoutesValid(AllProviders(r), r) /\ SemanticValid(AllProviders(r), r.semantic)
        /\ DefaultsValid(AllProviders(r), r)
        /\ \A id \in DOMAIN AllProviders(r) : ProviderValid(AllProviders(r)[id])
    BY DEF Valid
  <1>2. /\ c.providers = AllProviders(r) /\ c.routes = r.routes /\ c.semantic = r.semantic
        /\ c.defaults = r.defaults
    BY DEF Parsed
  <1> QED BY <1>1, <1>2 DEF RoutesValid, DefaultsValid

\* A chain of it: declared providers, none twice, none the head.
ChainSound(ps, head, chain) ==
  /\ chain \in Seq(Candidate(ps)) /\ Distinct(chain)
  /\ \A i \in DOMAIN chain : chain[i].provider # head

\* So are its chains.
LEMMA ParsedChains ==
  ASSUME NEW r, NEW f, Valid(r, f), NEW c, c = Parsed(r, f), NEW h \in DOMAIN c.chains
  PROVE  ChainSound(c.providers, h, c.chains[h])
PROOF
  <1> DEFINE ps == AllProviders(r)
             left == Usable(ps, f.chains[h])
  <1>1. ChainsValid(ps, f)
    BY DEF Valid
  <1>2. c.providers = ps /\ h \in DOMAIN f.chains /\ ps[h].on /\ c.chains[h] = left
    BY DEF Parsed
  <1>3. f.chains[h] \in Seq(Candidate(ps)) /\ ChainValid(ps, h, f.chains[h])
    BY <1>1, <1>2 DEF ChainsValid
  <1>4. left \in Seq(Candidate(ps))
    BY <1>3, OnlyPlaces DEF Usable
  <1>5. Distinct(left) /\ \A i \in DOMAIN left : left[i].provider # h
    BY <1>3 DEF ChainValid, Distinct
  <1> QED BY <1>2, <1>4, <1>5 DEF ChainSound

\* A target is one of the policy's, in use, and serves the network.
LEMMA TargetListed ==
  ASSUME NEW s, NEW net, NEW t \in TargetFor(s, net)
  PROVE  s.on /\ \E i \in DOMAIN s.targets : t = s.targets[i] /\ t.on /\ t.net \in {"any", net}
PROOF
  <1>1. s.on
    BY DEF TargetFor
  <1>2. PICK i \in Serving(s, net) : t = s.targets[i]
    BY <1>1 DEF TargetFor
  <1> QED BY <1>1, <1>2 DEF Serving

\* Where a route was moved, a target took it.
LEMMA MovedBy ==
  ASSUME NEW c, NEW q, Resolve(c, q).moved
  PROVE  \E t \in TargetFor(c.semantic, q.net) :
           /\ Moves(c, q, Matched(c, q), BandFor(c, q), t)
           /\ Resolve(c, q).provider = t.provider
PROOF
  <1> DEFINE to == {t \in TargetFor(c.semantic, q.net) : Moves(c, q, Matched(c, q), BandFor(c, q), t)}
  <1>1. to # {} /\ Resolve(c, q).provider = (CHOOSE t \in to : TRUE).provider
    BY DEF Resolve
  <1>2. (CHOOSE t \in to : TRUE) \in to
    BY <1>1
  <1> QED BY <1>1, <1>2

\* Where it was not, it is the provider of the entry that matched.
LEMMA NotMoved ==
  ASSUME NEW c, NEW q
  PROVE  \/ Resolve(c, q).provider = Matched(c, q).provider
         \/ \E t \in TargetFor(c.semantic, q.net) :
              /\ Moves(c, q, Matched(c, q), BandFor(c, q), t)
              /\ Resolve(c, q).provider = t.provider
PROOF
  <1> DEFINE to == {t \in TargetFor(c.semantic, q.net) : Moves(c, q, Matched(c, q), BandFor(c, q), t)}
  <1>1. CASE to = {}
    BY <1>1 DEF Resolve
  <1>2. CASE to # {}
    <2>1. Resolve(c, q).provider = (CHOOSE t \in to : TRUE).provider
      BY <1>2 DEF Resolve
    <2>2. (CHOOSE t \in to : TRUE) \in to
      BY <1>2
    <2> QED BY <2>1, <2>2
  <1> QED BY <1>1, <1>2

\* A foreground Claude turn stays on its wire: its route is on it, and no target off it
\* takes the turn.
LEMMA WireHolds ==
  ASSUME CacheIsDisk, NEW c \in InForce, NEW q,
         ClaudeKey \in DOMAIN c.routes, <<q.job, q.agent>> = ClaudeKey
  PROVE  ~Refused(c, q)
PROOF
  <1>1. RoutesValid(c.providers, c)
    BY InForceValid, ParsedParts
  <1> DEFINE e == Matched(c, q)
  <1>2. e = c.routes[ClaudeKey]
    BY DEF Matched
  <1>3. c.providers[e.provider].wire
    BY <1>1, <1>2 DEF RoutesValid
  <1>4. CASE Resolve(c, q).provider = e.provider
    BY <1>3, <1>4 DEF Refused
  <1>5. ASSUME NEW t, Moves(c, q, e, BandFor(c, q), t), Resolve(c, q).provider = t.provider
        PROVE  ~Refused(c, q)
    BY <1>3, <1>5 DEF Moves, WireKept, Refused
  <1> QED BY <1>4, <1>5, NotMoved

\* A call that is moved is moved to a target that has its band.
LEMMA BandHolds ==
  ASSUME CacheIsDisk, NEW c \in InForce, NEW q,
         Resolve(c, q).moved, ~Resolve(c, q).profiled
  PROVE  LET route == Resolve(c, q) IN
         /\ route.model = c.providers[route.provider].models[route.band]
         /\ route.model # NoModel
         /\ \E i \in DOMAIN c.semantic.targets :
              LET t == c.semantic.targets[i]
              IN  t.provider = route.provider /\ t.net \in {"any", q.net} /\ ScopeFor(q) \in t.scope
PROOF
  <1> DEFINE s == c.semantic
             band == BandFor(c, q)
             route == Resolve(c, q)
  <1>1. SemanticValid(c.providers, s)
    BY InForceValid, ParsedParts
  <1>2. PICK t \in TargetFor(s, q.net) : Moves(c, q, Matched(c, q), band, t) /\ route.provider = t.provider
    BY MovedBy
  <1>3. PICK i \in DOMAIN s.targets : t = s.targets[i] /\ t.on /\ t.net \in {"any", q.net}
    BY TargetListed
  <1>4. s.on /\ TargetValid(c.providers, s, t)
    BY <1>1, <1>3, TargetListed DEF SemanticValid
  <1>5. band \in BandsOf(s, t) /\ ScopeFor(q) \in ScopeOf(t, band)
    BY <1>2 DEF Moves
  <1>6. band \in Served(c.providers[t.provider])
    BY <1>3, <1>4, <1>5 DEF TargetValid
  <1>7. ScopeFor(q) \in t.scope
    BY <1>4, <1>5 DEF TargetValid, ScopeOf
  <1>8. route.band = band /\ route.model = ModelOf(c, q, c.providers[route.provider], band)
    BY DEF Resolve
  <1>9. route.model = c.providers[t.provider].models[band] /\ route.model # NoModel
    BY <1>2, <1>6, <1>8 DEF ModelOf, Served
  <1> HIDE DEF route, band, s
  <1>10. QED
    BY <1>2, <1>3, <1>7, <1>8, <1>9 DEF route, s

-----------------------------------------------------------------------------
(* A chain of hops.                                                        *)

\* Where no target takes the call, nothing is moved.
LEMMA StayedPut ==
  ASSUME NEW c, NEW q, ~Resolve(c, q).moved
  PROVE  Resolve(c, q).provider = Matched(c, q).provider
PROOF
  <1> DEFINE to == {t \in TargetFor(c.semantic, q.net) : Moves(c, q, Matched(c, q), BandFor(c, q), t)}
  <1>1. Resolve(c, q).moved = (to # {})
    BY DEF Resolve
  <1>2. to = {}
    BY <1>1
  <1> HIDE DEF to
  <1>3. Resolve(c, q).provider
        = IF to # {} THEN (CHOOSE t \in to : TRUE).provider ELSE Matched(c, q).provider
    BY DEF Resolve, to
  <1> QED BY <1>2, <1>3

\* The entry that matches is one that validation saw.
LEMMA MatchedValid ==
  ASSUME NEW c, NEW q, RoutesValid(c.providers, c), DefaultsValid(c.providers, c)
  PROVE  EntryValid(c.providers, Matched(c, q))
PROOF
  <1>1. ClassOf(q) \in Class
    BY DEF ClassOf, Class
  <1> QED BY <1>1 DEF Matched, RoutesValid, DefaultsValid

\* Where a call is sent is declared and enabled; where it was moved from is too, and is
\* somewhere else.
LEMMA RouteKnown ==
  ASSUME CacheIsDisk, NEW c \in InForce, NEW q
  PROVE  LET route == Resolve(c, q) IN
         /\ Known(c.providers, route.provider) /\ Known(c.providers, route.from)
         /\ route.from = Matched(c, q).provider
         /\ route.moved => route.from # route.provider
PROOF
  <1> DEFINE ps == c.providers
             e == Matched(c, q)
             route == Resolve(c, q)
  <1>1. RoutesValid(ps, c) /\ DefaultsValid(ps, c) /\ SemanticValid(ps, c.semantic)
    BY InForceValid, ParsedParts
  <1>2. Known(ps, e.provider)
    BY <1>1, MatchedValid DEF EntryValid
  <1>3. route.from = e.provider
    BY DEF Resolve
  <1>4. ASSUME route.moved PROVE Known(ps, route.provider) /\ e.provider # route.provider
    <2>1. PICK t \in TargetFor(c.semantic, q.net) :
            Moves(c, q, e, BandFor(c, q), t) /\ route.provider = t.provider
      BY <1>4, MovedBy
    <2>2. c.semantic.on /\ t.on /\ \E i \in DOMAIN c.semantic.targets : t = c.semantic.targets[i]
      BY <2>1, TargetListed
    <2>3. TargetValid(ps, c.semantic, t)
      BY <1>1, <2>2 DEF SemanticValid
    <2>4. Known(ps, t.provider)
      BY <2>2, <2>3 DEF TargetValid
    <2>5. e.provider # t.provider
      BY <2>1 DEF Moves
    <2> QED BY <2>1, <2>4, <2>5
  <1>5. ASSUME ~route.moved PROVE route.provider = e.provider
    BY <1>5, StayedPut
  <1> HIDE DEF e, route
  <1>6. Known(ps, route.provider) /\ (route.moved => route.from # route.provider)
    BY <1>2, <1>3, <1>4, <1>5
  <1> QED BY <1>2, <1>3, <1>6 DEF e, route

\* What is left of a chain without one provider.
LEMMA OthersLeft ==
  ASSUME NEW S, NEW chain \in Seq(S), NEW id
  PROVE  /\ Others(chain, id) \in Seq(S)
         /\ Distinct(chain) => Distinct(Others(chain, id))
         /\ \A i \in DOMAIN Others(chain, id) :
              /\ Others(chain, id)[i].provider # id
              /\ \E k \in DOMAIN chain : Others(chain, id)[i] = chain[k]
PROOF
  <1> DEFINE keep == {i \in DOMAIN chain : chain[i].provider # id}
  <1>1. Others(chain, id) = Only(chain, keep)
    BY DEF Others
  <1>2. \A k \in keep : chain[k].provider # id
    OBVIOUS
  <1> HIDE DEF keep
  <1>3. Only(chain, keep) \in Seq(S)
    BY OnlyPlaces
  <1>4. \A i \in DOMAIN Only(chain, keep) :
          \E k \in DOMAIN chain : k \in keep /\ Only(chain, keep)[i] = chain[k]
    BY OnlyKeeps
  <1>5. Distinct(chain) => Distinct(Only(chain, keep))
    BY OnlyKeeps
  <1> QED BY <1>1, <1>2, <1>3, <1>4, <1>5

\* What comes after the head is a chain that is sound for it.
LEMMA CandidatesSound ==
  ASSUME CacheIsDisk, NEW c \in InForce, NEW q
  PROVE  ChainSound(c.providers, Resolve(c, q).provider, Candidates(c, Resolve(c, q)))
PROOF
  <1> DEFINE ps == c.providers
             route == Resolve(c, q)
             head == route.provider
             declared == IF head \in DOMAIN c.chains THEN c.chains[head] ELSE << >>
             others == Others(declared, route.from)
             one == <<Unguarded(route.from)>>
  <1>1. ChainSound(ps, head, declared)
    <2>1. CASE head \in DOMAIN c.chains
      BY <2>1, InForceValid, ParsedChains
    <2>2. CASE head \notin DOMAIN c.chains
      <3>1. declared = << >>
        BY <2>2
      <3>2. << >> \in Seq(Candidate(ps)) /\ DOMAIN << >> = {}
        OBVIOUS
      <3> QED BY <3>1, <3>2 DEF ChainSound, Distinct
    <2> QED BY <2>1, <2>2
  <1>2. route.from \in DOMAIN ps /\ (route.moved => route.from # head)
    BY RouteKnown DEF Known
  <1> HIDE DEF declared, head, ps
  <1>3. CASE ~route.moved
    <2>1. Candidates(c, route) = declared
      BY <1>3 DEF Candidates, declared, head
    <2> QED BY <1>1, <2>1 DEF head, ps
  <1>4. CASE route.moved
    <2>1. Candidates(c, route) = one \o others
      BY <1>4 DEF Candidates, declared, head
    <2> HIDE DEF route
    <2>2. declared \in Seq(Candidate(ps)) /\ Distinct(declared)
      BY <1>1 DEF ChainSound
    <2>3. others \in Seq(Candidate(ps)) /\ Distinct(others)
      BY <2>2, OthersLeft
    <2>4. \A i \in DOMAIN others : others[i].provider # route.from /\ others[i].provider # head
      <3> SUFFICES ASSUME NEW i \in DOMAIN others
                   PROVE  others[i].provider # route.from /\ others[i].provider # head
        OBVIOUS
      <3>1. others[i].provider # route.from /\ \E k \in DOMAIN declared : others[i] = declared[k]
        BY <2>2, OthersLeft
      <3>2. PICK k \in DOMAIN declared : others[i] = declared[k]
        BY <3>1
      <3> QED BY <1>1, <3>1, <3>2 DEF ChainSound
    <2>5. Unguarded(route.from) \in Candidate(ps) /\ Unguarded(route.from).provider = route.from
      BY <1>2 DEF Unguarded, Candidate
    <2> HIDE DEF others
    <2>6. /\ one \o others \in Seq(Candidate(ps))
          /\ DOMAIN (one \o others) = 1 .. Len(others) + 1 /\ Len(others) \in Nat
          /\ DOMAIN others = 1 .. Len(others)
          /\ (one \o others)[1] = Unguarded(route.from)
          /\ \A i \in 2 .. Len(others) + 1 : (one \o others)[i] = others[i - 1]
      BY <2>3, <2>5
    <2> DEFINE all == one \o others
    <2> HIDE DEF all, one
    <2>7. \A i \in DOMAIN all : all[i].provider # head
      <3> SUFFICES ASSUME NEW i \in DOMAIN all PROVE all[i].provider # head
        OBVIOUS
      <3>1. CASE i = 1
        BY <1>2, <1>4, <2>5, <2>6, <3>1 DEF all
      <3>2. CASE i # 1
        <4>1. i \in 2 .. Len(others) + 1 /\ i - 1 \in DOMAIN others
          BY <2>6, <3>2 DEF all
        <4> QED BY <2>4, <2>6, <4>1 DEF all
      <3> QED BY <3>1, <3>2
    <2>8. Distinct(all)
      <3> SUFFICES ASSUME NEW i \in DOMAIN all, NEW j \in 1 .. i - 1
                   PROVE  all[j].provider # all[i].provider
        BY DEF Distinct
      <3>1. i \in 2 .. Len(others) + 1 /\ i - 1 \in DOMAIN others /\ all[i] = others[i - 1]
        BY <2>6 DEF all
      <3>2. CASE j = 1
        BY <2>4, <2>5, <2>6, <3>1, <3>2 DEF all
      <3>3. CASE j # 1
        <4>1. j \in 2 .. Len(others) + 1 /\ j - 1 \in 1 .. (i - 1) - 1
          BY <2>6, <3>1, <3>3
        <4>2. all[j] = others[j - 1]
          BY <2>6, <4>1 DEF all
        <4> QED BY <2>3, <3>1, <4>1, <4>2 DEF Distinct
      <3> QED BY <3>2, <3>3
    <2>9. all \in Seq(Candidate(ps))
      BY <2>6 DEF all
    <2>10. ChainSound(ps, head, all)
      BY <2>7, <2>8, <2>9 DEF ChainSound
    <2> QED BY <2>1, <2>10 DEF all, head, ps, route
  <1> QED BY <1>3, <1>4

\* So is the whole: the head and what comes after it name declared providers, each once.
LEMMA AllSound ==
  ASSUME CacheIsDisk, NEW c \in InForce, NEW q
  PROVE  LET all == AllOf(c, Resolve(c, q)) IN
         /\ all \in Seq(Candidate(c.providers)) /\ Distinct(all)
         /\ 1 \in DOMAIN all /\ all[1] = Unguarded(Resolve(c, q).provider)
         /\ \A i \in DOMAIN all : all[i].provider = Resolve(c, q).provider => i = 1
         /\ Resolve(c, q).moved
              => 2 \in DOMAIN all /\ all[2] = Unguarded(Resolve(c, q).from)
PROOF
  <1> DEFINE ps == c.providers
             route == Resolve(c, q)
             head == route.provider
             rest == Candidates(c, route)
             one == <<Unguarded(head)>>
             all == one \o rest
  <1>1. AllOf(c, route) = all
    BY DEF AllOf
  <1>2. rest \in Seq(Candidate(ps)) /\ Distinct(rest) /\ \A i \in DOMAIN rest : rest[i].provider # head
    BY CandidatesSound DEF ChainSound
  <1>3. Unguarded(head) \in Candidate(ps) /\ Unguarded(head).provider = head
    BY RouteKnown DEF Known, Unguarded, Candidate
  <1>4. route.moved => \E w \in Seq(Candidate(ps)) : rest = <<Unguarded(route.from)>> \o w
    <2> SUFFICES ASSUME route.moved PROVE \E w \in Seq(Candidate(ps)) : rest = <<Unguarded(route.from)>> \o w
      OBVIOUS
    <2> DEFINE declared == IF head \in DOMAIN c.chains THEN c.chains[head] ELSE << >>
    <2>1. rest = <<Unguarded(route.from)>> \o Others(declared, route.from)
      BY DEF Candidates
    <2>2. declared \in Seq(Candidate(ps))
      <3>1. CASE head \in DOMAIN c.chains
        BY <3>1, InForceValid, ParsedChains DEF ChainSound
      <3>2. CASE head \notin DOMAIN c.chains
        BY <3>2
      <3> QED BY <3>1, <3>2
    <2> HIDE DEF declared
    <2>3. Others(declared, route.from) \in Seq(Candidate(ps))
      BY <2>2, OthersLeft
    <2> QED BY <2>1, <2>3
  <1> HIDE DEF rest, head, route, ps
  <1>5. /\ all \in Seq(Candidate(ps))
        /\ DOMAIN all = 1 .. Len(rest) + 1 /\ Len(rest) \in Nat /\ DOMAIN rest = 1 .. Len(rest)
        /\ all[1] = Unguarded(head)
        /\ \A i \in 2 .. Len(rest) + 1 : all[i] = rest[i - 1]
    BY <1>2, <1>3
  <1> HIDE DEF all, one
  <1>6. Distinct(all)
    <2> SUFFICES ASSUME NEW i \in DOMAIN all, NEW j \in 1 .. i - 1
                 PROVE  all[j].provider # all[i].provider
      BY DEF Distinct
    <2>1. i \in 2 .. Len(rest) + 1 /\ i - 1 \in DOMAIN rest /\ all[i] = rest[i - 1]
      BY <1>5
    <2>2. CASE j = 1
      BY <1>2, <1>3, <1>5, <2>1, <2>2
    <2>3. CASE j # 1
      <3>1. j \in 2 .. Len(rest) + 1 /\ j - 1 \in 1 .. (i - 1) - 1
        BY <1>5, <2>1, <2>3
      <3>2. all[j] = rest[j - 1]
        BY <1>5, <3>1
      <3> QED BY <1>2, <2>1, <3>1, <3>2 DEF Distinct
    <2> QED BY <2>2, <2>3
  <1>7. ASSUME NEW i \in DOMAIN all, all[i].provider = head PROVE i = 1
    <2> SUFFICES ASSUME i # 1 PROVE FALSE
      OBVIOUS
    <2>1. i \in 2 .. Len(rest) + 1 /\ i - 1 \in DOMAIN rest
      BY <1>5
    <2> QED BY <1>2, <1>5, <1>7, <2>1
  <1>8. ASSUME route.moved PROVE 2 \in DOMAIN all /\ all[2] = Unguarded(route.from)
    <2>1. PICK w \in Seq(Candidate(ps)) : rest = <<Unguarded(route.from)>> \o w
      BY <1>4, <1>8
    <2>2. Len(rest) = Len(w) + 1 /\ Len(w) \in Nat /\ rest[1] = Unguarded(route.from)
      BY <2>1
    <2>3. 2 \in 2 .. Len(rest) + 1 /\ 2 \in DOMAIN all
      BY <1>5, <2>2
    <2> QED BY <1>5, <2>2, <2>3
  <1>9. 1 \in DOMAIN all
    BY <1>5
  <1> QED BY <1>1, <1>5, <1>6, <1>7, <1>8, <1>9 DEF ps, head, route

\* The bands a provider serves have a lowest one, if there is any.
LEMMA LowestIsServed ==
  ASSUME NEW p, Served(p) # {}
  PROVE  LowestServed(p) \in Served(p)
PROOF
  <1>1. \E b \in Served(p) : \A d \in Served(p) : Rank(b) <= Rank(d)
    <2>1. \A b \in Served(p) : b \in {"small", "medium", "high"}
      BY DEF Served, Band
    <2>2. CASE "small" \in Served(p)
      BY <2>1, <2>2 DEF Rank
    <2>3. CASE "small" \notin Served(p) /\ "medium" \in Served(p)
      BY <2>1, <2>3 DEF Rank
    <2>4. CASE "small" \notin Served(p) /\ "medium" \notin Served(p)
      BY <2>1, <2>4 DEF Rank
    <2> QED BY <2>2, <2>3, <2>4
  <1> QED BY <1>1 DEF LowestServed

\* The model of an enabled provider for any band is one it offers.
LEMMA ServedModel ==
  ASSUME NEW p, ProviderValid(p), p.on
  PROVE  /\ \A b \in Served(p) : p.models[b] # NoModel /\ Offers(p, p.models[b])
         /\ LowestServed(p) \in Served(p)
PROOF
  <1>1. Served(p) # {} /\ \A b \in Served(p) : Offers(p, p.models[b])
    BY DEF ProviderValid
  <1>2. \A b \in Served(p) : p.models[b] # NoModel
    BY DEF Served
  <1> QED BY <1>1, <1>2, LowestIsServed

\* The model of a route is one its provider offers, but for a call that was moved under
\* a profile.
LEMMA RouteModel ==
  ASSUME CacheIsDisk, NEW c \in InForce, NEW q
  PROVE  LET route == Resolve(c, q) IN
         /\ route.model # NoModel
         /\ \/ Offers(c.providers[route.provider], route.model)
            \/ route.profiled /\ route.moved
PROOF
  <1> DEFINE ps == c.providers
             e == Matched(c, q)
             band == BandFor(c, q)
             route == Resolve(c, q)
             p == ps[route.provider]
  <1>1. RoutesValid(ps, c) /\ DefaultsValid(ps, c) /\ \A id \in DOMAIN ps : ProviderValid(ps[id])
    BY InForceValid, ParsedParts
  <1>2. EntryValid(ps, e)
    BY <1>1, MatchedValid
  <1>3. ProviderValid(p) /\ p.on
    BY <1>1, RouteKnown DEF Known
  <1>4. /\ route.profiled = (q.named /\ band \in DOMAIN e.profile)
        /\ route.model = IF q.named /\ band \in DOMAIN e.profile THEN e.profile[band] ELSE ModelOf(c, q, p, band)
    BY DEF Resolve
  <1>5. ~route.moved => route.provider = e.provider
    BY StayedPut
  <1> HIDE DEF route, e, band, ps
  <1>6. CASE q.named /\ band \in DOMAIN e.profile
    <2>1. route.profiled /\ route.model = e.profile[band]
      BY <1>4, <1>6
    <2>2. e.profile[band] # NoModel /\ Offers(ps[e.provider], e.profile[band])
      BY <1>2, <1>6 DEF EntryValid
    <2>3. CASE route.moved
      BY <2>1, <2>2, <2>3 DEF route, ps
    <2>4. CASE ~route.moved
      BY <1>5, <2>1, <2>2, <2>4 DEF route, ps
    <2> QED BY <2>3, <2>4
  <1>7. CASE ~(q.named /\ band \in DOMAIN e.profile)
    <2>1. route.model = ModelOf(c, q, p, band)
      BY <1>4, <1>7
    <2> HIDE DEF p
    <2>2. /\ \A b \in Served(p) : p.models[b] # NoModel /\ Offers(p, p.models[b])
          /\ LowestServed(p) \in Served(p)
      BY <1>3, ServedModel
    <2>3. route.model # NoModel /\ Offers(p, route.model)
      BY <2>1, <2>2 DEF ModelOf
    <2> QED BY <2>3 DEF p, route, ps
  <1> QED BY <1>6, <1>7

\* The chain has the providers of what is left, in that order.
LEMMA ChainIsLeft ==
  ASSUME CacheIsDisk, NEW c \in InForce, NEW q
  PROVE  LET chain == ChainOf(c, q)
             left == Left(c, q)
         IN  /\ left \in Seq(Candidate(c.providers)) /\ DOMAIN chain = DOMAIN left
             /\ DOMAIN chain = 1 .. Len(left)
             /\ \A i \in DOMAIN chain : /\ chain[i] = Hop(c, Resolve(c, q), left[i])
                                      /\ chain[i].provider = left[i].provider
             /\ Distinct(left)
             /\ \A i \in DOMAIN left :
                  \E k \in DOMAIN AllOf(c, Resolve(c, q)) :
                    /\ Eligible4(c, q, AllOf(c, Resolve(c, q))[k])
                    /\ left[i] = AllOf(c, Resolve(c, q))[k] /\ k >= i
PROOF
  <1> DEFINE route == Resolve(c, q)
             all == AllOf(c, route)
             keep == {i \in DOMAIN all : Eligible4(c, q, all[i])}
             left == Left(c, q)
             chain == ChainOf(c, q)
  <1>1. all \in Seq(Candidate(c.providers)) /\ Distinct(all)
    BY AllSound
  <1>2. left = Only(all, keep)
    BY DEF Left
  <1>3. chain = [i \in DOMAIN left |-> Hop(c, route, left[i])]
    BY DEF ChainOf
  <1>4. \A k \in keep : Eligible4(c, q, all[k])
    OBVIOUS
  <1> HIDE DEF all, keep, left, chain, route
  <1>5. left \in Seq(Candidate(c.providers)) /\ Distinct(left)
    BY <1>1, <1>2, OnlyPlaces, OnlyKeeps
  <1>6. \A i \in DOMAIN left : \E k \in DOMAIN all : k \in keep /\ k >= i /\ left[i] = all[k]
    BY <1>1, <1>2, OnlyKeeps
  <1>7. \A i \in DOMAIN left : \E k \in DOMAIN all : Eligible4(c, q, all[k]) /\ left[i] = all[k] /\ k >= i
    BY <1>4, <1>6
  <1>8. DOMAIN chain = DOMAIN left /\ \A i \in DOMAIN chain : chain[i] = Hop(c, route, left[i])
    BY <1>3
  <1>9. \A i \in DOMAIN chain : chain[i].provider = left[i].provider
    BY <1>8 DEF Hop
  <1>10. DOMAIN left = 1 .. Len(left)
    BY <1>5
  <1> QED BY <1>5, <1>7, <1>8, <1>9, <1>10 DEF all, left, chain, route

\* Each hop is enabled, comes once, and has a model of its provider.
LEMMA HopsHold ==
  ASSUME CacheIsDisk, NEW c \in InForce, NEW q, NEW i \in DOMAIN ChainOf(c, q)
  PROVE  LET chain == ChainOf(c, q) IN
         /\ c.providers[chain[i].provider].on
         /\ \A j \in 1 .. i - 1 : chain[j].provider # chain[i].provider
         /\ chain[i].model # NoModel
         /\ \/ Offers(c.providers[chain[i].provider], chain[i].model)
            \/ i = 1 /\ Resolve(c, q).profiled /\ Resolve(c, q).moved
PROOF
  <1> DEFINE route == Resolve(c, q)
             all == AllOf(c, route)
             left == Left(c, q)
             chain == ChainOf(c, q)
             p == c.providers[chain[i].provider]
  <1>1. /\ DOMAIN chain = DOMAIN left /\ DOMAIN left = 1 .. Len(left) /\ Len(left) \in Nat
        /\ Distinct(left)
        /\ \A j \in DOMAIN chain : chain[j].provider = left[j].provider
        /\ chain[i] = Hop(c, route, left[i])
    BY ChainIsLeft
  <1>2. PICK k \in DOMAIN all : Eligible4(c, q, all[k]) /\ left[i] = all[k] /\ k >= i
    BY ChainIsLeft
  <1>3. /\ all \in Seq(Candidate(c.providers))
        /\ \A x \in DOMAIN all : all[x].provider = route.provider => x = 1
    BY AllSound
  <1>4. /\ route.model # NoModel
        /\ Offers(c.providers[route.provider], route.model) \/ (route.profiled /\ route.moved)
    BY RouteModel
  <1>5. \A id \in DOMAIN c.providers : ProviderValid(c.providers[id])
    BY InForceValid, ParsedParts
  <1> HIDE DEF route, all, left, chain
  <1>6. left[i].provider = chain[i].provider /\ left[i].provider \in DOMAIN c.providers
    <2>1. all[k] \in Candidate(c.providers)
      <3>1. DOMAIN all = 1 .. Len(all)
        BY <1>3
      <3> QED BY <1>2, <1>3, <3>1
    <2>2. left[i].provider \in DOMAIN c.providers
      BY <1>2, <2>1 DEF Candidate
    <2> QED BY <1>1, <2>2 DEF chain
  <1>7. p.on
    BY <1>2, <1>6 DEF Eligible4
  <1>8. \A j \in 1 .. i - 1 : chain[j].provider # chain[i].provider
    <2> SUFFICES ASSUME NEW j \in 1 .. i - 1 PROVE chain[j].provider # chain[i].provider
      OBVIOUS
    <2>1. i \in DOMAIN left /\ j \in DOMAIN left
      BY <1>1 DEF chain
    <2> QED BY <1>1, <2>1 DEF Distinct
  <1>9. CASE left[i].provider = route.provider
    <2>1. i = 1
      <3>1. k = 1 /\ i \in 1 .. Len(left)
        BY <1>1, <1>2, <1>3, <1>9 DEF chain
      <3> QED BY <1>1, <1>2, <3>1
    <2>2. chain[i].model = route.model
      BY <1>1, <1>9 DEF Hop
    <2> QED BY <1>4, <1>6, <1>7, <1>8, <1>9, <2>1, <2>2 DEF chain, route
  <1>10. CASE left[i].provider # route.provider
    <2>1. ProviderValid(p)
      BY <1>5, <1>6
    <2>2. chain[i].model = IF route.band \in Served(p) THEN p.models[route.band] ELSE p.models[LowestServed(p)]
      BY <1>1, <1>6, <1>10 DEF Hop
    <2> HIDE DEF p
    <2>3. /\ \A b \in Served(p) : p.models[b] # NoModel /\ Offers(p, p.models[b])
          /\ LowestServed(p) \in Served(p)
      BY <1>7, <2>1, ServedModel
    <2>4. chain[i].model # NoModel /\ Offers(p, chain[i].model)
      BY <2>2, <2>3
    <2> QED BY <1>7, <1>8, <2>4 DEF p, chain
  <1> QED BY <1>9, <1>10

\* A call without tools has its head to go to.
LEMMA HeadThere ==
  ASSUME CacheIsDisk, NEW c \in InForce, NEW q, ~q.tools
  PROVE  ChainOf(c, q) # << >>
PROOF
  <1> DEFINE route == Resolve(c, q)
             all == AllOf(c, route)
             keep == {i \in DOMAIN all : Eligible4(c, q, all[i])}
  <1>1. /\ all \in Seq(Candidate(c.providers))
        /\ 1 \in DOMAIN all /\ all[1] = Unguarded(route.provider)
    BY AllSound
  <1>2. c.providers[route.provider].on
    BY RouteKnown DEF Known
  <1>3. 1 \in keep \cap DOMAIN all
    BY <1>1, <1>2 DEF Eligible4, Unguarded
  <1>4. Left(c, q) = Only(all, keep)
    BY DEF Left
  <1> HIDE DEF all, keep
  <1>5. 1 \in DOMAIN Left(c, q)
    BY <1>1, <1>3, <1>4, OnlyFirst
  <1>6. 1 \in DOMAIN ChainOf(c, q)
    BY <1>5, ChainIsLeft
  <1>7. DOMAIN << >> = {}
    OBVIOUS
  <1> QED BY <1>6, <1>7

\* A moved call's second hop is where it came from, if its first is the target.
LEMMA OriginHolds ==
  ASSUME CacheIsDisk, NEW c \in InForce, NEW q,
         Resolve(c, q).moved, ChainOf(c, q) # << >>,
         ChainOf(c, q)[1].provider = Resolve(c, q).provider,
         Eligible4(c, q, Unguarded(Resolve(c, q).from))
  PROVE  Len(ChainOf(c, q)) > 1 /\ ChainOf(c, q)[2].provider = Resolve(c, q).from
PROOF
  <1> DEFINE route == Resolve(c, q)
             all == AllOf(c, route)
             keep == {i \in DOMAIN all : Eligible4(c, q, all[i])}
             left == Left(c, q)
             chain == ChainOf(c, q)
  <1>1. /\ all \in Seq(Candidate(c.providers))
        /\ \A x \in DOMAIN all : all[x].provider = route.provider => x = 1
        /\ 2 \in DOMAIN all /\ all[2] = Unguarded(route.from)
    BY AllSound
  <1>2. /\ DOMAIN chain = 1 .. Len(left) /\ DOMAIN chain = DOMAIN left
        /\ left \in Seq(Candidate(c.providers))
        /\ \A i \in DOMAIN chain : chain[i].provider = left[i].provider
    BY ChainIsLeft
  <1>3. chain = [i \in 1 .. Len(left) |-> chain[i]]
    BY <1>2 DEF ChainOf
  <1>4. Len(left) \in Nat /\ Len(chain) = Len(left)
    <2> HIDE DEF chain, left
    <2>1. Len(left) \in Nat
      BY <1>2
    <2> QED BY <1>3, <2>1
  <1>5. 1 \in DOMAIN left
    <2>1. CASE Len(left) = 0
      <3>1. DOMAIN chain = {}
        BY <1>2, <2>1
      <3>2. chain = << >>
        BY <1>3, <2>1
      <3> QED BY <3>2
    <2> HIDE DEF chain, left
    <2>2. CASE Len(left) # 0
      BY <1>2, <1>4, <2>2
    <2> QED BY <2>1, <2>2
  <1>6. left[1].provider = route.provider
    BY <1>2, <1>5
  <1>7. PICK k \in DOMAIN all : Eligible4(c, q, all[k]) /\ left[1] = all[k]
    BY <1>5, ChainIsLeft
  <1>8. k = 1
    BY <1>1, <1>6, <1>7
  <1>9. 1 \in keep \cap DOMAIN all /\ 2 \in keep \cap DOMAIN all
    BY <1>1, <1>7, <1>8
  <1>10. left = Only(all, keep)
    BY DEF Left
  <1> HIDE DEF all, keep, left, chain
  <1>11. 2 \in DOMAIN left /\ left[2] = all[2]
    BY <1>1, <1>9, <1>10, OnlyFirst
  <1>12. chain[2].provider = route.from
    BY <1>1, <1>2, <1>11 DEF Unguarded
  <1>13. Len(chain) > 1
    BY <1>2, <1>4, <1>11
  <1> QED BY <1>12, <1>13 DEF chain

\* Whatever pairs are saved: a call is moved only to a target that has a model for its
\* band, in a scope and on a network the target was given for (pickOffloadTarget,
\* resolveRoute).
THEOREM BandsServed == Spec => []BandServed
PROOF
  <1>1. IInv => BandServed
    BY BandHolds DEF IInv, BandServed
  <1> QED BY <1>1, IInvInit, IInvNext, PTL DEF Spec

\* Whatever pairs are saved: a foreground Claude turn that has a route is never sent
\* where its wire does not reach (resolveRoute, fgChatRouteGuard).
THEOREM WireReached == Spec => []ClaudeWire
PROOF
  <1>1. IInv => ClaudeWire
    BY WireHolds DEF IInv, ClaudeWire
  <1> QED BY <1>1, IInvInit, IInvNext, PTL DEF Spec

\* Whatever pairs are saved: what each rule of validation lets through alone, a route
\* meets together. No hop of a chain is off, comes twice or lacks a model of its
\* provider, and a call without tools has a provider to go to (parseRoutingConfig,
\* resolveRoute, buildChain).
THEOREM RoutesHold == Spec => []RoutesServed
PROOF
  <1>1. IInv => HopsServed
    BY HopsHold DEF IInv, HopsServed
  <1>2. IInv => NeverStranded
    BY HeadThere DEF IInv, NeverStranded
  <1>3. IInv => RoutesServed
    BY <1>1, <1>2 DEF RoutesServed
  <1> QED BY <1>3, IInvInit, IInvNext, PTL DEF Spec

\* Whatever pairs are saved: moving a call to a local target costs it neither its way
\* back, nor its band, nor its wire (resolveRoute, buildChain).
THEOREM OffloadsHold == Spec => []OffloadsServed
PROOF
  <1>1. IInv => OriginFirst
    BY OriginHolds DEF IInv, OriginFirst
  <1>2. IInv => BandServed /\ ClaudeWire
    BY BandHolds, WireHolds DEF IInv, BandServed, ClaudeWire
  <1>3. IInv => OffloadsServed
    BY <1>1, <1>2 DEF OffloadsServed
  <1> QED BY <1>3, IInvInit, IInvNext, PTL DEF Spec
=============================================================================
