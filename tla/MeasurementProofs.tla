------------------------- MODULE MeasurementProofs --------------------------
(***************************************************************************)
(* No row that was logged is lost, and no cache split, and none gets       *)
(* another's id, for any calls, windows, faults and rows of an old         *)
(* database; and a row is booked on a span that was open, and a recording  *)
(* can be replayed, for any spans, calls and commands.                     *)
(***************************************************************************)
EXTENDS TokenUsage, Spans, FiniteSetTheorems, WellFoundedInduction, TLAPS

-----------------------------------------------------------------------------
(* Numbers.                                                                *)

\* A finite set of numbers has a least one ...
LEMMA Least ==
  ASSUME NEW S, S \subseteq Nat, IsFiniteSet(S), S # {}
  PROVE  \E x \in S : \A y \in S : x <= y
<1> DEFINE Below(x) == {y \in S : y < x}
           T == {Below(x) : x \in S}
<1>1. IsWellFoundedOn(StrictSubsetOrdering(S), FiniteSubsetsOf(S))
  BY FS_StrictSubsetOrderingWellFounded
<1>2. T \subseteq FiniteSubsetsOf(S) /\ T # {}
  <2>1. ASSUME NEW x \in S PROVE Below(x) \in FiniteSubsetsOf(S)
    <3>1. Below(x) \subseteq S
      OBVIOUS
    <3>2. IsFiniteSet(Below(x))
      BY <3>1, FS_Subset
    <3>3. QED
      BY <3>1, <3>2 DEF FiniteSubsetsOf
  <2>2. QED
    BY <2>1
<1>3. PICK t \in T : \A u \in T : ~ (<<u, t>> \in StrictSubsetOrdering(S))
  <2> HIDE DEF T
  <2> QED BY <1>1, <1>2, WFMin
<1>4. PICK x \in S : t = Below(x)
  BY <1>3
<1>5. ASSUME NEW y \in S, y < x PROVE FALSE
  <2>0. x \in Nat /\ y \in Nat /\ S \subseteq Int
    OBVIOUS
  <2>1. Below(y) \subseteq Below(x) /\ y \in Below(x) /\ y \notin Below(y)
    <3>1. \A z \in S : z < y => z < x
      BY <1>5, <2>0
    <3>2. ~ (y < y)
      BY <2>0
    <3>3. QED
      BY <1>5, <3>1, <3>2
  <2>2. <<Below(y), Below(x)>> \in StrictSubsetOrdering(S)
    BY <2>1 DEF StrictSubsetOrdering
  <2>3. QED
    BY <1>3, <1>4, <2>2
<1>6. \A y \in S : x <= y
  BY <1>5
<1>7. QED
  BY <1>6

\* ... and a greatest one.
LEMMA Greatest ==
  ASSUME NEW S, S \subseteq Nat, IsFiniteSet(S), S # {}
  PROVE  Max(S) \in S /\ \A y \in S : Max(S) >= y
<1> DEFINE Above(x) == {y \in S : y > x}
           T == {Above(x) : x \in S}
<1>1. IsWellFoundedOn(StrictSubsetOrdering(S), FiniteSubsetsOf(S))
  BY FS_StrictSubsetOrderingWellFounded
<1>2. T \subseteq FiniteSubsetsOf(S) /\ T # {}
  <2>1. ASSUME NEW x \in S PROVE Above(x) \in FiniteSubsetsOf(S)
    <3>1. Above(x) \subseteq S
      OBVIOUS
    <3>2. IsFiniteSet(Above(x))
      BY <3>1, FS_Subset
    <3>3. QED
      BY <3>1, <3>2 DEF FiniteSubsetsOf
  <2>2. QED
    BY <2>1
<1>3. PICK t \in T : \A u \in T : ~ (<<u, t>> \in StrictSubsetOrdering(S))
  <2> HIDE DEF T
  <2> QED BY <1>1, <1>2, WFMin
<1>4. PICK x \in S : t = Above(x)
  BY <1>3
<1>5. ASSUME NEW y \in S, y > x PROVE FALSE
  <2>0. x \in Nat /\ y \in Nat /\ S \subseteq Int
    OBVIOUS
  <2>1. Above(y) \subseteq Above(x) /\ y \in Above(x) /\ y \notin Above(y)
    <3>1. \A z \in S : z > y => z > x
      BY <1>5, <2>0
    <3>2. ~ (y > y)
      BY <2>0
    <3>3. QED
      BY <1>5, <3>1, <3>2
  <2>2. <<Above(y), Above(x)>> \in StrictSubsetOrdering(S)
    BY <2>1 DEF StrictSubsetOrdering
  <2>3. QED
    BY <1>3, <1>4, <2>2
<1>6. \A y \in S : x >= y
  BY <1>5
<1>7. QED
  BY <1>6 DEF Max

\* Numbers below a bound are finitely many.
LEMMA BoundedFinite ==
  ASSUME NEW S, S \subseteq Nat, NEW b \in Nat, \A x \in S : x <= b
  PROVE  IsFiniteSet(S)
<1>1. IsFiniteSet(0 .. b) /\ S \subseteq 0 .. b
  BY FS_Interval
<1>2. QED
  BY <1>1, FS_Subset

-----------------------------------------------------------------------------
(* Rows.                                                                   *)

Bounded(rs) == \E b \in Nat : \A r \in rs : r.id <= b

\* The id after the greatest of bounded rows is a number.
LEMMA NextIdTyped ==
  ASSUME NEW rs, rs \subseteq Row, Bounded(rs), NEW h
  PROVE  NextId(rs, h) \in Nat
<1> DEFINE ids == {r.id : r \in {x \in rs : x.hash = h}}
<1>1. CASE \E r \in rs : r.hash = h
  <2>1. ids \subseteq Nat /\ ids # {}
    BY <1>1 DEF Row
  <2>2. PICK b \in Nat : \A x \in ids : x <= b
    BY DEF Bounded
  <2>3. IsFiniteSet(ids)
    BY <2>1, <2>2, BoundedFinite
  <2>4. Max(ids) \in ids
    BY <2>1, <2>3, Greatest
  <2>5. NextId(rs, h) = Max(ids) + 1
    BY <1>1 DEF NextId
  <2>6. Max(ids) \in Nat
    BY <2>1, <2>4
  <2>7. QED
    BY <2>5, <2>6
<1>2. CASE ~ \E r \in rs : r.hash = h
  BY <1>2 DEF NextId
<1>3. QED
  BY <1>1, <1>2

\* Finitely many rows are bounded.
LEMMA FiniteBounded ==
  ASSUME NEW rs, rs \subseteq Row, IsFiniteSet(rs)
  PROVE  Bounded(rs)
<1> DEFINE ids == {r.id : r \in rs}
           f == [r \in rs |-> r.id]
<1>1. f \in Surjection(rs, ids)
  BY DEF Surjection
<1>2. IsFiniteSet(ids)
  BY <1>1, FS_Surjection
<1>3. ids \subseteq Nat
  BY DEF Row
<1>4. CASE rs = {}
  BY <1>4 DEF Bounded
<1>5. CASE rs # {}
  <2>1. ids # {}
    BY <1>5
  <2>2. Max(ids) \in Nat /\ \A y \in ids : Max(ids) >= y
    BY <1>2, <1>3, <2>1, Greatest
  <2>3. \A r \in rs : r.id <= Max(ids)
    BY <1>3, <2>2
  <2>4. QED
    BY <2>2, <2>3 DEF Bounded
<1>6. QED
  BY <1>4, <1>5

\* So are the rows of two bounded sets.
LEMMA BoundedUnion ==
  ASSUME NEW A, NEW B, \A r \in A \cup B : r.id \in Nat, Bounded(A), Bounded(B)
  PROVE  Bounded(A \cup B)
<1>1. PICK a \in Nat : \A r \in A : r.id <= a
  BY DEF Bounded
<1>2. PICK b \in Nat : \A r \in B : r.id <= b
  BY DEF Bounded
<1>3. \A r \in A \cup B : r.id <= a + b
  <2>1. ASSUME NEW r \in A PROVE r.id <= a + b
    BY <1>1
  <2>2. ASSUME NEW r \in B PROVE r.id <= a + b
    BY <1>2
  <2>3. QED
    BY <2>1, <2>2
<1>4. QED
  BY <1>3 DEF Bounded

-----------------------------------------------------------------------------
(* The invariant.                                                          *)

Line == [id : Nat, split : BOOLEAN, of : Call \cup {NoReq}]

RTypes ==
  /\ rows \subseteq Row /\ Bounded(rows)
  /\ seq \in Nat /\ clock \in Nat /\ logged \subseteq Call
  /\ files \in [Win -> SUBSET Line]
  /\ \A w \in Win : files[w] # Torn => \A f \in files[w] : f.of \in Call

\* A call is being logged only by a proxy that is up.
Logging == log = NoLog \/ (log \in [call : Call, id : Nat, tries : Nat] /\ proxy = "up")

\* The lines of all files are bounded.
Lines == UNION {files[w] : w \in Win}

\* A row with a request is the row of its call.
Genuine == \A r \in rows : r.req # NoReq => r.req = Req[r.of] /\ r.hash = Hash[r.of]

\* Between the two steps of the repair the earliest of the duplicates has the split.
Repaired ==
  proxy = "collapse" =>
    \A r, x \in rows : Survivor(r) /\ x \in Twins(r) /\ x.split => r.split

RInv == RTypes /\ Logging /\ Bounded(Lines) /\ Genuine /\ Repaired /\ NoRowLost /\ CacheKept

\* The call's row, or the row of its request.
For(r, c) == r.of = c \/ (Req[c] # NoReq /\ Same(r, c))

\* What the rows owe the calls that were logged, in one formula.
LEMMA KeptMeans ==
  RowsKept <=>
    /\ \A c \in logged : \E r \in rows : For(r, c)
    /\ \A c \in logged : c \in Split => \E r \in rows : For(r, c) /\ r.split
BY DEF RowsKept, NoRowLost, CacheKept, For

\* Rows that are each still there, or replaced by a row for the same calls that
\* carries at least its split, still say all they said.
LEMMA StillKept ==
  ASSUME RowsKept, NEW D \in SUBSET Call, logged' = logged \cup D,
         \A r \in rows : \E x \in rows' :
           (\A c \in logged : For(r, c) => For(x, c)) /\ (r.split => x.split),
         \A c \in D : \E x \in rows' : For(x, c) /\ (c \in Split => x.split)
  PROVE  RowsKept'
<1>1. ASSUME NEW c \in logged PROVE \E x \in rows' : For(x, c)
  BY <1>1, KeptMeans
<1>2. ASSUME NEW c \in logged, c \in Split PROVE \E x \in rows' : For(x, c) /\ x.split
  BY <1>2, KeptMeans
<1>3. \A c \in logged' : \E x \in rows' : For(x, c)
  BY <1>1
<1>4. \A c \in logged' : c \in Split => \E x \in rows' : For(x, c) /\ x.split
  BY <1>2
<1>5. QED
  BY <1>3, <1>4 DEF RowsKept, NoRowLost, CacheKept, For, Same

-----------------------------------------------------------------------------
(* Writing rows.                                                           *)

Enrich(r, c) == IF Same(r, c) THEN [r EXCEPT !.split = @ \/ c \in Split] ELSE r

\* A row that is enriched is the same row with, perhaps, a split.
LEMMA EnrichTyped ==
  ASSUME NEW r \in Row, NEW c \in Call
  PROVE  /\ Enrich(r, c) \in Row
         /\ Enrich(r, c).hash = r.hash /\ Enrich(r, c).id = r.id /\ Enrich(r, c).req = r.req
         /\ Enrich(r, c).of = r.of /\ Enrich(r, c).win = r.win
         /\ Enrich(r, c).split <=> (r.split \/ (Same(r, c) /\ c \in Split))
<1>1. CASE Same(r, c)
  <2>1. Enrich(r, c) = [r EXCEPT !.split = (r.split \/ c \in Split)]
    BY <1>1 DEF Enrich
  <2>2. (r.split \/ c \in Split) \in BOOLEAN
    OBVIOUS
  <2>3. QED
    BY <1>1, <2>1, <2>2 DEF Row
<1>2. CASE ~Same(r, c)
  BY <1>2 DEF Enrich
<1>3. QED
  BY <1>1, <1>2

\* The row of a call.
LEMMA RowOfTyped ==
  ASSUME RTypes, NEW c \in Call, NEW id \in Nat
  PROVE  /\ RowOf(c, id) \in Row /\ RowOf(c, id).id = id
         /\ RowOf(c, id).of = c /\ RowOf(c, id).hash = Hash[c] /\ RowOf(c, id).req = Req[c]
         /\ RowOf(c, id).split <=> c \in Split
<1>1. (c \in Split) \in BOOLEAN
  OBVIOUS
<1>2. Hash[c] \in {"machine", "adapter"} /\ Req[c] \in Requests /\ clock \in Nat
  BY RowsAssumption DEF RTypes, Requests
<1>3. RowOf(c, id) \in Row
  BY <1>1, <1>2 DEF RowOf, Row
<1>4. /\ RowOf(c, id).id = id /\ RowOf(c, id).of = c
      /\ RowOf(c, id).hash = Hash[c] /\ RowOf(c, id).req = Req[c]
  BY DEF RowOf
<1>5. RowOf(c, id).split <=> c \in Split
  BY DEF RowOf
<1>6. QED
  BY <1>3, <1>4, <1>5

\* A duplicate enriches the row that is there: nothing is lost, and its call is taken
\* care of.
LEMMA EnrichKeeps ==
  ASSUME RTypes, Genuine, Repaired, RowsKept, NEW c \in Call, Dup(c),
         rows' = Enriched(c), logged' = logged \cup {c}, proxy' = proxy
  PROVE  rows' \subseteq Row /\ Bounded(rows') /\ Genuine' /\ Repaired' /\ RowsKept'
<1>1. rows' = {Enrich(r, c) : r \in rows}
  BY DEF Enriched, Enrich
<1>2. \A r \in rows : r \in Row
  BY DEF RTypes
<1>3. rows' \subseteq Row
  BY <1>1, <1>2, EnrichTyped
<1>4. Bounded(rows')
  BY <1>1, <1>2, EnrichTyped DEF RTypes, Bounded
<1>5. Genuine'
  BY <1>1, <1>2, EnrichTyped DEF Genuine
<1>6. Repaired'
  <2> SUFFICES ASSUME proxy = "collapse", NEW r1 \in rows', NEW x1 \in rows',
                      Survivor(r1)', x1 \in Twins(r1)', x1.split
               PROVE  r1.split
    BY DEF Repaired
  <2>1. PICK r \in rows : r1 = Enrich(r, c)
    BY <1>1
  <2>2. PICK x \in rows : x1 = Enrich(x, c)
    BY <1>1
  <2>3. x \in Twins(r)
    BY <1>2, <2>1, <2>2, EnrichTyped DEF Twins
  <2>4. ASSUME NEW y \in Twins(r) PROVE r.id <= y.id
    <3>1. y \in rows /\ Enrich(y, c) \in rows'
      BY <1>1 DEF Twins
    <3>2. Enrich(y, c) \in Twins(r1)'
      BY <1>2, <2>1, <3>1, EnrichTyped DEF Twins
    <3>3. QED
      BY <1>2, <2>1, <3>1, <3>2, EnrichTyped DEF Survivor
  <2>5. Survivor(r)
    BY <2>4 DEF Survivor
  <2>6. CASE x.split
    <3>1. r.split
      BY <2>3, <2>5, <2>6 DEF Repaired
    <3>2. QED
      BY <1>2, <2>1, <3>1, EnrichTyped
  <2>7. CASE ~x.split
    <3>1. Same(x, c) /\ c \in Split
      BY <1>2, <2>2, <2>7, EnrichTyped
    <3>2. Same(r, c)
      BY <2>3, <3>1 DEF Twins, Same
    <3>3. QED
      BY <1>2, <2>1, <3>1, <3>2, EnrichTyped
  <2>8. QED
    BY <2>6, <2>7
<1>7. RowsKept'
  <2>1. ASSUME NEW r \in rows
        PROVE  \E x \in rows' : (\A d \in logged : For(r, d) => For(x, d)) /\ (r.split => x.split)
    <3>1. Enrich(r, c) \in rows' /\ r \in Row
      BY <1>1, <1>2
    <3>2. \A d \in logged : For(r, d) => For(Enrich(r, c), d)
      BY <3>1, EnrichTyped DEF For, Same
    <3>3. r.split => Enrich(r, c).split
      BY <3>1, EnrichTyped
    <3>4. QED
      BY <3>1, <3>2, <3>3
  <2>2. \E x \in rows' : For(x, c) /\ (c \in Split => x.split)
    <3>1. PICK r \in rows : Same(r, c) /\ Req[c] # NoReq
      BY DEF Dup
    <3>2. Enrich(r, c) \in rows' /\ r \in Row
      BY <1>1, <1>2
    <3>3. For(Enrich(r, c), c)
      BY <3>1, <3>2, EnrichTyped DEF For, Same
    <3>4. c \in Split => Enrich(r, c).split
      BY <3>1, <3>2, EnrichTyped
    <3>5. QED
      BY <3>2, <3>3, <3>4
  <2>3. {c} \in SUBSET Call /\ \A d \in {c} : \E x \in rows' : For(x, d) /\ (d \in Split => x.split)
    BY <2>2
  <2>4. QED
    BY <2>1, <2>3, StillKept
<1>8. QED
  BY <1>3, <1>4, <1>5, <1>6, <1>7

\* A row that is written for a call, which during the repair has no duplicate.
LEMMA InsertKeeps ==
  ASSUME RTypes, Genuine, Repaired, RowsKept, NEW c \in Call, NEW id \in Nat,
         proxy = "collapse" => ~Dup(c),
         rows' = rows \cup {RowOf(c, id)}, logged' = logged \cup {c}, proxy' = proxy
  PROVE  rows' \subseteq Row /\ Bounded(rows') /\ Genuine' /\ Repaired' /\ RowsKept'
<1> DEFINE n == RowOf(c, id)
<1>1. n \in Row /\ n.id = id /\ n.of = c /\ n.hash = Hash[c] /\ n.req = Req[c]
  BY RowOfTyped
<1>2. n.split <=> c \in Split
  BY RowOfTyped
<1> HIDE DEF n
<1>3. rows' = rows \cup {n}
  BY DEF n
<1>4. rows' \subseteq Row
  BY <1>1, <1>3 DEF RTypes
<1>5. Bounded(rows')
  <2>1. Bounded({n})
    BY <1>1 DEF Bounded
  <2>2. \A r \in rows \cup {n} : r.id \in Nat
    BY <1>1 DEF RTypes, Row
  <2>3. QED
    BY <1>3, <2>1, <2>2, BoundedUnion DEF RTypes
<1>6. Genuine'
  BY <1>1, <1>3 DEF Genuine
<1>7. Repaired'
  <2> SUFFICES ASSUME proxy = "collapse", NEW r \in rows', NEW x \in rows',
                      Survivor(r)', x \in Twins(r)', x.split
               PROVE  r.split
    BY DEF Repaired
  <2>1. ASSUME NEW y \in rows, y.hash = n.hash, y.req = n.req, n.req # NoReq PROVE FALSE
    BY <1>1, <2>1 DEF Dup, Same
  <2>2. CASE r \in rows /\ x \in rows
    <3>1. x \in Twins(r)
      BY <2>2 DEF Twins
    <3>2. Survivor(r)
      BY <1>3 DEF Survivor, Twins
    <3>3. QED
      BY <2>2, <3>1, <3>2 DEF Repaired
  <2>3. CASE r = n /\ x = n
    BY <2>3
  <2>4. CASE r = n /\ x \in rows
    BY <2>1, <2>4 DEF Twins
  <2>5. CASE r \in rows /\ x = n
    BY <2>1, <2>5 DEF Twins
  <2>6. QED
    BY <1>3, <2>2, <2>3, <2>4, <2>5
<1>8. RowsKept'
  <2>1. \A r \in rows : \E x \in rows' :
          (\A d \in logged : For(r, d) => For(x, d)) /\ (r.split => x.split)
    BY <1>3
  <2>2. n \in rows' /\ For(n, c) /\ (c \in Split => n.split)
    BY <1>1, <1>2, <1>3 DEF For
  <2>3. {c} \in SUBSET Call /\ \A d \in {c} : \E x \in rows' : For(x, d) /\ (d \in Split => x.split)
    BY <2>2
  <2>4. QED
    BY <2>1, <2>3, StillKept
<1>9. QED
  BY <1>4, <1>5, <1>6, <1>7, <1>8

\* Rows that only grow in number.
LEMMA GrowKeeps ==
  ASSUME RowsKept, rows \subseteq rows', logged' = logged
  PROVE  RowsKept'
<1>1. \A r \in rows : \E x \in rows' :
        (\A d \in logged : For(r, d) => For(x, d)) /\ (r.split => x.split)
  OBVIOUS
<1>2. {} \in SUBSET Call /\ logged' = logged \cup {}
      /\ \A c \in {} : \E x \in rows' : For(x, c) /\ (c \in Split => x.split)
  OBVIOUS
<1>3. QED
  BY <1>1, <1>2, StillKept

-----------------------------------------------------------------------------
(* The start.                                                              *)

Fills(r) == IF Survivor(r) THEN Filled(r) ELSE r

\* A row that is filled is the same row with, perhaps, a split.
LEMMA FillsTyped ==
  ASSUME NEW r \in Row
  PROVE  /\ Fills(r) \in Row
         /\ Fills(r).hash = r.hash /\ Fills(r).id = r.id /\ Fills(r).req = r.req
         /\ Fills(r).of = r.of /\ Fills(r).win = r.win
         /\ Fills(r).split <=> (r.split \/ (Survivor(r) /\ \E x \in Twins(r) : x.split))
<1>1. CASE Survivor(r)
  <2> DEFINE s == r.split \/ \E x \in Twins(r) : x.split
  <2>1. s \in BOOLEAN
    OBVIOUS
  <2>2. Fills(r) = [r EXCEPT !.split = s]
    BY <1>1 DEF Fills, Filled
  <2> HIDE DEF s
  <2>3. Fills(r) \in Row /\ Fills(r).split = s
        /\ Fills(r).hash = r.hash /\ Fills(r).id = r.id /\ Fills(r).req = r.req
        /\ Fills(r).of = r.of /\ Fills(r).win = r.win
    BY <2>1, <2>2 DEF Row
  <2>4. QED
    BY <1>1, <2>3 DEF s
<1>2. CASE ~Survivor(r)
  BY <1>2 DEF Fills
<1>3. QED
  BY <1>1, <1>2

\* The first step of the repair gives the earliest of the duplicates the split, and takes
\* nothing from any row.
LEMMA FillKeeps ==
  ASSUME RInv, Fill
  PROVE  rows' \subseteq Row /\ Bounded(rows') /\ Genuine' /\ Repaired' /\ RowsKept'
<1>1. rows' = {Fills(r) : r \in rows}
  BY DEF Fill, Fills
<1>2. \A r \in rows : r \in Row
  BY DEF RInv, RTypes
<1>3. rows' \subseteq Row
  BY <1>1, <1>2, FillsTyped
<1>4. Bounded(rows')
  BY <1>1, <1>2, FillsTyped DEF RInv, RTypes, Bounded
<1>5. Genuine'
  BY <1>1, <1>2, FillsTyped DEF RInv, Genuine
<1>6. Repaired'
  <2> SUFFICES ASSUME NEW r1 \in rows', NEW x1 \in rows',
                      Survivor(r1)', x1 \in Twins(r1)', x1.split
               PROVE  r1.split
    BY DEF Repaired
  <2>1. PICK r \in rows : r1 = Fills(r)
    BY <1>1
  <2>2. PICK x \in rows : x1 = Fills(x)
    BY <1>1
  <2>3. x \in Twins(r) /\ Twins(x) = Twins(r)
    BY <1>2, <2>1, <2>2, FillsTyped DEF Twins
  <2>4. ASSUME NEW y \in Twins(r) PROVE r.id <= y.id
    <3>1. y \in rows /\ Fills(y) \in rows'
      BY <1>1 DEF Twins
    <3>2. Fills(y) \in Twins(r1)'
      BY <1>2, <2>1, <3>1, FillsTyped DEF Twins
    <3>3. QED
      BY <1>2, <2>1, <3>1, <3>2, FillsTyped DEF Survivor
  <2>5. Survivor(r)
    BY <2>4 DEF Survivor
  <2>6. \E y \in Twins(r) : y.split
    BY <1>2, <2>2, <2>3, FillsTyped
  <2>7. QED
    BY <1>2, <2>1, <2>5, <2>6, FillsTyped
<1>7. RowsKept'
  <2>1. ASSUME NEW r \in rows
        PROVE  \E x \in rows' : (\A d \in logged : For(r, d) => For(x, d)) /\ (r.split => x.split)
    <3>1. Fills(r) \in rows' /\ r \in Row
      BY <1>1, <1>2
    <3>2. \A d \in logged : For(r, d) => For(Fills(r), d)
      BY <3>1, FillsTyped DEF For, Same
    <3>3. r.split => Fills(r).split
      BY <3>1, FillsTyped
    <3>4. QED
      BY <3>1, <3>2, <3>3
  <2>2. {} \in SUBSET Call /\ logged' = logged \cup {}
        /\ \A c \in {} : \E x \in rows' : For(x, c) /\ (c \in Split => x.split)
    BY DEF Fill
  <2>3. RowsKept
    BY DEF RInv, RowsKept
  <2>4. QED
    BY <2>1, <2>2, <2>3, StillKept
<1>8. QED
  BY <1>3, <1>4, <1>5, <1>6, <1>7

\* Of duplicates one is the earliest.
LEMMA Earliest ==
  ASSUME RTypes, NEW r \in rows, r.req # NoReq
  PROVE  \E x \in Twins(r) : Survivor(x)
<1> DEFINE ids == {x.id : x \in Twins(r)}
<1>1. r \in Twins(r) /\ Twins(r) \subseteq rows
  BY DEF Twins
<1>2. ids \subseteq Nat /\ ids # {}
  BY <1>1 DEF RTypes, Row
<1>3. PICK b \in Nat : \A i \in ids : i <= b
  BY <1>1 DEF RTypes, Bounded
<1>4. IsFiniteSet(ids)
  BY <1>2, <1>3, BoundedFinite
<1>5. PICK i \in ids : \A j \in ids : i <= j
  BY <1>2, <1>4, Least
<1>6. PICK x \in Twins(r) : x.id = i
  OBVIOUS
<1>7. Twins(x) = Twins(r)
  BY <1>6 DEF Twins
<1>8. \A y \in Twins(x) : x.id <= y.id
  BY <1>5, <1>6, <1>7
<1>9. QED
  BY <1>8 DEF Survivor

\* The second step deletes a row only when the earliest of its request stays, which by
\* then has the split.
LEMMA CollapseKeeps ==
  ASSUME RInv, Collapse
  PROVE  rows' \subseteq Row /\ Bounded(rows') /\ Genuine' /\ Repaired' /\ RowsKept'
<1>1. rows' = {r \in rows : r.req = NoReq \/ Survivor(r)} /\ proxy = "collapse"
      /\ proxy' = "index" /\ logged' = logged
  BY DEF Collapse
<1>2. rows' \subseteq Row /\ Bounded(rows')
  BY <1>1 DEF RInv, RTypes, Bounded
<1>3. Genuine'
  BY <1>1 DEF RInv, Genuine
<1>4. Repaired'
  BY <1>1 DEF Repaired
<1>5. RowsKept'
  <2>1. ASSUME NEW r \in rows
        PROVE  \E x \in rows' : (\A d \in logged : For(r, d) => For(x, d)) /\ (r.split => x.split)
    <3>1. CASE r \in rows'
      BY <3>1
    <3>2. CASE r \notin rows'
      <4>1. r.req # NoReq
        BY <1>1, <3>2
      <4>2. PICK x \in Twins(r) : Survivor(x)
        BY <4>1, Earliest DEF RInv
      <4>3. x \in rows' /\ x.hash = r.hash /\ x.req = r.req /\ r \in Twins(x)
        BY <1>1, <4>2 DEF Twins
      <4>4. r.split => x.split
        BY <1>1, <4>2, <4>3 DEF RInv, Repaired
      <4>5. r.req = Req[r.of] /\ r.hash = Hash[r.of]
        BY <4>1 DEF RInv, Genuine
      <4>6. \A d \in logged : For(r, d) => For(x, d)
        BY <4>1, <4>3, <4>5 DEF For, Same
      <4>7. QED
        BY <4>3, <4>4, <4>6
    <3>3. QED
      BY <3>1, <3>2
  <2>2. {} \in SUBSET Call /\ logged' = logged \cup {}
        /\ \A c \in {} : \E x \in rows' : For(x, c) /\ (c \in Split => x.split)
    BY <1>1
  <2>3. RowsKept
    BY DEF RInv, RowsKept
  <2>4. QED
    BY <2>1, <2>2, <2>3, StillKept
<1>6. QED
  BY <1>2, <1>3, <1>4, <1>5

\* A row that is read back is a line of a file that parses, ...
LEMMA ImportedOf ==
  ASSUME NEW r \in Imported
  PROVE  \E w \in Win : \E f \in files[w] : files[w] # Torn /\
           r = [hash |-> "machine", id |-> f.id, req |-> NoReq, split |-> f.split, win |-> w, of |-> f.of]
<1>1. PICK w \in Win : r \in {[hash |-> "machine", id |-> f.id, req |-> NoReq, split |-> f.split, win |-> w, of |-> f.of] :
          f \in IF files[w] = Torn THEN {} ELSE files[w]}
  BY DEF Imported
<1>2. QED
  BY <1>1

\* ... and each of those is read back.
LEMMA LineImported ==
  ASSUME NEW w \in Win, NEW f \in files[w], files[w] # Torn
  PROVE  [hash |-> "machine", id |-> f.id, req |-> NoReq, split |-> f.split, win |-> w, of |-> f.of]
           \in Imported
BY DEF Imported

\* The lines that are read back make rows.
LEMMA ImportedTyped ==
  ASSUME RInv
  PROVE  Imported \subseteq Row /\ Bounded(Imported) /\ \A r \in Imported : r.req = NoReq
<1>1. ASSUME NEW r \in Imported
      PROVE  \E w \in Win : \E f \in files[w] : files[w] # Torn /\
               r = [hash |-> "machine", id |-> f.id, req |-> NoReq, split |-> f.split, win |-> w, of |-> f.of]
  BY ImportedOf
<1>2. ASSUME NEW w \in Win, NEW f \in files[w], files[w] # Torn
      PROVE  f.id \in Nat /\ f.split \in BOOLEAN /\ f.of \in Call /\ w \in Nat /\ f \in Lines
  BY <1>2, RowsAssumption DEF RInv, RTypes, Line, Lines, Win
<1>3. Imported \subseteq Row
  <2>1. SUFFICES ASSUME NEW r \in Imported PROVE r \in Row
    OBVIOUS
  <2>2. PICK w \in Win : \E f \in files[w] : files[w] # Torn /\
               r = [hash |-> "machine", id |-> f.id, req |-> NoReq, split |-> f.split, win |-> w, of |-> f.of]
    BY <1>1
  <2>3. PICK f \in files[w] : files[w] # Torn /\
               r = [hash |-> "machine", id |-> f.id, req |-> NoReq, split |-> f.split, win |-> w, of |-> f.of]
    BY <2>2
  <2>4. QED
    BY <1>2, <2>3 DEF Row, Requests
<1>4. PICK b \in Nat : \A f \in Lines : f.id <= b
  BY DEF RInv, Bounded
<1>5. \A r \in Imported : r.id <= b /\ r.req = NoReq
  BY <1>1, <1>2, <1>4
<1>6. QED
  BY <1>3, <1>4, <1>5 DEF Bounded

\* The start ends with the rows of the database and those of the files.
LEMMA HydrateKeeps ==
  ASSUME RInv, Hydrate
  PROVE  RInv'
<1>1. rows' = Hydrated /\ seq' = NextId(Hydrated, "machine") /\ proxy' = "up"
      /\ UNCHANGED <<db, log, logged, clock, files>>
  BY DEF Hydrate
<1>2. Hydrated \subseteq Row /\ rows \subseteq Hydrated /\ \A r \in Hydrated : r \in rows \/ r.req = NoReq
  BY ImportedTyped DEF Hydrated, RInv, RTypes
<1>3. Bounded(Hydrated)
  <2> DEFINE new == {r \in Imported : ~Keyed(rows, r.hash, r.id)}
  <2>1. Bounded(new)
    BY ImportedTyped DEF Bounded
  <2>2. \A r \in rows \cup new : r.id \in Nat
    BY ImportedTyped DEF RInv, RTypes, Row
  <2>3. QED
    BY <2>1, <2>2, BoundedUnion DEF Hydrated, RInv, RTypes
<1>4. seq' \in Nat
  BY <1>1, <1>2, <1>3, NextIdTyped
<1>5. RTypes'
  BY <1>1, <1>2, <1>3, <1>4 DEF RInv, RTypes
<1>6. Logging' /\ Bounded(Lines)' /\ Repaired'
  BY <1>1 DEF RInv, Logging, Repaired, Lines, Bounded
<1>7. Genuine'
  BY <1>1, <1>2 DEF RInv, Genuine
<1>8. RowsKept'
  BY <1>1, <1>2, GrowKeeps DEF RInv, RowsKept
<1>9. QED
  BY <1>5, <1>6, <1>7, <1>8 DEF RInv, RowsKept

-----------------------------------------------------------------------------
(* The steps.                                                              *)

\* A step of the rows.
LEMMA WriteKeeps ==
  ASSUME RInv, rows' \subseteq Row, Bounded(rows'), Genuine', Repaired', RowsKept',
         Logging', seq' \in Nat, logged' \subseteq Call, UNCHANGED <<clock, files>>
  PROVE  RInv'
BY DEF RInv, RTypes, Lines, Bounded, RowsKept

\* A step that leaves the rows and what was logged.
LEMMA RestKeeps ==
  ASSUME RInv, UNCHANGED <<rows, logged>>, proxy' = "collapse" => proxy = "collapse",
         Logging', seq' \in Nat, clock' \in Nat, files' \in [Win -> SUBSET Line],
         \A w \in Win : files'[w] # Torn => \A f \in files'[w] : f.of \in Call,
         Bounded(Lines')
  PROVE  RInv'
<1>1. RTypes' /\ Genuine' /\ Bounded(Lines)'
  BY DEF RInv, RTypes, Genuine, Bounded
<1>2. Repaired'
  BY DEF RInv, Repaired, Survivor, Twins
<1>3. NoRowLost' /\ CacheKept'
  BY DEF RInv, NoRowLost, CacheKept, Same
<1>4. QED
  BY <1>1, <1>2, <1>3 DEF RInv

\* The files after an export are files of lines.
LEMMA ExportTyped ==
  ASSUME RInv, NEW w
  PROVE  /\ Export(w) \in [Win -> SUBSET Line]
         /\ \A v \in Win : Export(w)[v] # Torn => \A f \in Export(w)[v] : f.of \in Call
         /\ Bounded(UNION {Export(w)[v] : v \in Win})
<1> DEFINE mine == {Exported(r) : r \in {x \in rows : x.hash = "machine" /\ x.win = w}}
           kept == IF files[w] = Torn THEN {} ELSE {f \in files[w] : \A m \in mine : m.id # f.id}
<1>1. Export(w) = [files EXCEPT ![w] = kept \cup mine]
  BY DEF Export
<1>2. ASSUME NEW r \in rows
      PROVE  Exported(r) \in Line /\ Exported(r).id = r.id /\ Exported(r).of \in Call
  <2>1. r.id \in Nat /\ r.split \in BOOLEAN /\ r.of \in Call
    BY DEF RInv, RTypes, Row
  <2>2. QED
    BY <2>1 DEF Exported, Line
<1>3. mine \subseteq Line /\ \A f \in mine : f.of \in Call
  BY <1>2
<1>4. Bounded(mine)
  BY <1>2 DEF RInv, RTypes, Bounded
<1>5. kept \subseteq files[w] /\ (w \in Win => \A f \in kept : f.of \in Call)
  BY DEF RInv, RTypes
<1> HIDE DEF mine, kept
<1>6. files \in [Win -> SUBSET Line]
  BY DEF RInv, RTypes
<1>7. ASSUME NEW v \in Win
      PROVE  /\ Export(w)[v] \subseteq Line /\ Export(w)[v] \subseteq Lines \cup mine
             /\ Export(w)[v] # Torn => \A f \in Export(w)[v] : f.of \in Call
  <2>1. CASE v = w
    <3>1. Export(w)[v] = kept \cup mine
      BY <1>1, <1>6, <2>1
    <3>2. kept \subseteq Lines
      BY <1>5, <2>1 DEF Lines
    <3>3. QED
      BY <1>3, <1>5, <1>6, <2>1, <3>1, <3>2
  <2>2. CASE v # w
    <3>1. Export(w)[v] = files[v]
      BY <1>1, <1>6, <2>2
    <3>2. QED
      BY <1>6, <3>1 DEF RInv, RTypes, Lines
  <2>3. QED
    BY <2>1, <2>2
<1>8. Export(w) \in [Win -> SUBSET Line]
  BY <1>1, <1>6, <1>7
<1>9. \A f \in Lines \cup mine : f.id \in Nat
  BY <1>3, <1>6 DEF Lines, Line
<1>10. Bounded(Lines \cup mine)
  BY <1>4, <1>9, BoundedUnion DEF RInv
<1>11. Bounded(UNION {Export(w)[v] : v \in Win})
  <2>1. UNION {Export(w)[v] : v \in Win} \subseteq Lines \cup mine
    BY <1>7
  <2>2. QED
    BY <1>10, <2>1 DEF Bounded
<1>12. QED
  BY <1>7, <1>8, <1>11

\* So are they after a write that breaks off.
LEMMA TornTyped ==
  ASSUME RInv, NEW w, files' = [files EXCEPT ![w] = Torn]
  PROVE  /\ files' \in [Win -> SUBSET Line]
         /\ \A v \in Win : files'[v] # Torn => \A f \in files'[v] : f.of \in Call
         /\ Bounded(Lines')
<1>1. Torn \subseteq Line /\ \A f \in Torn : f.id = 0
  BY DEF Torn, Line
<1>2. files \in [Win -> SUBSET Line]
  BY DEF RInv, RTypes
<1>3. \A v \in Win : files'[v] = files[v] \/ files'[v] = Torn
  BY <1>2
<1>4. files' \in [Win -> SUBSET Line]
  BY <1>1, <1>2
<1>5. Lines' \subseteq Lines \cup Torn
  BY <1>3 DEF Lines
<1>6. Bounded(Torn) /\ \A f \in Lines \cup Torn : f.id \in Nat
  BY <1>1, <1>2 DEF Bounded, Lines, Line
<1>7. Bounded(Lines \cup Torn)
  BY <1>6, BoundedUnion DEF RInv
<1>8. QED
  BY <1>3, <1>4, <1>5, <1>7 DEF Bounded, RInv, RTypes

\* The probe.
LEMMA BeginKeeps ==
  ASSUME RInv, NEW c \in Call, Begin(c)
  PROVE  RInv'
<1>1. RowsKept /\ RTypes /\ Genuine /\ Repaired /\ proxy = "up" /\ UNCHANGED <<proxy, clock, files>>
  BY DEF RInv, RowsKept, Begin
<1>2. CASE Dup(c)
  <2>1. rows' = Enriched(c) /\ logged' = logged \cup {c} /\ log' = NoLog /\ seq' = seq
    BY <1>2 DEF Begin, Done
  <2>2. rows' \subseteq Row /\ Bounded(rows') /\ Genuine' /\ Repaired' /\ RowsKept'
    BY <1>1, <1>2, <2>1, EnrichKeeps
  <2>3. Logging' /\ seq' \in Nat /\ logged' \subseteq Call
    BY <1>1, <2>1 DEF Logging, RTypes
  <2>4. QED
    BY <1>1, <2>2, <2>3, WriteKeeps
<1>3. CASE ~Dup(c)
  <2>1. /\ log' = [call |-> c, id |-> IF Hash[c] = "machine" THEN seq ELSE NextId(rows, Hash[c]), tries |-> 1]
        /\ seq' = IF Hash[c] = "machine" THEN seq + 1 ELSE seq
        /\ UNCHANGED <<rows, logged, window, timers>>
    BY <1>3 DEF Begin
  <2>2. NextId(rows, Hash[c]) \in Nat /\ seq \in Nat
    BY <1>1, NextIdTyped DEF RTypes
  <2>3. Logging' /\ seq' \in Nat
    BY <1>1, <2>1, <2>2 DEF Logging
  <2>4. files' \in [Win -> SUBSET Line] /\ clock' \in Nat /\ Bounded(Lines')
        /\ \A w \in Win : files'[w] # Torn => \A f \in files'[w] : f.of \in Call
    BY <1>1 DEF RInv, RTypes, Lines
  <2>5. QED
    BY <1>1, <2>1, <2>3, <2>4, RestKeeps
<1>4. QED
  BY <1>2, <1>3

\* The insert, whether it succeeds, finds a duplicate or an id that is taken.
LEMMA InsertStep ==
  ASSUME RInv, Insert
  PROVE  RInv'
<1> DEFINE c == log.call
<1>1. c \in Call /\ log.id \in Nat /\ log.tries \in Nat /\ proxy = "up"
  BY DEF Insert, RInv, Logging
<1>2. RowsKept /\ RTypes /\ Genuine /\ Repaired /\ UNCHANGED <<proxy, clock, files>>
  BY DEF RInv, RowsKept, Insert
<1>3. CASE Clash(c, log.id) /\ Dup(c)
  <2>1. rows' = Enriched(c) /\ logged' = logged \cup {c} /\ log' = NoLog /\ seq' = seq
    BY <1>3 DEF Insert, Refused, Done
  <2>2. rows' \subseteq Row /\ Bounded(rows') /\ Genuine' /\ Repaired' /\ RowsKept'
    BY <1>1, <1>2, <1>3, <2>1, EnrichKeeps
  <2>3. Logging' /\ seq' \in Nat /\ logged' \subseteq Call
    BY <1>1, <1>2, <2>1 DEF Logging, RTypes
  <2>4. QED
    BY <1>2, <2>2, <2>3, WriteKeeps
<1>4. CASE Clash(c, log.id) /\ ~Dup(c)
  <2>1. /\ log' = NoLog \/ log' = [log EXCEPT !.id = NextId(rows, Hash[c]), !.tries = log.tries + 1]
        /\ UNCHANGED <<rows, logged, seq>>
    BY <1>4 DEF Insert, Refused
  <2>2. NextId(rows, Hash[c]) \in Nat
    BY <1>2, NextIdTyped DEF RTypes
  <2>3. log \in [call : Call, id : Nat, tries : Nat]
    BY DEF Insert, RInv, Logging
  <2>4. Logging' /\ seq' \in Nat
    <3>1. seq' \in Nat /\ proxy' = "up"
      BY <1>1, <1>2, <2>1 DEF RTypes
    <3>2. [log EXCEPT !.id = NextId(rows, Hash[c]), !.tries = log.tries + 1]
            \in [call : Call, id : Nat, tries : Nat]
      <4> DEFINE n == NextId(rows, Hash[c])
                 t == log.tries + 1
      <4>1. n \in Nat /\ t \in Nat
        BY <1>1, <2>2
      <4> HIDE DEF n, t
      <4>2. [log EXCEPT !.id = n, !.tries = t] \in [call : Call, id : Nat, tries : Nat]
        BY <2>3, <4>1
      <4>3. QED
        BY <4>2 DEF n, t
    <3>3. QED
      BY <2>1, <3>1, <3>2 DEF Logging
  <2>5. files' \in [Win -> SUBSET Line] /\ clock' \in Nat /\ Bounded(Lines')
        /\ \A w \in Win : files'[w] # Torn => \A f \in files'[w] : f.of \in Call
    BY <1>2 DEF RInv, RTypes, Lines
  <2>6. QED
    BY <1>2, <2>1, <2>4, <2>5, RestKeeps
<1>5. CASE ~Clash(c, log.id)
  <2>1. /\ rows' = rows \cup {RowOf(c, log.id)} /\ logged' = logged \cup {c} /\ log' = NoLog
        /\ seq' = IF Hash[c] = "machine" /\ log.id >= seq THEN log.id + 1 ELSE seq
    BY <1>5 DEF Insert, Inserted, Done
  <2>2. rows' \subseteq Row /\ Bounded(rows') /\ Genuine' /\ Repaired' /\ RowsKept'
    BY <1>1, <1>2, <1>5, <2>1, InsertKeeps
  <2>3. Logging' /\ seq' \in Nat /\ logged' \subseteq Call
    BY <1>1, <1>2, <2>1 DEF Logging, RTypes
  <2>4. QED
    BY <1>2, <2>2, <2>3, WriteKeeps
<1>6. QED
  BY <1>3, <1>4, <1>5

\* The coding side writes at any moment, the repair included.
LEMMA CodingKeeps ==
  ASSUME RInv, NEW c \in Call, CodingLogs(c)
  PROVE  RInv'
<1>1. /\ RowsKept /\ RTypes /\ Genuine /\ Repaired /\ logged' = logged \cup {c}
      /\ UNCHANGED <<proxy, log, seq, clock, files>>
  BY DEF RInv, RowsKept, CodingLogs
<1>2. Logging' /\ seq' \in Nat /\ logged' \subseteq Call
  BY <1>1 DEF RInv, Logging, RTypes
<1>3. CASE Dup(c)
  <2>1. rows' = Enriched(c)
    BY <1>3 DEF CodingLogs
  <2>2. rows' \subseteq Row /\ Bounded(rows') /\ Genuine' /\ Repaired' /\ RowsKept'
    BY <1>1, <1>3, <2>1, EnrichKeeps
  <2>3. QED
    BY <1>1, <1>2, <2>2, WriteKeeps
<1>4. CASE ~Dup(c)
  <2>1. rows' = rows \cup {RowOf(c, NextId(rows, Hash[c]))}
    BY <1>4 DEF CodingLogs
  <2>2. NextId(rows, Hash[c]) \in Nat
    BY <1>1, NextIdTyped DEF RTypes
  <2>3. rows' \subseteq Row /\ Bounded(rows') /\ Genuine' /\ Repaired' /\ RowsKept'
    BY <1>1, <1>4, <2>1, <2>2, InsertKeeps
  <2>4. QED
    BY <1>1, <1>2, <2>3, WriteKeeps
<1>5. QED
  BY <1>3, <1>4

\* The steps of the repair.
LEMMA RepairKeeps ==
  ASSUME RInv, Fill \/ Collapse
  PROVE  RInv'
<1>1. rows' \subseteq Row /\ Bounded(rows') /\ Genuine' /\ Repaired' /\ RowsKept'
  BY FillKeeps, CollapseKeeps
<1>2. UNCHANGED <<log, logged, seq, clock, files>> /\ proxy # "up"
  BY DEF Fill, Collapse
<1>3. Logging' /\ seq' \in Nat /\ logged' \subseteq Call
  BY <1>2 DEF RInv, Logging, RTypes
<1>4. QED
  BY <1>1, <1>2, <1>3, WriteKeeps

-----------------------------------------------------------------------------
(* The theorem.                                                            *)

\* At the start the rows are none, or those of the old database.
LEMMA RInvInit == RInit => RInv
<1> SUFFICES ASSUME RInit PROVE RInv
  OBVIOUS
<1>1. rows \subseteq Row /\ Bounded(rows)
  <2>1. Bounded({})
    BY DEF Bounded
  <2>2. Bounded(OldRows)
    BY RowsAssumption, FiniteBounded
  <2>3. QED
    BY <2>1, <2>2, RowsAssumption DEF RInit
<1>2. \A r \in rows : r.of \in Call /\ r.hash = Hash[r.of] /\ r.req = Req[r.of] /\ (r.of \in Split => r.split)
  BY RowsAssumption DEF RInit, Row
<1>3. logged = {r.of : r \in rows}
  BY DEF RInit
<1>4. \A w \in Win : files[w] = {}
  BY DEF RInit
<1>5. files \in [Win -> SUBSET Line] /\ Bounded(Lines)
  BY <1>4 DEF RInit, Lines, Bounded
<1>6. RTypes
  BY <1>1, <1>2, <1>3, <1>4, <1>5 DEF RInit, RTypes
<1>7. Logging /\ Genuine /\ Repaired
  BY <1>2 DEF RInit, Logging, Genuine, Repaired
<1>8. NoRowLost /\ CacheKept
  BY <1>2, <1>3 DEF NoRowLost, CacheKept
<1>9. QED
  BY <1>5, <1>6, <1>7, <1>8 DEF RInv

\* Every step keeps the invariant.
LEMMA RInvNext == RInv /\ [RNext]_rvars => RInv'
<1> SUFFICES ASSUME RInv, [RNext]_rvars PROVE RInv'
  OBVIOUS
<1>0. /\ files \in [Win -> SUBSET Line] /\ seq \in Nat /\ clock \in Nat /\ Bounded(Lines)
      /\ \A w \in Win : files[w] # Torn => \A f \in files[w] : f.of \in Call
  BY DEF RInv, RTypes
<1>1. ASSUME UNCHANGED <<rows, logged, files, seq>>, clock' \in Nat, Logging',
             proxy' = "collapse" => proxy = "collapse"
      PROVE  RInv'
  <2>1. Lines' = Lines
    BY <1>1 DEF Lines
  <2>2. QED
    BY <1>0, <1>1, <2>1, RestKeeps
<1>2. CASE Open
  BY <1>0, <1>1, <1>2 DEF Open, RInv, Logging
<1>3. CASE Fill \/ Collapse
  BY <1>3, RepairKeeps
<1>4. CASE Index
  BY <1>0, <1>1, <1>4 DEF Index, RInv, Logging
<1>5. CASE Hydrate
  BY <1>5, HydrateKeeps
<1>6. CASE Insert
  BY <1>6, InsertStep
<1>7. CASE Tick
  BY <1>0, <1>1, <1>7 DEF Tick, RInv, Logging
<1>8. CASE Forget
  BY <1>0, <1>1, <1>8 DEF Forget, RInv, Logging
<1>9. CASE Crash
  <2>1. UNCHANGED <<rows, logged, seq, clock>> /\ Logging' /\ (proxy' = "collapse" => proxy = "collapse")
    BY <1>9 DEF Crash, Logging
  <2>2. CASE UNCHANGED files
    BY <1>0, <1>1, <2>1, <2>2
  <2>3. CASE \E w : files' = [files EXCEPT ![w] = Torn]
    <3>1. PICK w : files' = [files EXCEPT ![w] = Torn]
      BY <2>3
    <3>2. QED
      BY <1>0, <2>1, <3>1, TornTyped, RestKeeps
  <2>4. QED
    BY <1>9, <2>2, <2>3 DEF Crash
<1>10. CASE DeleteDb
  <2>1. /\ rows' = {} /\ logged' = {} /\ UNCHANGED <<proxy, seq, log, clock, files>>
    BY <1>10 DEF DeleteDb
  <2>2. RTypes' /\ Logging' /\ Genuine' /\ Repaired' /\ NoRowLost' /\ CacheKept'
    BY <2>1 DEF RInv, RTypes, Logging, Genuine, Repaired, NoRowLost, CacheKept, Bounded
  <2>3. Bounded(Lines)'
    BY <2>1 DEF RInv, Bounded, Lines
  <2>4. QED
    BY <2>2, <2>3 DEF RInv
<1>11. ASSUME NEW c \in Call, Begin(c) \/ CodingLogs(c) PROVE RInv'
  BY <1>11, BeginKeeps, CodingKeeps
<1>12. ASSUME NEW k \in Win, Flush(k) PROVE RInv'
  <2>1. PICK w : files' = Export(w)
    BY <1>12 DEF Flush
  <2>2. UNCHANGED <<rows, logged, seq, clock, proxy>> /\ Logging'
    BY <1>12 DEF Flush, RInv, Logging
  <2>3. Lines' = UNION {Export(w)[v] : v \in Win}
    BY <2>1 DEF Lines
  <2>4. QED
    BY <1>0, <2>1, <2>2, <2>3, ExportTyped, RestKeeps
<1>13. CASE UNCHANGED rvars
  BY <1>0, <1>1, <1>13 DEF rvars, RInv, Logging
<1>14. QED
  BY <1>2, <1>3, <1>4, <1>5, <1>6, <1>7, <1>8, <1>9, <1>10, <1>11, <1>12, <1>13 DEF RNext

\* For any calls, windows, crashes and rows of an older database: every call that was
\* logged has its row or the row of its request, and a split of it is kept, through the
\* repair, races between the two writers and repeated starts.
THEOREM NothingLost == RSpec => []RowsKept
<1>1. RInv => RowsKept
  BY DEF RInv, RowsKept
<1>2. QED
  BY <1>1, RInvInit, RInvNext, PTL DEF RSpec

-----------------------------------------------------------------------------
(* The files.                                                              *)

Machine(rs) == {r \in rs : r.hash = "machine"}

\* An id of the machine stands for one call and one window, in the database, ...
OneRow == \A r, x \in Machine(rows) : r.id = x.id => r.of = x.of /\ r.win = x.win

\* between the database and the files, ...
RowIsLine ==
  \A w \in Win : files[w] # Torn =>
    \A f \in files[w], r \in Machine(rows) : r.id = f.id => r.of = f.of /\ r.win = w

\* and from file to file.
OneLine ==
  \A v, w \in Win : files[v] # Torn /\ files[w] # Torn =>
    \A f \in files[v], g \in files[w] : f.id = g.id => f.of = g.of /\ v = w

\* Once the start is over, no line's id is free.
IdsTaken ==
  proxy = "up" =>
    \A w \in Win : files[w] # Torn => \A f \in files[w] : \E r \in Machine(rows) : r.id = f.id

HInv == OneRow /\ RowIsLine /\ OneLine /\ IdsTaken

\* Rows of the machine that come from rows that were there keep the files theirs.
LEMMA OldIds ==
  ASSUME HInv, UNCHANGED files,
         \A x \in Machine(rows') : \E r \in Machine(rows) : x.id = r.id /\ x.of = r.of /\ x.win = r.win,
         proxy' = "up" =>
           proxy = "up" /\ \A r \in Machine(rows) : \E x \in Machine(rows') : x.id = r.id
  PROVE  HInv'
<1>1. OneRow'
  BY DEF HInv, OneRow
<1>2. RowIsLine'
  BY DEF HInv, RowIsLine
<1>3. OneLine'
  BY DEF HInv, OneLine
<1>4. IdsTaken'
  BY DEF HInv, IdsTaken
<1>5. QED
  BY <1>1, <1>2, <1>3, <1>4 DEF HInv

\* A row is enriched.
LEMMA EnrichIds ==
  ASSUME HInv, RTypes, NEW c \in Call, rows' = Enriched(c), UNCHANGED <<files, proxy>>
  PROVE  HInv'
<1>1. rows' = {Enrich(r, c) : r \in rows}
  BY DEF Enriched, Enrich
<1>2. \A r \in rows : r \in Row
  BY DEF RTypes
<1>3. \A x \in Machine(rows') : \E r \in Machine(rows) : x.id = r.id /\ x.of = r.of /\ x.win = r.win
  BY <1>1, <1>2, EnrichTyped DEF Machine
<1>4. \A r \in Machine(rows) : \E x \in Machine(rows') : x.id = r.id
  BY <1>1, <1>2, EnrichTyped DEF Machine
<1>5. QED
  BY <1>3, <1>4, OldIds

\* A row of the machine is written with an id that no row has, by a proxy that is up.
LEMMA InsertIds ==
  ASSUME HInv, RTypes, NEW c \in Call, NEW id \in Nat, rows' = rows \cup {RowOf(c, id)},
         UNCHANGED <<files, proxy>>,
         Hash[c] = "machine" => proxy = "up" /\ ~Keyed(rows, "machine", id)
  PROVE  HInv'
<1> DEFINE n == RowOf(c, id)
<1>1. n.hash = Hash[c] /\ n.id = id /\ n \in Row
  BY RowOfTyped
<1> HIDE DEF n
<1>2. rows' = rows \cup {n}
  BY DEF n
<1>3. CASE Hash[c] # "machine"
  <2>1. Machine(rows') = Machine(rows)
    BY <1>1, <1>2, <1>3 DEF Machine
  <2>2. QED
    BY <2>1, OldIds
<1>4. CASE Hash[c] = "machine"
  <2>1. Machine(rows') = Machine(rows) \cup {n} /\ \A r \in Machine(rows) : r.id # n.id
    BY <1>1, <1>2, <1>4 DEF Machine, Keyed
  <2>2. \A w \in Win : files[w] # Torn => \A f \in files[w] : f.id # n.id
    BY <1>4, <2>1 DEF HInv, IdsTaken
  <2>3. OneRow'
    BY <2>1 DEF HInv, OneRow
  <2>4. RowIsLine'
    BY <2>1, <2>2 DEF HInv, RowIsLine
  <2>5. OneLine'
    BY DEF HInv, OneLine
  <2>6. IdsTaken'
    BY <2>1 DEF HInv, IdsTaken
  <2>7. QED
    BY <2>3, <2>4, <2>5, <2>6 DEF HInv
<1>5. QED
  BY <1>3, <1>4

\* The start takes the lines whose ids are free, and then none is.
LEMMA HydrateIds ==
  ASSUME HInv, RInv, Hydrate
  PROVE  HInv'
<1>1. rows' = rows \cup {r \in Imported : ~Keyed(rows, r.hash, r.id)} /\ UNCHANGED files
  BY DEF Hydrate, Hydrated
<1>2. ASSUME NEW x \in Machine(rows')
      PROVE  \/ x \in Machine(rows)
             \/ /\ \A r \in Machine(rows) : r.id # x.id
                /\ \E w \in Win : files[w] # Torn /\ x.win = w
                     /\ \E f \in files[w] : x.id = f.id /\ x.of = f.of
  <2>1. CASE x \in rows
    BY <2>1 DEF Machine
  <2>2. CASE x \in Imported /\ ~Keyed(rows, x.hash, x.id)
    <3>1. PICK w \in Win : \E f \in files[w] : files[w] # Torn /\
             x = [hash |-> "machine", id |-> f.id, req |-> NoReq, split |-> f.split, win |-> w, of |-> f.of]
      BY <2>2, ImportedOf
    <3>2. PICK f \in files[w] : files[w] # Torn /\
             x = [hash |-> "machine", id |-> f.id, req |-> NoReq, split |-> f.split, win |-> w, of |-> f.of]
      BY <3>1
    <3>3. x.win = w /\ x.id = f.id /\ x.of = f.of /\ x.hash = "machine"
      BY <3>2
    <3>4. \A r \in Machine(rows) : r.id # x.id
      BY <2>2, <3>3 DEF Keyed, Machine
    <3>5. QED
      BY <3>2, <3>3, <3>4
  <2>3. QED
    BY <1>1, <2>1, <2>2 DEF Machine
<1>3. OneRow'
  <2> SUFFICES ASSUME NEW r \in Machine(rows'), NEW x \in Machine(rows'), r.id = x.id
               PROVE  r.of = x.of /\ r.win = x.win
    BY DEF OneRow
  <2>1. CASE r \in Machine(rows) /\ x \in Machine(rows)
    BY <2>1 DEF HInv, OneRow
  <2>2. CASE r \in Machine(rows) /\ x \notin Machine(rows)
    BY <1>2, <2>2
  <2>3. CASE r \notin Machine(rows) /\ x \in Machine(rows)
    BY <1>2, <2>3
  <2>4. CASE r \notin Machine(rows) /\ x \notin Machine(rows)
    <3>1. PICK v \in Win : files[v] # Torn /\ r.win = v
                           /\ \E f \in files[v] : r.id = f.id /\ r.of = f.of
      BY <1>2, <2>4
    <3>2. PICK w \in Win : files[w] # Torn /\ x.win = w
                           /\ \E f \in files[w] : x.id = f.id /\ x.of = f.of
      BY <1>2, <2>4
    <3>3. PICK f \in files[v] : r.id = f.id /\ r.of = f.of
      BY <3>1
    <3>4. PICK g \in files[w] : x.id = g.id /\ x.of = g.of
      BY <3>2
    <3>5. OneLine /\ f.id = g.id
      BY <3>3, <3>4 DEF HInv
    <3>6. f.of = g.of /\ v = w
      BY <3>1, <3>2, <3>5 DEF OneLine
    <3>7. QED
      BY <3>1, <3>2, <3>3, <3>4, <3>6
  <2>5. QED
    BY <2>1, <2>2, <2>3, <2>4
<1>4. RowIsLine'
  <2> SUFFICES ASSUME NEW w \in Win, files[w] # Torn, NEW f \in files[w],
                      NEW r \in Machine(rows'), r.id = f.id
               PROVE  r.of = f.of /\ r.win = w
    BY <1>1 DEF RowIsLine
  <2>1. CASE r \in Machine(rows)
    BY <2>1 DEF HInv, RowIsLine
  <2>2. CASE r \notin Machine(rows)
    <3>1. PICK v \in Win : files[v] # Torn /\ r.win = v
                           /\ \E g \in files[v] : r.id = g.id /\ r.of = g.of
      BY <1>2, <2>2
    <3>2. PICK g \in files[v] : r.id = g.id /\ r.of = g.of
      BY <3>1
    <3>3. OneLine /\ g.id = f.id
      BY <3>2 DEF HInv
    <3>4. v \in Win /\ files[v] # Torn /\ r.win = v
      BY <3>1
    <3>5. g.of = f.of /\ v = w
      BY <3>3, <3>4 DEF OneLine
    <3>6. r.of = g.of
      BY <3>2
    <3>7. QED
      BY <3>4, <3>5, <3>6
  <2>3. QED
    BY <2>1, <2>2
<1>5. OneLine'
  BY <1>1 DEF HInv, OneLine
<1>6. IdsTaken'
  <2> SUFFICES ASSUME NEW w \in Win, files[w] # Torn, NEW f \in files[w]
               PROVE  \E r \in Machine(rows') : r.id = f.id
    BY <1>1 DEF IdsTaken
  <2> DEFINE x == [hash |-> "machine", id |-> f.id, req |-> NoReq, split |-> f.split, win |-> w, of |-> f.of]
  <2>1. x \in Imported /\ x.hash = "machine" /\ x.id = f.id
    BY LineImported
  <2> HIDE DEF x
  <2>2. CASE Keyed(rows, "machine", f.id)
    BY <1>1, <2>2 DEF Keyed, Machine
  <2>3. CASE ~Keyed(rows, "machine", f.id)
    <3>1. x \in rows'
      BY <1>1, <2>1, <2>3
    <3>2. QED
      BY <2>1, <3>1 DEF Machine
  <2>4. QED
    BY <2>2, <2>3
<1>7. QED
  BY <1>3, <1>4, <1>5, <1>6 DEF HInv

\* What an export leaves in a file: a line that was there, or that of a row of the window.
LEMMA ExportOf ==
  ASSUME RTypes, NEW w, NEW v \in Win, NEW f \in Export(w)[v]
  PROVE  \/ files[v] # Torn /\ f \in files[v]
         \/ files[v] = Torn /\ Export(w)[v] = Torn
         \/ \E r \in Machine(rows) : r.id = f.id /\ r.of = f.of /\ r.win = v
<1> DEFINE mine == {Exported(r) : r \in {x \in rows : x.hash = "machine" /\ x.win = w}}
           kept == IF files[w] = Torn THEN {} ELSE {g \in files[w] : \A m \in mine : m.id # g.id}
<1>1. Export(w) = [files EXCEPT ![w] = kept \cup mine]
  BY DEF Export
<1>2. ASSUME NEW g \in mine
      PROVE  \E r \in Machine(rows) : r.id = g.id /\ r.of = g.of /\ r.win = w
  BY DEF Exported, Machine
<1>3. ASSUME NEW g \in kept PROVE files[w] # Torn /\ g \in files[w]
  OBVIOUS
<1> HIDE DEF mine, kept
<1>4. CASE v = w
  <2>1. f \in kept \cup mine
    BY <1>1, <1>4 DEF RTypes
  <2>2. QED
    BY <1>2, <1>3, <1>4, <2>1
<1>5. CASE v # w
  <2>1. Export(w)[v] = files[v]
    BY <1>1, <1>5 DEF RTypes
  <2>2. QED
    BY <2>1
<1>6. QED
  BY <1>4, <1>5

\* An export adds lines of rows only.
LEMMA ExportIds ==
  ASSUME HInv, RTypes, proxy = "up", NEW w, files' = Export(w), UNCHANGED <<rows, proxy>>
  PROVE  HInv'
<1>1. ASSUME NEW v \in Win, files'[v] # Torn, NEW f \in files'[v]
      PROVE  \/ files[v] # Torn /\ f \in files[v]
             \/ \E r \in Machine(rows) : r.id = f.id /\ r.of = f.of /\ r.win = v
  BY <1>1, ExportOf
<1>2. ASSUME NEW v \in Win, files'[v] # Torn, NEW f \in files'[v]
      PROVE  \E r \in Machine(rows) : r.id = f.id /\ r.of = f.of /\ r.win = v
  <2>1. CASE files[v] # Torn /\ f \in files[v]
    <3>1. PICK r \in Machine(rows) : r.id = f.id
      BY <2>1 DEF HInv, IdsTaken
    <3>2. r.of = f.of /\ r.win = v
      BY <2>1, <3>1 DEF HInv, RowIsLine
    <3>3. QED
      BY <3>1, <3>2
  <2>2. QED
    BY <1>1, <1>2, <2>1
<1>3. OneRow'
  BY DEF HInv, OneRow
<1>4. RowIsLine'
  <2> SUFFICES ASSUME NEW v \in Win, files'[v] # Torn, NEW f \in files'[v],
                      NEW r \in Machine(rows), r.id = f.id
               PROVE  r.of = f.of /\ r.win = v
    BY DEF RowIsLine
  <2>1. QED
    BY <1>2 DEF HInv, OneRow
<1>5. OneLine'
  <2> SUFFICES ASSUME NEW u \in Win, NEW v \in Win, files'[u] # Torn, files'[v] # Torn,
                      NEW f \in files'[u], NEW g \in files'[v], f.id = g.id
               PROVE  f.of = g.of /\ u = v
    BY DEF OneLine
  <2>1. PICK r \in Machine(rows) : r.id = f.id /\ r.of = f.of /\ r.win = u
    BY <1>2
  <2>2. PICK x \in Machine(rows) : x.id = g.id /\ x.of = g.of /\ x.win = v
    BY <1>2
  <2>3. QED
    BY <2>1, <2>2 DEF HInv, OneRow
<1>6. IdsTaken'
  BY <1>2 DEF IdsTaken
<1>7. QED
  BY <1>3, <1>4, <1>5, <1>6 DEF HInv

\* A file that is torn has no lines to answer for.
LEMMA TornIds ==
  ASSUME HInv, RTypes, NEW w, files' = [files EXCEPT ![w] = Torn], UNCHANGED rows, proxy' # "up"
  PROVE  HInv'
<1>1. \A v \in Win : files'[v] # Torn => files[v] = files'[v]
  BY DEF RTypes
<1>2. OneRow'
  BY DEF HInv, OneRow
<1>3. RowIsLine'
  BY <1>1 DEF HInv, RowIsLine
<1>4. OneLine'
  BY <1>1 DEF HInv, OneLine
<1>5. IdsTaken'
  BY DEF IdsTaken
<1>6. QED
  BY <1>2, <1>3, <1>4, <1>5 DEF HInv

\* At the start no file has a line.
LEMMA HInvInit == RInit => HInv
<1> SUFFICES ASSUME RInit PROVE HInv
  OBVIOUS
<1>1. \A w \in Win : files[w] = {}
  BY DEF RInit
<1>2. OneRow
  <2>1. CASE rows = {}
    BY <2>1 DEF OneRow, Machine
  <2>2. CASE rows = OldRows
    BY <2>2, RowsAssumption DEF OneRow, Machine
  <2>3. QED
    BY <2>1, <2>2 DEF RInit
<1>3. RowIsLine /\ OneLine /\ IdsTaken
  BY <1>1 DEF RowIsLine, OneLine, IdsTaken
<1>4. QED
  BY <1>2, <1>3 DEF HInv

\* Every step keeps the files the files of those rows.
LEMMA HInvNext == RInv /\ HInv /\ [RNext]_rvars => HInv'
<1> SUFFICES ASSUME RInv, HInv, [RNext]_rvars PROVE HInv'
  OBVIOUS
<1>0. RTypes
  BY DEF RInv
<1>1. ASSUME UNCHANGED <<rows, files>>, proxy' = "up" => proxy = "up" PROVE HInv'
  BY <1>1, OldIds
<1>2. CASE Open
  BY <1>1, <1>2 DEF Open
<1>3. CASE Fill
  <2>1. rows' = {Fills(r) : r \in rows} /\ proxy' # "up" /\ UNCHANGED files
    BY <1>3 DEF Fill, Fills
  <2>2. \A r \in rows : r \in Row
    BY <1>0 DEF RTypes
  <2>3. \A x \in Machine(rows') : \E r \in Machine(rows) : x.id = r.id /\ x.of = r.of /\ x.win = r.win
    BY <2>1, <2>2, FillsTyped DEF Machine
  <2>4. QED
    BY <2>1, <2>3, OldIds
<1>4. CASE Collapse
  <2>1. Machine(rows') \subseteq Machine(rows) /\ proxy' # "up" /\ UNCHANGED files
    BY <1>4 DEF Collapse, Machine
  <2>2. QED
    BY <2>1, OldIds
<1>5. CASE Index
  BY <1>1, <1>5 DEF Index
<1>6. CASE Hydrate
  BY <1>6, HydrateIds
<1>7. CASE Insert
  <2> DEFINE c == log.call
  <2>1. c \in Call /\ log.id \in Nat /\ proxy = "up" /\ UNCHANGED <<proxy, files>>
    BY <1>7 DEF Insert, RInv, Logging
  <2>2. CASE Clash(c, log.id)
    <3>1. rows' = Enriched(c) \/ rows' = rows
      BY <1>7, <2>2 DEF Insert, Refused
    <3>2. QED
      BY <1>0, <1>1, <2>1, <3>1, EnrichIds
  <2>3. CASE ~Clash(c, log.id)
    <3>1. rows' = rows \cup {RowOf(c, log.id)} /\ ~Keyed(rows, Hash[c], log.id)
      BY <1>7, <2>3 DEF Insert, Inserted, Clash
    <3>2. QED
      BY <1>0, <2>1, <3>1, InsertIds
  <2>4. QED
    BY <2>2, <2>3
<1>8. CASE Tick \/ Forget
  BY <1>1, <1>8 DEF Tick, Forget
<1>9. CASE Crash
  <2>1. UNCHANGED rows /\ proxy' # "up"
    BY <1>9 DEF Crash
  <2>2. CASE UNCHANGED files
    BY <1>1, <2>1, <2>2
  <2>3. CASE \E w : files' = [files EXCEPT ![w] = Torn]
    BY <1>0, <2>1, <2>3, TornIds
  <2>4. QED
    BY <1>9, <2>2, <2>3 DEF Crash
<1>10. CASE DeleteDb
  <2>1. rows' = {} /\ proxy' = "down" /\ UNCHANGED files
    BY <1>10 DEF DeleteDb
  <2>2. QED
    BY <2>1, OldIds DEF Machine
<1>11. ASSUME NEW c \in Call, Begin(c) PROVE HInv'
  <2>1. UNCHANGED <<proxy, files>> /\ (rows' = Enriched(c) \/ rows' = rows)
    BY <1>11 DEF Begin
  <2>2. QED
    BY <1>0, <1>1, <2>1, EnrichIds
<1>12. ASSUME NEW c \in Call, CodingLogs(c) PROVE HInv'
  <2>1. UNCHANGED <<proxy, files>> /\ Hash[c] # "machine"
    BY <1>12, RowsAssumption DEF CodingLogs
  <2>2. CASE Dup(c)
    BY <1>0, <1>12, <2>1, <2>2, EnrichIds DEF CodingLogs
  <2>3. CASE ~Dup(c)
    <3>1. rows' = rows \cup {RowOf(c, NextId(rows, Hash[c]))}
      BY <1>12, <2>3 DEF CodingLogs
    <3>2. NextId(rows, Hash[c]) \in Nat
      BY <1>0, NextIdTyped DEF RTypes
    <3>3. QED
      BY <1>0, <2>1, <3>1, <3>2, InsertIds
  <2>4. QED
    BY <2>2, <2>3
<1>13. ASSUME NEW k \in Win, Flush(k) PROVE HInv'
  BY <1>0, <1>13, ExportIds DEF Flush
<1>14. CASE UNCHANGED rvars
  BY <1>1, <1>14 DEF rvars
<1>15. QED
  BY <1>2, <1>3, <1>4, <1>5, <1>6, <1>7, <1>8, <1>9, <1>10, <1>11, <1>12, <1>13, <1>14 DEF RNext

\* A line stays, or gives way to that of a row with its id, which is of its call.
LEMMA HistoryStep ==
  ASSUME RInv, HInv, RNext, NEW w \in Win, files[w] # Torn, files'[w] # Torn, NEW f \in files[w]
  PROVE  \E g \in files'[w] : g.id = f.id /\ g.of = f.of
<1>1. CASE UNCHANGED files
  BY <1>1
<1>2. ASSUME NEW v, files' = [files EXCEPT ![v] = Torn] PROVE files'[w] = files[w]
  BY <1>2 DEF RInv, RTypes
<1>3. ASSUME NEW v, files' = Export(v) PROVE \E g \in files'[w] : g.id = f.id /\ g.of = f.of
  <2> DEFINE mine == {Exported(r) : r \in {x \in rows : x.hash = "machine" /\ x.win = v}}
             kept == IF files[v] = Torn THEN {} ELSE {x \in files[v] : \A m \in mine : m.id # x.id}
  <2>1. files' = [files EXCEPT ![v] = kept \cup mine]
    BY <1>3 DEF Export
  <2>2. CASE v # w
    BY <2>1, <2>2 DEF RInv, RTypes
  <2>3. CASE v = w
    <3>1. files'[w] = kept \cup mine
      BY <2>1, <2>3 DEF RInv, RTypes
    <3>2. CASE \A m \in mine : m.id # f.id
      BY <2>3, <3>1, <3>2
    <3>3. CASE \E r \in Machine(rows) : r.win = v /\ r.id = f.id
      <4>1. PICK r \in Machine(rows) : r.win = v /\ r.id = f.id
        BY <3>3
      <4>2. Exported(r) \in mine /\ Exported(r).id = r.id /\ Exported(r).of = r.of
        BY <4>1 DEF Exported, Machine
      <4>3. r.of = f.of
        BY <4>1 DEF HInv, RowIsLine
      <4>4. QED
        BY <3>1, <4>1, <4>2, <4>3
    <3>4. QED
      BY <3>2, <3>3 DEF Machine, Exported
  <2>4. QED
    BY <2>2, <2>3
<1>4. UNCHANGED files \/ (\E v : files' = [files EXCEPT ![v] = Torn]) \/ \E v : files' = Export(v)
  BY DEF RNext, Open, Fill, Collapse, Index, Hydrate, Insert, Tick, Forget, Crash, DeleteDb,
         Begin, CodingLogs, Flush
<1>5. QED
  BY <1>1, <1>2, <1>3, <1>4

\* For any calls, windows and faults: a row that is in a file stays in it under its id.
THEOREM HistoryStays == RSpec => HistoryKept
<1>1. RInv /\ HInv /\ [RNext]_rvars =>
        [\A w \in Win : files[w] # Torn /\ files'[w] # Torn =>
           \A f \in files[w] : \E g \in files'[w] : g.id = f.id /\ g.of = f.of]_files
  BY HistoryStep DEF rvars
<1>2. QED
  BY <1>1, RInvInit, RInvNext, HInvInit, HInvNext, PTL DEF RSpec, HistoryKept

-----------------------------------------------------------------------------
(* Spans. A call that runs has every span in sight that is open; a start    *)
(* brings a span that was nowhere yet, so that one that is left for another *)
(* never comes back; a stop works on the span that it read, unless another  *)
(* was written meanwhile; and the ordinal is where the last armed span is,  *)
(* as long as nothing was mixed into it.                                    *)

SpanOrNone == Span \cup {NoSpan}
Content == SpanOrNone \cup {TornSpan, GarbledSpan}
CmdRecord ==
  [op : {"none", "start", "lost", "stop", "archived"}, slot : Slot, span : SpanOrNone]
BoundRecord ==
  [pc : {"new", "open", "done", "replayed", "missed"}, span : SpanOrNone, task : SpanOrNone,
   seen : SUBSET SpanOrNone]

STypes ==
  /\ slot \in [Slot -> Content] /\ cmd \in [Cmd -> CmdRecord]
  /\ bound \in [Job -> BoundRecord]
  /\ ordinal \in Nat /\ fixtures \in [Span -> Seq(Nat)]

Sighted ==
  \A c \in Job : Running(c) =>
    bound[c].task \in bound[c].seen \cup {NoSpan}
      /\ \A k \in Slot : Active(k) \in bound[c].seen \cup {NoSpan}

\* A span that is being started is in no file, and by one start only.
Fresh ==
  \A n \in Cmd : cmd[n].op = "start" =>
    /\ cmd[n].span \in Span \cap used /\ cmd[n].span \notin {slot["global"], last}
    /\ \A o \in Cmd : cmd[o].op = "start" /\ cmd[o].span = cmd[n].span => o = n

\* A stop of the slot for all has read what is there, unless it was raced.
Held ==
  \A n \in Cmd :
    /\ cmd[n].op \in {"stop", "archived"} /\ cmd[n].slot = "global" =>
         (slot["global"] \in Span /\ "global" \notin raced => slot["global"] = cmd[n].span)
    /\ cmd[n].op = "archived" => cmd[n].span \in archive

Known ==
  /\ slot["global"] \in Span => slot["global"] \in used
  /\ last \in SpanOrNone /\ (last # NoSpan => last \in used /\ Mode[last] # "off")

Commanded == Fresh /\ Held /\ Known

\* The slot for all had the span and is not given it again.
Over(s) ==
  /\ s \in used /\ slot["global"] # s
  /\ \A n \in Cmd : cmd[n].op = "start" => cmd[n].span # s

\* The calls of the span that asked for a fixture.
Asked(s) == {x \in Job : bound[x].span = s /\ bound[x].pc \in {"replayed", "missed"}}
Place(s) == IF Mode[s] = "replay" THEN Cardinality(Asked(s)) ELSE Len(fixtures[s])

Numbered ==
  \A s \in Span \ mixed :
    /\ \A i \in DOMAIN fixtures[s] : fixtures[s][i] = i - 1
    /\ s = last => ordinal = Place(s)
    /\ s # last /\ Place(s) # 0 => Over(s)

SpansInv == STypes /\ Sighted /\ Commanded /\ Numbered

\* What a slot shows is a span or nothing.
LEMMA ActiveIsSpan ==
  ASSUME STypes, NEW k \in Slot
  PROVE  Active(k) \in SpanOrNone
BY DEF Active, SpanOrNone

\* What is live is what one of the slots shows.
LEMMA LiveShown ==
  ASSUME STypes
  PROVE  Live \in {Active("agent"), Active("global")}
BY DEF Live

\* A place is a number.
LEMMA PlaceIsNat ==
  ASSUME STypes, NEW s \in Span
  PROVE  Place(s) \in Nat /\ IsFiniteSet(Asked(s))
<1>1. IsFiniteSet(Asked(s))
  BY SpansAssumption, FS_Subset DEF Asked
<1>2. QED
  BY <1>1, FS_CardinalityType DEF Place, STypes

\* The start.
LEMMA SpansInvInit == PInit => SpansInv
<1> SUFFICES ASSUME PInit PROVE SpansInv
  OBVIOUS
<1>1. STypes
  BY DEF PInit, STypes, Content, CmdRecord, BoundRecord, NoCmd, Idle, SpanOrNone, Slot
<1>2. Sighted
  BY DEF PInit, Sighted, Running, Idle
<1>3. Commanded
  BY SpansAssumption DEF PInit, Commanded, Fresh, Held, Known, NoCmd, SpanOrNone, Slot
<1>4. Numbered
  <2> SUFFICES ASSUME NEW s \in Span PROVE fixtures[s] = <<>> /\ s # last /\ Place(s) = 0
    BY DEF Numbered
  <2>1. fixtures[s] = <<>> /\ s # last
    BY SpansAssumption DEF PInit
  <2>2. Asked(s) = {}
    BY DEF PInit, Asked, Idle
  <2>3. QED
    BY <2>1, <2>2, FS_EmptySet DEF Place
<1>5. QED
  BY <1>1, <1>2, <1>3, <1>4 DEF SpansInv

\* A step of a command that leaves the calls alone, or tells them of a span.
LEMMA CommandsKeep ==
  ASSUME SpansInv, Commanded', STypes', UNCHANGED <<last, ordinal, fixtures, mixed>>,
         \A c \in Job : bound'[c].pc = bound[c].pc /\ bound'[c].span = bound[c].span,
         \A s \in Span : Over(s) => Over(s)', Sighted'
  PROVE  SpansInv'
<1>1. \A s \in Span : Asked(s)' = Asked(s)
  BY DEF Asked
<1>2. \A s \in Span : Place(s)' = Place(s)
  BY <1>1 DEF Place
<1>3. Numbered'
  BY <1>2 DEF SpansInv, Numbered
<1>4. QED
  BY <1>3 DEF SpansInv

\* While no call changes, a slot may show what a call has seen, or less.
LEMMA SlotKeepsSight ==
  ASSUME SpansInv, UNCHANGED bound,
         \A k \in Slot : Active(k)' \in {Active(k), NoSpan}
  PROVE  Sighted'
<1> SUFFICES ASSUME NEW c \in Job, Running(c)
             PROVE  /\ bound[c].task \in bound[c].seen \cup {NoSpan}
                    /\ \A k \in Slot : Active(k)' \in bound[c].seen \cup {NoSpan}
  BY DEF Sighted, Running
<1>1. QED
  BY DEF SpansInv, Sighted

\* A command turns to something else.
LEMMA TurnsIs ==
  ASSUME STypes, NEW n \in Cmd, NEW op \in {"start", "stop", "archived"}, NEW k \in Slot,
         NEW s \in SpanOrNone, Turns(n, op, k, s)
  PROVE  /\ cmd' \in [Cmd -> CmdRecord]
         /\ cmd'[n].op = op /\ cmd'[n].slot = k /\ cmd'[n].span = s
         /\ \A o \in Cmd : o # n => cmd'[o] = cmd[o]
<1> DEFINE r == [op |-> op, slot |-> k, span |-> s]
<1>1. r \in CmdRecord /\ r.op = op /\ r.slot = k /\ r.span = s
  BY DEF CmdRecord
<1>2. cmd' = [cmd EXCEPT ![n] = r]
  BY DEF Turns
<1> HIDE DEF r
<1>3. QED
  BY <1>1, <1>2 DEF STypes

\* A command that is over, and those that are under way.
LEMMA FinishesIs ==
  ASSUME STypes, NEW n \in Cmd, Finishes(n)
  PROVE  /\ cmd' \in [Cmd -> CmdRecord] /\ cmd'[n].op = "none"
         /\ \A o \in Cmd : o # n => cmd'[o] = cmd[o]
<1>1. NoCmd \in CmdRecord /\ NoCmd.op = "none"
  BY DEF NoCmd, CmdRecord, SpanOrNone, Slot
<1>2. QED
  BY <1>1 DEF STypes, Finishes

\* A file that is removed: no command is at more than it was.
LEMMA UnlinkedIs ==
  ASSUME STypes, NEW n \in Cmd, NEW k \in Slot, Unlinked(k, n)
  PROVE  /\ cmd' \in [Cmd -> CmdRecord]
         /\ \A o \in Cmd : cmd'[o].op \in {"start", "stop", "archived"} => cmd'[o] = cmd[o]
         /\ slot' \in [Slot -> Content] /\ slot'[k] = NoSpan /\ raced' = raced \ {k}
         /\ \A j \in Slot : j # k => slot'[j] = slot[j]
<1>1. NoCmd \in CmdRecord /\ NoCmd.op = "none"
  BY DEF NoCmd, CmdRecord, SpanOrNone, Slot
<1>2. ASSUME NEW o \in Cmd
      PROVE  /\ cmd'[o] \in CmdRecord
             /\ cmd'[o].op \in {"start", "stop", "archived"} => cmd'[o] = cmd[o]
  <2>1. cmd[o] \in CmdRecord
    BY DEF STypes
  <2>2. [cmd[o] EXCEPT !.op = "lost"] \in CmdRecord /\ [cmd[o] EXCEPT !.op = "lost"].op = "lost"
    BY <2>1 DEF CmdRecord
  <2>3. cmd'[o] \in {NoCmd, [cmd[o] EXCEPT !.op = "lost"], cmd[o]}
    BY DEF Unlinked
  <2>4. QED
    BY <1>1, <2>1, <2>2, <2>3
<1>3. cmd' \in [Cmd -> CmdRecord]
  BY <1>2 DEF Unlinked
<1>4. QED
  BY <1>2, <1>3 DEF Unlinked, STypes, Content, SpanOrNone

\* A step in which commands only end and files only lose their span.
LEMMA LessStep ==
  ASSUME SpansInv, UNCHANGED <<used, archive, bound, tvars>>,
         slot' \in [Slot -> Content], cmd' \in [Cmd -> CmdRecord],
         \A o \in Cmd : cmd'[o].op \in {"start", "stop", "archived"} => cmd'[o] = cmd[o],
         \A k \in Slot : slot'[k] = slot[k] \/ slot'[k] \notin Span,
         slot'["global"] \in Span => ("global" \in raced' <=> "global" \in raced)
  PROVE  SpansInv'
<1>1. UNCHANGED <<used, archive, bound, mods, last, ordinal, fixtures, mixed>>
  BY DEF tvars
<1>2. STypes'
  BY <1>1 DEF SpansInv, STypes
<1>3. Sighted'
  <2>1. \A k \in Slot : Active(k)' \in {Active(k), NoSpan}
    BY DEF Active
  <2>2. QED
    BY <1>1, <2>1, SlotKeepsSight
<1>4. slot'["global"] = slot["global"] \/ slot'["global"] \notin Span
  BY DEF Slot
<1>5. Fresh'
  BY <1>1, <1>4 DEF SpansInv, Commanded, Fresh
<1>6. Held'
  BY <1>1, <1>4 DEF SpansInv, Commanded, Held
<1>7. Known'
  BY <1>1, <1>4 DEF SpansInv, Commanded, Known
<1>8. \A s \in Span : Over(s) => Over(s)'
  BY <1>1, <1>4 DEF Over
<1>9. Commanded'
  BY <1>5, <1>6, <1>7 DEF Commanded
<1>10. QED
  BY <1>1, <1>2, <1>3, <1>8, <1>9, CommandsKeep

\* A start begins.
LEMMA StartBeginsStep ==
  ASSUME SpansInv, NEW n \in Cmd, NEW k \in Slot, NEW s \in Span, StartBegins(n, k, s)
  PROVE  SpansInv'
<1> USE SpansAssumption
<1>1. /\ s \notin used /\ used' = used \cup {s} /\ Turns(n, "start", k, s)
      /\ slot' = [slot EXCEPT ![k] = TornSpan] /\ raced' = raced \ {k}
      /\ UNCHANGED <<archive, bound, mods, last, ordinal, fixtures, mixed>>
  BY DEF StartBegins, tvars
<1>2. /\ cmd' \in [Cmd -> CmdRecord] /\ cmd'[n].op = "start" /\ cmd'[n].span = s
      /\ \A o \in Cmd : o # n => cmd'[o] = cmd[o]
  BY <1>1, TurnsIs DEF SpansInv, SpanOrNone
<1>3. /\ slot \in [Slot -> Content] /\ "global" \in Slot /\ TornSpan \in Content
      /\ TornSpan \notin Span
  BY DEF SpansInv, STypes, Slot, Content
<1>4. STypes'
  BY <1>1, <1>2, <1>3 DEF SpansInv, STypes
<1>5. Sighted'
  <2>1. \A j \in Slot : Active(j)' \in {Active(j), NoSpan}
    BY <1>1, <1>3 DEF Active
  <2>2. QED
    BY <1>1, <2>1, SlotKeepsSight
<1>6. \/ slot'["global"] = slot["global"] /\ ("global" \in raced' <=> "global" \in raced)
      \/ slot'["global"] = TornSpan
  BY <1>1, <1>3
<1>7. s # last /\ s # slot["global"] /\ s # TornSpan
  BY <1>1 DEF SpansInv, Commanded, Known, SpanOrNone
<1>8. Fresh'
  <2> SUFFICES ASSUME NEW o \in Cmd, cmd'[o].op = "start"
               PROVE  /\ cmd'[o].span \in Span \cap used'
                      /\ cmd'[o].span \notin {slot'["global"], last'}
                      /\ \A p \in Cmd : cmd'[p].op = "start" /\ cmd'[p].span = cmd'[o].span => p = o
    BY DEF Fresh
  <2>1. \A p \in Cmd : p # n /\ cmd[p].op = "start" => cmd[p].span \in Span \cap used /\ cmd[p].span # s
    BY <1>1 DEF SpansInv, Commanded, Fresh
  <2>2. CASE o = n
    BY <1>1, <1>2, <1>6, <1>7, <2>1, <2>2
  <2>3. CASE o # n
    <3>1. /\ cmd'[o] = cmd[o] /\ cmd[o].span \in Span \cap used
          /\ cmd[o].span \notin {slot["global"], last, TornSpan}
          /\ \A p \in Cmd : cmd[p].op = "start" /\ cmd[p].span = cmd[o].span => p = o
      BY <1>2, <2>3 DEF SpansInv, Commanded, Fresh
    <3>2. QED
      BY <1>1, <1>2, <1>6, <2>1, <2>3, <3>1
  <2>4. QED
    BY <2>2, <2>3
<1>9. Held'
  BY <1>1, <1>2, <1>3, <1>6 DEF SpansInv, Commanded, Held
<1>10. Known'
  BY <1>1, <1>3, <1>6 DEF SpansInv, Commanded, Known
<1>11. \A t \in Span : Over(t) => Over(t)'
  BY <1>1, <1>2, <1>6 DEF Over
<1>12. Commanded'
  BY <1>8, <1>9, <1>10 DEF Commanded
<1>13. QED
  BY <1>1, <1>4, <1>5, <1>11, <1>12, CommandsKeep

\* A start has written its span: every call that runs has it in sight.
LEMMA StartEndsStep ==
  ASSUME SpansInv, NEW n \in Cmd, StartEnds(n)
  PROVE  SpansInv'
<1> USE SpansAssumption
<1>1. PICK k, s : k = cmd[n].slot /\ s = cmd[n].span
  OBVIOUS
<1>2. /\ cmd[n].op = "start" /\ Finishes(n)
      /\ UNCHANGED <<used, archive, mods, last, ordinal, fixtures, mixed>>
  BY DEF StartEnds, tvars
<1>3. /\ cmd' \in [Cmd -> CmdRecord] /\ cmd'[n].op = "none"
      /\ \A o \in Cmd : o # n => cmd'[o] = cmd[o]
  BY <1>2, FinishesIs DEF SpansInv
<1>4. /\ slot \in [Slot -> Content] /\ k \in Slot /\ s \in Span \cap used /\ "global" \in Slot
      /\ s \in Content /\ GarbledSpan \in Content /\ GarbledSpan \notin Span
  <2>1. cmd[n] \in CmdRecord /\ slot \in [Slot -> Content]
    BY DEF SpansInv, STypes
  <2>2. s \in Span \cap used
    BY <1>1, <1>2 DEF SpansInv, Commanded, Fresh
  <2>3. QED
    BY <1>1, <2>1, <2>2 DEF CmdRecord, Slot, Content, SpanOrNone
<1>5. CASE slot' = [slot EXCEPT ![k] = GarbledSpan] /\ UNCHANGED <<bound, raced>>
  <2>1. UNCHANGED <<used, archive, bound, tvars>>
    BY <1>2, <1>5 DEF tvars
  <2>2. /\ slot' \in [Slot -> Content]
        /\ \A j \in Slot : slot'[j] = slot[j] \/ slot'[j] \notin Span
    BY <1>4, <1>5
  <2>3. \A o \in Cmd : cmd'[o].op \in {"start", "stop", "archived"} => cmd'[o] = cmd[o]
    BY <1>3
  <2>4. QED
    BY <1>3, <1>5, <2>1, <2>2, <2>3, LessStep
<1>6. CASE /\ slot' = [slot EXCEPT ![k] = s]
           /\ bound' = [c \in Job |->
                IF Running(c) THEN [bound[c] EXCEPT !.seen = bound[c].seen \cup {s}] ELSE bound[c]]
           /\ raced' = IF StopUnderWay(k) THEN raced \cup {k} ELSE raced \ {k}
  <2>1. \A c \in Job : /\ bound'[c] \in BoundRecord /\ bound'[c].pc = bound[c].pc
                       /\ bound'[c].span = bound[c].span /\ bound'[c].task = bound[c].task
                       /\ Running(c) => bound'[c].seen = bound[c].seen \cup {s}
    <3> SUFFICES ASSUME NEW c \in Job
                 PROVE  /\ bound'[c] \in BoundRecord /\ bound'[c].pc = bound[c].pc
                        /\ bound'[c].span = bound[c].span /\ bound'[c].task = bound[c].task
                        /\ Running(c) => bound'[c].seen = bound[c].seen \cup {s}
      OBVIOUS
    <3>1. bound[c] \in BoundRecord /\ s \in SpanOrNone
      BY <1>4 DEF SpansInv, STypes, SpanOrNone
    <3>2. LET b == [bound[c] EXCEPT !.seen = bound[c].seen \cup {s}] IN
          /\ b \in BoundRecord /\ b.pc = bound[c].pc /\ b.span = bound[c].span
          /\ b.task = bound[c].task /\ b.seen = bound[c].seen \cup {s}
      BY <3>1 DEF BoundRecord
    <3>3. bound'[c] = IF Running(c) THEN [bound[c] EXCEPT !.seen = bound[c].seen \cup {s}] ELSE bound[c]
      BY <1>6
    <3>4. QED
      BY <3>1, <3>2, <3>3
  <2>2. bound' \in [Job -> BoundRecord]
    BY <1>6, <2>1
  <2>3. slot' \in [Slot -> Content]
    BY <1>4, <1>6
  <2>4. STypes'
    BY <1>2, <1>3, <2>2, <2>3 DEF SpansInv, STypes
  <2>5. Sighted'
    <3>1. \A j \in Slot : Active(j)' \in {Active(j), s}
      BY <1>4, <1>6 DEF Active
    <3>2. QED
      BY <2>1, <3>1 DEF SpansInv, Sighted, Running
  <2>6. slot'["global"] = IF k = "global" THEN s ELSE slot["global"]
    BY <1>4, <1>6
  <2>7. \A o \in Cmd : o # n /\ cmd[o].op = "start" => cmd[o].span # s
    BY <1>1, <1>2 DEF SpansInv, Commanded, Fresh
  <2>8. Fresh'
    BY <1>2, <1>3, <2>6, <2>7 DEF SpansInv, Commanded, Fresh
  <2>9. Held'
    <3> SUFFICES ASSUME NEW o \in Cmd
                 PROVE  /\ cmd'[o].op \in {"stop", "archived"} /\ cmd'[o].slot = "global" =>
                             (slot'["global"] \in Span /\ "global" \notin raced' =>
                                slot'["global"] = cmd'[o].span)
                        /\ cmd'[o].op = "archived" => cmd'[o].span \in archive'
      BY DEF Held
    <3>1. o # n \/ cmd'[o].op = "none"
      BY <1>3
    <3>2. ASSUME o # n, cmd[o].op \in {"stop", "archived"}, cmd[o].slot = "global", k = "global"
          PROVE  "global" \in raced'
      BY <1>6, <3>2 DEF StopUnderWay
    <3>3. k # "global" => ("global" \in raced' <=> "global" \in raced) /\ slot'["global"] = slot["global"]
      BY <1>6, <2>6
    <3>4. o # n => cmd'[o] = cmd[o]
      BY <1>3
    <3>5. archive' = archive
      BY <1>2
    <3>6. QED
      BY <3>1, <3>2, <3>3, <3>4, <3>5 DEF SpansInv, Commanded, Held
  <2>10. Known'
    BY <1>2, <1>4, <2>6 DEF SpansInv, Commanded, Known
  <2>11. \A t \in Span : Over(t) => Over(t)'
    BY <1>1, <1>2, <1>3, <2>6 DEF Over
  <2>12. Commanded'
    BY <2>8, <2>9, <2>10 DEF Commanded
  <2>13. QED
    BY <1>2, <2>1, <2>4, <2>5, <2>11, <2>12, CommandsKeep
<1>7. QED
  BY <1>1, <1>5, <1>6 DEF StartEnds

\* A stop has read a span, or archived the one it read.
LEMMA StopStep ==
  ASSUME SpansInv, NEW n \in Cmd, Archives(n) \/ \E k \in Slot : StopReads(n, k)
  PROVE  SpansInv'
<1> USE SpansAssumption
<1>1. PICK k \in Slot, s \in SpanOrNone, op \in {"stop", "archived"} :
        /\ Turns(n, op, k, s)
        /\ op = "stop" => (s = slot[k] /\ archive' = archive)
        /\ op = "archived" => /\ cmd[n].op = "stop" /\ k = cmd[n].slot /\ s = cmd[n].span
                              /\ archive' = archive \cup {s}
  <2>1. CASE Archives(n)
    <3>1. cmd[n] \in CmdRecord
      BY DEF SpansInv, STypes
    <3>2. cmd[n].slot \in Slot /\ cmd[n].span \in SpanOrNone
      BY <3>1 DEF CmdRecord
    <3>3. QED
      BY <2>1, <3>2 DEF Archives
  <2>2. ASSUME NEW j \in Slot, StopReads(n, j) PROVE Turns(n, "stop", j, slot[j]) /\ archive' = archive
                                                     /\ slot[j] \in SpanOrNone
    BY <2>2 DEF StopReads, SpanOrNone
  <2>3. QED
    BY <2>1, <2>2
<1>2. UNCHANGED <<slot, used, raced, bound, mods, last, ordinal, fixtures, mixed>>
  BY DEF Archives, StopReads, tvars
<1>3. /\ cmd' \in [Cmd -> CmdRecord] /\ cmd'[n].op = op /\ cmd'[n].slot = k /\ cmd'[n].span = s
      /\ \A o \in Cmd : o # n => cmd'[o] = cmd[o]
  BY <1>1, TurnsIs DEF SpansInv
<1>4. STypes'
  BY <1>2, <1>3 DEF SpansInv, STypes
<1>5. Sighted'
  BY <1>2, SlotKeepsSight DEF Active
<1>6. Fresh' /\ Known' /\ \A t \in Span : Over(t) => Over(t)'
  BY <1>1, <1>2, <1>3 DEF SpansInv, Commanded, Fresh, Known, Over
<1>7. Held'
  BY <1>1, <1>2, <1>3 DEF SpansInv, Commanded, Held
<1>8. Commanded'
  BY <1>6, <1>7 DEF Commanded
<1>9. QED
  BY <1>2, <1>4, <1>5, <1>6, <1>8, CommandsKeep

\* A command is over, killed, or removes a file.
LEMMA EndsCommandStep ==
  ASSUME SpansInv, NEW n \in Cmd, StartLost(n) \/ Removes(n) \/ ClearAgent(n) \/ Dies(n)
  PROVE  SpansInv'
<1> USE SpansAssumption
<1>1. CASE StartLost(n) \/ Dies(n)
  <2>1. Finishes(n) /\ UNCHANGED <<slot, used, archive, raced, bound, tvars>>
    BY <1>1 DEF StartLost, Dies
  <2>2. /\ cmd' \in [Cmd -> CmdRecord] /\ slot' \in [Slot -> Content]
        /\ \A o \in Cmd : cmd'[o].op \in {"start", "stop", "archived"} => cmd'[o] = cmd[o]
    BY <2>1, FinishesIs DEF SpansInv, STypes
  <2>3. QED
    BY <2>1, <2>2, LessStep
<1>2. CASE Removes(n) \/ ClearAgent(n)
  <2>1. PICK k \in Slot : Unlinked(k, n)
    <3>1. cmd[n] \in CmdRecord
      BY DEF SpansInv, STypes
    <3>2. cmd[n].slot \in Slot /\ "agent" \in Slot
      BY <3>1 DEF CmdRecord, Slot
    <3>3. QED
      BY <1>2, <3>2 DEF Removes, ClearAgent
  <2>2. UNCHANGED <<used, archive, bound, tvars>>
    BY <1>2 DEF Removes, ClearAgent
  <2>3. /\ cmd' \in [Cmd -> CmdRecord]
        /\ \A o \in Cmd : cmd'[o].op \in {"start", "stop", "archived"} => cmd'[o] = cmd[o]
        /\ slot' \in [Slot -> Content] /\ slot'[k] = NoSpan /\ raced' = raced \ {k}
        /\ \A j \in Slot : j # k => slot'[j] = slot[j]
    BY <2>1, UnlinkedIs DEF SpansInv
  <2>4. \A j \in Slot : slot'[j] = slot[j] \/ slot'[j] \notin Span
    BY <2>3
  <2>5. slot'["global"] \in Span => ("global" \in raced' <=> "global" \in raced)
    BY <2>3
  <2>6. QED
    BY <2>2, <2>3, <2>4, <2>5, LessStep
<1>3. QED
  BY <1>1, <1>2

\* A call begins: it sees what the slots show.
LEMMA BegunKeeps ==
  ASSUME SpansInv, NEW c \in Job, bound[c].pc = "new",
         NEW pc \in {"open", "replayed", "missed"}, Begun(c, pc), UNCHANGED slot
  PROVE  /\ bound' \in [Job -> BoundRecord] /\ Sighted'
         /\ bound'[c].pc = pc /\ bound'[c].span = Active("global")
         /\ \A x \in Job : x # c => bound'[x] = bound[x]
<1> DEFINE b == [pc |-> pc, span |-> Active("global"),
                 task |-> IF c \in Tap THEN Active("agent") ELSE NoSpan,
                 seen |-> {Active("global"), Active("agent")} \ {NoSpan}]
<1>1. "agent" \in Slot /\ "global" \in Slot /\ \A k \in Slot : k \in {"agent", "global"}
  BY DEF Slot
<1>2. Active("agent") \in SpanOrNone /\ Active("global") \in SpanOrNone
  BY <1>1, ActiveIsSpan DEF SpansInv
<1>3. /\ b \in BoundRecord /\ b.pc = pc /\ b.span = Active("global")
      /\ b.seen = {Active("global"), Active("agent")} \ {NoSpan} /\ b.task \in {Active("agent"), NoSpan}
  BY <1>2 DEF BoundRecord, SpanOrNone
<1>4. bound' = [bound EXCEPT ![c] = b]
  BY DEF Begun
<1> HIDE DEF b
<1>5. /\ bound' \in [Job -> BoundRecord] /\ bound'[c] = b
      /\ \A x \in Job : x # c => bound'[x] = bound[x]
  BY <1>3, <1>4 DEF SpansInv, STypes
<1>6. Sighted'
  <2>1. \A k \in Slot : Active(k)' = Active(k)
    BY DEF Active
  <2>2. \A x \in Job : x # c => Running(x)' = Running(x)
    BY <1>5 DEF Running
  <2>3. QED
    BY <1>1, <1>3, <1>5, <2>1, <2>2 DEF SpansInv, Sighted
<1>7. QED
  BY <1>3, <1>5, <1>6

\* A call of the passthrough begins.
LEMMA TapStep ==
  ASSUME SpansInv, NEW c \in Job, TapBegins(c)
  PROVE  SpansInv'
<1>1. /\ bound[c].pc = "new" /\ Begun(c, "open")
      /\ UNCHANGED <<slot, cmd, used, archive, raced, mods, last, ordinal, fixtures, mixed, upsets>>
  BY DEF TapBegins, tvars
<1>2. /\ bound' \in [Job -> BoundRecord] /\ Sighted' /\ bound'[c].pc = "open"
      /\ \A x \in Job : x # c => bound'[x] = bound[x]
  BY <1>1, BegunKeeps
<1>3. STypes' /\ Commanded' /\ \A s \in Span : Over(s)' = Over(s)
  BY <1>1, <1>2 DEF SpansInv, STypes, Commanded, Fresh, Held, Known, Over
<1>4. \A s \in Span : Place(s)' = Place(s)
  <2>1. \A s \in Span : Asked(s)' = Asked(s)
    BY <1>1, <1>2 DEF Asked
  <2>2. QED
    BY <1>1, <2>1 DEF Place
<1>5. Numbered'
  BY <1>1, <1>3, <1>4 DEF SpansInv, Numbered
<1>6. QED
  BY <1>2, <1>3, <1>5 DEF SpansInv

\* What a call of POST /api/complete finds as it begins, named.
AtOf(s) == IF Resets(s) THEN 0 ELSE ordinal
Replayed(s) == Armed(s) /\ Mode[s] = "replay"
Hit(s) == \E i \in DOMAIN fixtures[From[s]] : fixtures[From[s]][i] = AtOf(s)
BeginPc(s) == IF ~Replayed(s) THEN "open" ELSE IF Hit(s) THEN "replayed" ELSE "missed"

\* The step, by these names.
LEMMA BeginsIs ==
  ASSUME NEW c, Begins(c), NEW s, s = Active("global")
  PROVE  /\ bound[c].pc = "new" /\ Begun(c, BeginPc(s))
         /\ last' = (IF Armed(s) THEN s ELSE last)
         /\ ordinal' = (IF Replayed(s) THEN AtOf(s) + 1 ELSE AtOf(s))
         /\ UNCHANGED <<slot, cmd, used, archive, raced, mods, fixtures, mixed, upsets>>
BY DEF Begins, AtOf, Replayed, Hit, BeginPc

\* One more call of a replayed span has asked for a fixture, none of another.
LEMMA BeginsPlaces ==
  ASSUME SpansInv, NEW c \in Job, Begins(c), NEW s, s = Active("global"), NEW t \in Span
  PROVE  /\ Place(t)' = IF Replayed(s) /\ t = s THEN Place(t) + 1 ELSE Place(t)
         /\ Replayed(s) => Asked(s)' = Asked(s) \cup {c} /\ c \notin Asked(s)
<1>1. /\ bound[c].pc = "new" /\ Begun(c, BeginPc(s)) /\ UNCHANGED slot /\ UNCHANGED fixtures
  BY BeginsIs
<1>2. BeginPc(s) \in {"open", "replayed", "missed"}
      /\ (Replayed(s) <=> BeginPc(s) \in {"replayed", "missed"})
  BY DEF BeginPc
<1>3. /\ bound'[c].pc = BeginPc(s) /\ bound'[c].span = s
      /\ \A x \in Job : x # c => bound'[x] = bound[x]
  BY <1>1, <1>2, BegunKeeps
<1>4. Asked(t)' = (IF Replayed(s) /\ t = s THEN Asked(t) \cup {c} ELSE Asked(t)) /\ c \notin Asked(t)
  BY <1>1, <1>2, <1>3 DEF Asked
<1>5. IsFiniteSet(Asked(t)) /\ Place(t) \in Nat
  BY PlaceIsNat DEF SpansInv
<1>6. CASE Replayed(s) /\ t = s
  <2>1. Cardinality(Asked(t)') = Cardinality(Asked(t)) + 1
    BY <1>4, <1>5, <1>6, FS_AddElement
  <2>2. QED
    BY <1>4, <1>6, <2>1 DEF Place, Replayed
<1>7. CASE ~(Replayed(s) /\ t = s)
  <2>1. Place(t)' = Place(t)
    BY <1>1, <1>4, <1>7 DEF Place
  <2>2. Replayed(s) => Asked(s)' = Asked(s) \cup {c} /\ c \notin Asked(s)
    BY <1>1, <1>2, <1>3 DEF Asked
  <2>3. QED
    BY <1>7, <2>1, <2>2
<1>8. QED
  BY <1>4, <1>6, <1>7

\* The ordinal a call begins with is where its armed span is, mixed ones apart.
LEMMA AtIsPlace ==
  ASSUME SpansInv, NEW s, s = Active("global"), Armed(s), s \notin mixed
  PROVE  s \in Span /\ AtOf(s) = Place(s)
<1>1. s \in SpanOrNone /\ s \in Span /\ s # TornSpan
  BY ActiveIsSpan, SpansAssumption DEF Armed, SpanOrNone, Slot, SpansInv
<1>2. s = slot["global"]
  BY <1>1, SpansAssumption DEF Active
<1>3. CASE s = last
  BY <1>1, <1>3 DEF SpansInv, Numbered, AtOf, Resets
<1>4. CASE s # last
  BY <1>1, <1>2, <1>4 DEF SpansInv, Numbered, Over, AtOf, Resets
<1>5. QED
  BY <1>1, <1>3, <1>4

\* A call of POST /api/complete begins.
LEMMA BeginsStep ==
  ASSUME SpansInv, NEW c \in Job, Begins(c)
  PROVE  SpansInv'
<1> DEFINE s == Active("global")
<1>1. /\ bound[c].pc = "new" /\ Begun(c, BeginPc(s))
      /\ last' = (IF Armed(s) THEN s ELSE last)
      /\ ordinal' = (IF Replayed(s) THEN AtOf(s) + 1 ELSE AtOf(s))
      /\ UNCHANGED <<slot, cmd, used, archive, raced, mods, fixtures, mixed, upsets>>
  BY BeginsIs
<1>2. bound' \in [Job -> BoundRecord] /\ Sighted'
  BY <1>1, BegunKeeps DEF BeginPc
<1>3. AtOf(s) \in Nat /\ ordinal' \in Nat
  BY <1>1 DEF SpansInv, STypes, AtOf
<1>4. STypes'
  BY <1>1, <1>2, <1>3 DEF SpansInv, STypes
<1>5. Armed(s) => s \in Span /\ s \in used /\ s = slot["global"] /\ Mode[s] # "off"
  <2>1. s \in SpanOrNone
    BY ActiveIsSpan DEF SpansInv, Slot
  <2>2. s \in Span => s = slot["global"]
    BY SpansAssumption DEF Active
  <2> HIDE DEF s
  <2>3. QED
    BY <2>1, <2>2 DEF Armed, SpansInv, Commanded, Known, SpanOrNone
<1>6. Commanded'
  <2> HIDE DEF s
  <2>1. last' \in SpanOrNone /\ (last' # NoSpan => last' \in used /\ Mode[last'] # "off")
    BY <1>1, <1>5 DEF SpansInv, Commanded, Known, SpanOrNone
  <2>2. Known' /\ Held'
    BY <1>1, <2>1 DEF SpansInv, Commanded, Known, Held
  <2>3. \A n \in Cmd : cmd[n].op = "start" => cmd[n].span # last'
    BY <1>1, <1>5 DEF SpansInv, Commanded, Fresh
  <2>4. Fresh'
    BY <1>1, <2>3 DEF SpansInv, Commanded, Fresh
  <2>5. QED
    BY <2>2, <2>4 DEF Commanded
<1>7. \A t \in Span : Over(t)' = Over(t)
  BY <1>1 DEF Over
<1>8. Numbered'
  <2> SUFFICES ASSUME NEW t \in Span \ mixed
               PROVE  /\ t = last' => ordinal' = Place(t)'
                      /\ t # last' /\ Place(t)' # 0 => Over(t)
    BY <1>1, <1>7 DEF SpansInv, Numbered
  <2>1. Place(t)' = IF Replayed(s) /\ t = s THEN Place(t) + 1 ELSE Place(t)
    BY BeginsPlaces
  <2>2. CASE Armed(s) /\ t = s
    <3>1. AtOf(s) = Place(s)
      BY <2>2, AtIsPlace
    <3> HIDE DEF s
    <3>2. QED
      BY <1>1, <2>1, <2>2, <3>1
  <2>3. CASE Armed(s) /\ t # s
    <3> HIDE DEF s
    <3>1. t # last' /\ Place(t)' = Place(t)
      BY <1>1, <2>1, <2>3
    <3>2. ASSUME t = last PROVE Over(t)
      BY <1>5, <2>3, <3>2, SpansAssumption DEF SpansInv, Commanded, Known, Fresh, Over
    <3>3. QED
      BY <3>1, <3>2 DEF SpansInv, Numbered
  <2>4. CASE ~Armed(s)
    <3> HIDE DEF s
    <3>1. last' = last /\ Place(t)' = Place(t) /\ ordinal' = ordinal
      BY <1>1, <2>1, <2>4 DEF Replayed, AtOf, Resets
    <3>2. QED
      BY <3>1 DEF SpansInv, Numbered
  <2>5. QED
    BY <2>2, <2>3, <2>4
<1>9. QED
  BY <1>2, <1>4, <1>6, <1>8 DEF SpansInv

\* Calls that end leave the sight of the others as it was, and no place.
LEMMA EndsKeepSight ==
  ASSUME SpansInv, UNCHANGED slot, bound' \in [Job -> BoundRecord],
         \A x \in Job : bound'[x] = bound[x] \/ (Running(x) /\ bound'[x].pc = "done")
  PROVE  Sighted' /\ \A s \in Span : Asked(s)' = Asked(s)
<1>1. \A k \in Slot : Active(k)' = Active(k)
  BY DEF Active
<1>2. \A x \in Job : Running(x)' => bound'[x] = bound[x]
  BY DEF Running
<1>3. Sighted'
  BY <1>1, <1>2 DEF SpansInv, Sighted, Running
<1>4. \A s \in Span : Asked(s)' = Asked(s)
  BY DEF Asked, Running
<1>5. QED
  BY <1>3, <1>4

\* A call that is done is a call.
LEMMA DoneTyped ==
  ASSUME NEW t \in SpanOrNone
  PROVE  Idle("done", t) \in BoundRecord /\ Idle("done", t).pc = "done" /\ Idle("done", t).task = t
BY DEF Idle, BoundRecord, SpanOrNone

\* A call of the passthrough ends, or any call fails.
LEMMA UnrecordedStep ==
  ASSUME SpansInv, NEW c \in Job, TapEnds(c) \/ Fails(c)
  PROVE  SpansInv'
<1>1. /\ Running(c)
      /\ UNCHANGED <<slot, cmd, used, archive, raced, mods, last, ordinal, fixtures, mixed, upsets>>
  BY DEF TapEnds, Fails, tvars
<1>2. \E t \in SpanOrNone : bound' = [bound EXCEPT ![c] = Idle("done", t)]
  BY DEF TapEnds, Fails, SpansInv, STypes, BoundRecord, SpanOrNone
<1>3. PICK t \in SpanOrNone : bound' = [bound EXCEPT ![c] = Idle("done", t)]
  BY <1>2
<1>4. /\ bound' \in [Job -> BoundRecord] /\ bound'[c].pc = "done"
      /\ \A x \in Job : x # c => bound'[x] = bound[x]
  BY <1>3, DoneTyped DEF SpansInv, STypes
<1>5. Sighted' /\ \A s \in Span : Asked(s)' = Asked(s)
  BY <1>1, <1>4, EndsKeepSight
<1>6. \A s \in Span : Place(s)' = Place(s) /\ Over(s)' = Over(s)
  BY <1>1, <1>5 DEF Place, Over
<1>7. STypes' /\ Commanded' /\ Numbered'
  BY <1>1, <1>4, <1>6 DEF SpansInv, STypes, Commanded, Fresh, Held, Known, Numbered
<1>8. QED
  BY <1>5, <1>7 DEF SpansInv

\* The answer of a call of POST /api/complete is in, and may be recorded.
LEMMA EndsStep ==
  ASSUME SpansInv, NEW c \in Job, Ends(c)
  PROVE  SpansInv'
<1>0. PICK s : s = bound[c].span
  OBVIOUS
<1> DEFINE records == Armed(s) /\ Mode[s] = "record"
<1>1. /\ Running(c) /\ bound' = [bound EXCEPT ![c] = Idle("done", Task(c))]
      /\ fixtures' = IF records THEN [fixtures EXCEPT ![s] = Append(fixtures[s], ordinal)] ELSE fixtures
      /\ ordinal' = IF records THEN ordinal + 1 ELSE ordinal
      /\ mixed' = IF records /\ s # last THEN mixed \cup {s, last} ELSE mixed
      /\ UNCHANGED <<slot, cmd, used, archive, raced, mods, last, upsets>>
  BY <1>0 DEF Ends
<1>2. s \in SpanOrNone /\ (records => s \in Span)
  BY <1>0 DEF SpansInv, STypes, BoundRecord, Armed, SpanOrNone
<1>3. Task(c) \in SpanOrNone
  BY LiveShown, ActiveIsSpan DEF Task, SpansInv, SpanOrNone, Slot
<1>4. /\ bound' \in [Job -> BoundRecord] /\ bound'[c].pc = "done"
      /\ \A x \in Job : x # c => bound'[x] = bound[x]
  BY <1>1, <1>3, DoneTyped DEF SpansInv, STypes
<1> HIDE DEF records
<1>5. Sighted' /\ \A t \in Span : Asked(t)' = Asked(t)
  BY <1>1, <1>4, EndsKeepSight
<1>6. ordinal \in Nat /\ fixtures \in [Span -> Seq(Nat)]
  BY DEF SpansInv, STypes
<1>7. STypes'
  <2>1. ordinal' \in Nat /\ fixtures' \in [Span -> Seq(Nat)]
    BY <1>1, <1>2, <1>6
  <2>2. QED
    BY <1>1, <1>4, <2>1 DEF SpansInv, STypes
<1>8. Commanded' /\ \A t \in Span : Over(t)' = Over(t)
  BY <1>1 DEF SpansInv, Commanded, Fresh, Held, Known, Over
<1>9. Numbered'
  <2>1. CASE ~records
    <3>1. \A t \in Span : Place(t)' = Place(t)
      BY <1>1, <1>5, <2>1 DEF Place
    <3>2. QED
      BY <1>1, <1>8, <2>1, <3>1 DEF SpansInv, Numbered
  <2>2. CASE records /\ s # last
    <3>1. \A t \in Span \ mixed' : t \notin mixed /\ t # last /\ fixtures'[t] = fixtures[t]
      BY <1>1, <1>2, <1>6, <2>2
    <3>2. \A t \in Span \ mixed' : Place(t)' = Place(t)
      BY <1>5, <3>1 DEF Place
    <3>3. QED
      BY <1>1, <1>8, <3>1, <3>2 DEF SpansInv, Numbered
  <2>3. CASE records /\ s = last
    <3>1. /\ mixed' = mixed /\ last' = last /\ s \in Span /\ Mode[s] = "record"
          /\ \A t \in Span : t # s => fixtures'[t] = fixtures[t]
          /\ fixtures'[s] = Append(fixtures[s], ordinal) /\ ordinal' = ordinal + 1
      BY <1>1, <1>2, <1>6, <2>3 DEF records
    <3>2. \A t \in Span : t # s => Place(t)' = Place(t)
      BY <1>5, <3>1 DEF Place
    <3>3. Place(s) = Len(fixtures[s]) /\ Place(s)' = Len(fixtures[s]) + 1
      <4>1. Mode[s] # "replay"
        BY <3>1
      <4>2. Place(s) = Len(fixtures[s]) /\ Place(s)' = Len(fixtures'[s])
        BY <3>1, <4>1, <1>1 DEF Place
      <4>3. fixtures[s] \in Seq(Nat) /\ ordinal \in Nat
        BY <1>6, <3>1
      <4>4. Len(Append(fixtures[s], ordinal)) = Len(fixtures[s]) + 1
        BY <4>3
      <4>5. QED
        BY <3>1, <4>2, <4>4
    <3>4. ASSUME s \notin mixed
          PROVE  /\ ordinal' = Place(s)'
                 /\ \A i \in DOMAIN fixtures'[s] : fixtures'[s][i] = i - 1
      <4>1. /\ ordinal = Len(fixtures[s]) /\ fixtures[s] \in Seq(Nat)
            /\ \A i \in DOMAIN fixtures[s] : fixtures[s][i] = i - 1
        BY <1>6, <2>3, <3>1, <3>3, <3>4 DEF SpansInv, Numbered
      <4>2. QED
        BY <3>1, <3>3, <4>1
    <3>5. ASSUME NEW t \in Span \ mixed
          PROVE  /\ \A i \in DOMAIN fixtures'[t] : fixtures'[t][i] = i - 1
                 /\ t = last' => ordinal' = Place(t)'
                 /\ t # last' /\ Place(t)' # 0 => Over(t)'
      <4>1. CASE t = s
        BY <2>3, <3>1, <3>4, <4>1
      <4>2. CASE t # s
        BY <1>8, <2>3, <3>1, <3>2, <4>2 DEF SpansInv, Numbered
      <4>3. QED
        BY <4>1, <4>2
    <3>6. QED
      BY <3>1, <3>5 DEF Numbered
  <2>4. QED
    BY <2>1, <2>2, <2>3
<1>10. QED
  BY <1>5, <1>7, <1>8, <1>9 DEF SpansInv

\* The proxy restarts.
LEMMA RestartStep ==
  ASSUME SpansInv, Restart
  PROVE  SpansInv'
<1>1. /\ mixed' = (IF last = NoSpan THEN mixed ELSE mixed \cup {last})
      /\ last' = NoSpan /\ ordinal' = 0
      /\ bound' = [c \in Job |-> IF Running(c) THEN Idle("done", NoSpan) ELSE bound[c]]
      /\ UNCHANGED <<slot, cmd, used, archive, raced, mods, fixtures>>
  BY DEF Restart
<1>2. \A c \in Job : /\ bound'[c] \in BoundRecord
                     /\ bound'[c] = bound[c] \/ (Running(c) /\ bound'[c].pc = "done")
  BY <1>1, DoneTyped DEF SpansInv, STypes, SpanOrNone
<1>3. bound' \in [Job -> BoundRecord]
  BY <1>1, <1>2
<1>4. Sighted' /\ \A s \in Span : Asked(s)' = Asked(s)
  BY <1>1, <1>2, <1>3, EndsKeepSight
<1>5. \A s \in Span : Place(s)' = Place(s) /\ Over(s)' = Over(s)
  BY <1>1, <1>4 DEF Place, Over
<1>6. STypes' /\ Commanded'
  BY <1>1, <1>3, SpansAssumption DEF SpansInv, STypes, Commanded, Fresh, Held, Known, SpanOrNone
<1>7. Numbered'
  <2>1. \A t \in Span \ mixed' : t \notin mixed /\ t # last /\ t # last'
    BY <1>1, SpansAssumption
  <2>2. QED
    BY <1>1, <1>5, <2>1 DEF SpansInv, Numbered
<1>8. QED
  BY <1>4, <1>6, <1>7 DEF SpansInv

\* Every step keeps the invariant.
LEMMA SpansInvNext ==
  ASSUME SpansInv, [PNext]_pvars
  PROVE  SpansInv'
<1>1. CASE UNCHANGED pvars
  <2>1. UNCHANGED <<slot, cmd, used, archive, raced, mods, last, ordinal, fixtures, bound, mixed, upsets>>
    BY <1>1 DEF pvars, tvars
  <2>2. STypes'
    BY <2>1 DEF SpansInv, STypes
  <2>3. Sighted'
    BY <2>1 DEF SpansInv, Sighted, Running, Active
  <2>4. Commanded'
    BY <2>1 DEF SpansInv, Commanded, Fresh, Held, Known
  <2>5. \A s \in Span : Place(s)' = Place(s) /\ Over(s)' = Over(s)
    BY <2>1 DEF Place, Asked, Over
  <2>6. Numbered'
    BY <2>1, <2>5 DEF SpansInv, Numbered
  <2>7. QED
    BY <2>2, <2>3, <2>4, <2>6 DEF SpansInv
<1>2. CASE \E n \in Cmd :
             \/ StartEnds(n) \/ StartLost(n) \/ Archives(n) \/ Removes(n) \/ Dies(n) \/ ClearAgent(n)
             \/ \E k \in Slot : StopReads(n, k) \/ \E s \in Span : StartBegins(n, k, s)
  BY <1>2, StartBeginsStep, StartEndsStep, StopStep, EndsCommandStep
<1>3. CASE \E c \in Job : TapBegins(c) \/ TapEnds(c) \/ Begins(c) \/ Ends(c) \/ Fails(c)
  BY <1>3, TapStep, UnrecordedStep, BeginsStep, EndsStep
<1>4. CASE Restart
  BY <1>4, RestartStep
<1>5. QED
  BY <1>1, <1>2, <1>3, <1>4 DEF PNext

\* Only an answer binds a row, to what the call began with or to what is live; and only
\* the end of a stop clears the slot for all, of what it has archived or what raced it.
LEMMA HonoursStep ==
  ASSUME SpansInv, [PNext]_pvars
  PROVE  /\ \A c \in Job : Answered(c) =>
              /\ bound'[c].task \in bound[c].seen \cup {NoSpan}
              /\ c \notin Tap \cup Background /\ slot["global"] \in Span \ Ambient =>
                   bound'[c].task \notin Ambient
         /\ slot["global"] \in Span /\ slot'["global"] = NoSpan =>
              slot["global"] \in archive' \/ "global" \in raced
<1>1. ASSUME NEW c \in Job, Answered(c)
      PROVE  \/ TapEnds(c) \/ Ends(c) \/ Fails(c)
             \/ bound'[c].task = NoSpan
  <2>1. Running(c) /\ bound[c].pc = "open" /\ bound'[c].pc = "done"
    BY <1>1 DEF Answered, Running
  <2>2. bound'[c] # bound[c] /\ bound' # bound
    BY <2>1
  <2>3. \/ Restart \/ \E k \in Cmd : StartEnds(k)
        \/ \E x \in Job : TapBegins(x) \/ TapEnds(x) \/ Begins(x) \/ Ends(x) \/ Fails(x)
    BY <2>2 DEF PNext, pvars, StartLost, StopReads, Archives, Removes, Dies, StartBegins, ClearAgent
  <2>4. CASE Restart
    BY <2>1, <2>4, DoneTyped DEF Restart, Running, Idle
  <2>5. ASSUME NEW k \in Cmd, StartEnds(k) PROVE FALSE
    <3>1. bound[c] \in BoundRecord
      BY DEF SpansInv, STypes
    <3>2. bound'[c].pc = bound[c].pc
      BY <2>1, <2>5, <3>1 DEF StartEnds, BoundRecord, Running
    <3>3. QED
      BY <2>1, <3>2
  <2>6. ASSUME NEW x \in Job, TapBegins(x) \/ TapEnds(x) \/ Begins(x) \/ Ends(x) \/ Fails(x)
        PROVE  TapEnds(c) \/ Ends(c) \/ Fails(c)
    <3>1. bound \in [Job -> BoundRecord]
      BY DEF SpansInv, STypes
    <3>2. x # c => bound'[c] = bound[c]
      BY <2>6, <3>1 DEF TapBegins, TapEnds, Begins, Ends, Fails, Begun
    <3>3. x = c
      BY <2>2, <3>2
    <3>4. bound[x].pc # "new"
      BY <2>1, <3>3
    <3>5. QED
      BY <2>6, <3>3, <3>4 DEF TapBegins, Begins
  <2>7. QED
    BY <2>3, <2>4, <2>5, <2>6
<1>2. ASSUME NEW c \in Job, Answered(c)
      PROVE  /\ bound'[c].task \in bound[c].seen \cup {NoSpan}
             /\ c \notin Tap \cup Background /\ slot["global"] \in Span \ Ambient =>
                  bound'[c].task \notin Ambient
  <2>0. /\ Running(c) /\ bound[c] \in BoundRecord /\ bound \in [Job -> BoundRecord]
        /\ bound[c].task \in SpanOrNone /\ NoSpan \in SpanOrNone /\ NoSpan \notin Ambient
    <3>1. Running(c) /\ bound \in [Job -> BoundRecord]
      BY <1>2 DEF Answered, SpansInv, STypes
    <3>2. bound[c] \in BoundRecord
      BY <3>1
    <3>3. bound[c].task \in SpanOrNone
      BY <3>2 DEF BoundRecord
    <3>4. NoSpan \in SpanOrNone /\ NoSpan \notin Ambient
      BY SpansAssumption DEF SpanOrNone
    <3>5. QED
      BY <3>1, <3>2, <3>3, <3>4
  <2>1. CASE bound'[c].task = NoSpan
    BY <2>0, <2>1
  <2>2. CASE TapEnds(c)
    <3>1. c \in Tap /\ bound'[c] = Idle("done", bound[c].task)
      BY <2>0, <2>2 DEF TapEnds
    <3>2. QED
      BY <2>0, <3>1, DoneTyped DEF SpansInv, Sighted
  <2>3. CASE Fails(c)
    BY <2>0, <2>3, DoneTyped DEF Fails
  <2>4. CASE Ends(c)
    <3>1. Task(c) \in {NoSpan, Live} /\ Live \in {Active("agent"), Active("global")}
      BY LiveShown DEF Task, SpansInv
    <3>2. Active("agent") \in SpanOrNone /\ Active("global") \in SpanOrNone
      BY ActiveIsSpan DEF SpansInv, Slot
    <3>3. bound'[c] = Idle("done", Task(c)) /\ bound'[c].task = Task(c)
      BY <2>0, <2>4, <3>1, <3>2, DoneTyped DEF Ends
    <3>4. {Active("agent"), Active("global"), NoSpan} \subseteq bound[c].seen \cup {NoSpan}
      BY <2>0 DEF SpansInv, Sighted, Slot
    <3>5. ASSUME slot["global"] \in Span \ Ambient PROVE Task(c) \notin Ambient
      <4>1. Active("global") = slot["global"] /\ Active("global") # NoSpan
        BY <3>5, SpansAssumption DEF Active
      <4>2. Live \notin Ambient
        BY <3>5, <4>1 DEF Live
      <4>3. QED
        BY <2>0, <3>1, <4>2
    <3>6. QED
      BY <3>1, <3>3, <3>4, <3>5
  <2>5. QED
    BY <1>1, <1>2, <2>1, <2>2, <2>3, <2>4
<1>3. ASSUME slot["global"] \in Span, slot'["global"] = NoSpan
      PROVE  slot["global"] \in archive' \/ "global" \in raced
  <2>1. /\ slot'["global"] # slot["global"] /\ NoSpan \notin {TornSpan, GarbledSpan}
        /\ NoSpan \notin Span /\ slot \in [Slot -> Content] /\ "global" \in Slot
    BY <1>3, SpansAssumption DEF SpansInv, STypes, Slot
  <2>2. PICK n \in Cmd : StartEnds(n) \/ Removes(n) \/ ClearAgent(n)
                          \/ \E k \in Slot : \E s \in Span : StartBegins(n, k, s)
    BY <2>1 DEF PNext, pvars, StartLost, StopReads, Archives, Dies, TapBegins, TapEnds, Begins, Ends,
                Fails, Restart
  <2>3. ~StartEnds(n)
    <3>1. StartEnds(n) => cmd[n].span \in Span
      BY DEF StartEnds, SpansInv, Commanded, Fresh
    <3>2. QED
      BY <1>3, <2>1, <3>1 DEF StartEnds
  <2>4. ~ClearAgent(n) /\ \A k \in Slot : \A s \in Span : ~StartBegins(n, k, s)
    BY <1>3, <2>1 DEF ClearAgent, Unlinked, StartBegins
  <2>5. Removes(n) /\ cmd[n].slot = "global" /\ cmd[n].op = "archived" /\ archive' = archive
    BY <2>1, <2>2, <2>3, <2>4 DEF Removes, Unlinked
  <2>6. QED
    BY <1>3, <2>5 DEF SpansInv, Commanded, Held
<1>4. QED
  BY <1>2, <1>3

\* A row is booked on a span that was open while its call ran, never on the reconciler's
\* while a deliberate one is open, and no span is lost but one that a start wrote while
\* a stop was under way: for any spans, calls and overlapping commands, whenever one is
\* killed.
THEOREM SpansKept == PSpec => SpansHonoured
<1>1. SpansInv /\ [PNext]_pvars =>
        [\A c \in Job : Answered(c) => bound'[c].task \in bound[c].seen \cup {NoSpan}]_bound
  BY HonoursStep
<1>2. SpansInv /\ [PNext]_pvars =>
        [\A c \in Job \ (Tap \cup Background) :
           Answered(c) /\ slot["global"] \in Span \ Ambient => bound'[c].task \notin Ambient]_bound
  BY HonoursStep
<1>3. SpansInv /\ [PNext]_pvars =>
        [slot["global"] \in Span /\ slot'["global"] = NoSpan =>
           slot["global"] \in archive' \/ "global" \in raced]_slot
  BY HonoursStep
<1>4. SpansInv /\ [PNext]_pvars => SpansInv'
  BY SpansInvNext
<1>5. QED
  BY <1>1, <1>2, <1>3, <1>4, SpansInvInit, PTL
     DEF PSpec, SpansHonoured, NoBorrowedTask, DeliberateWins, NoSpanVanishes

\* A call that misses has asked beyond what was recorded.
LEMMA MissStep ==
  ASSUME SpansInv, [PNext]_pvars, NEW c \in Job, NEW s, s = bound'[c].span,
         bound[c].pc = "new", bound'[c].pc = "missed", {s, From[s]} \cap mixed = {}
  PROVE  Cardinality({x \in Job : bound'[x].span = s /\ bound'[x].pc \in {"replayed", "missed"}})
           > Len(fixtures[From[s]])
<1> DEFINE g == Active("global")
<1>1. Begins(c)
  <2>1. bound'[c] # bound[c] /\ bound' # bound /\ bound \in [Job -> BoundRecord]
    BY DEF SpansInv, STypes
  <2>2. \/ Restart \/ \E k \in Cmd : StartEnds(k)
        \/ \E x \in Job : TapBegins(x) \/ TapEnds(x) \/ Begins(x) \/ Ends(x) \/ Fails(x)
    BY <2>1 DEF PNext, pvars, StartLost, StopReads, Archives, Removes, Dies, StartBegins, ClearAgent
  <2>3. ~Restart
    BY <2>1 DEF Restart, Running
  <2>4. \A k \in Cmd : ~StartEnds(k)
    BY <2>1 DEF StartEnds, Running
  <2>5. ASSUME NEW x \in Job, TapBegins(x) \/ TapEnds(x) \/ Begins(x) \/ Ends(x) \/ Fails(x)
        PROVE  Begins(c)
    <3>1. x # c => bound'[c] = bound[c]
      BY <2>1, <2>5 DEF TapBegins, TapEnds, Begins, Ends, Fails, Begun
    <3>2. x = c
      BY <2>1, <3>1
    <3>3. ~TapEnds(c) /\ ~Ends(c) /\ ~Fails(c)
      BY DEF TapEnds, Ends, Fails, Running
    <3>4. ~TapBegins(c)
      BY <2>1 DEF TapBegins, Begun
    <3>5. QED
      BY <2>5, <3>2, <3>3, <3>4
  <2>6. QED
    BY <2>2, <2>3, <2>4, <2>5
<1>2. /\ Begun(c, BeginPc(g)) /\ UNCHANGED <<slot, fixtures, mixed>>
  BY <1>1, BeginsIs
<1>3. s = g /\ BeginPc(g) = "missed"
  BY <1>1, <1>2, BegunKeeps DEF BeginPc, Begins
<1>4. Replayed(s) /\ ~Hit(s) /\ Mode[s] = "replay"
  BY <1>3 DEF BeginPc, Replayed
<1>5. s \in Span /\ AtOf(s) = Place(s) /\ From[s] \in Span
  BY <1>3, <1>4, AtIsPlace, SpansAssumption DEF Replayed
<1>6. Place(s) \in Nat /\ Place(s)' = Place(s) + 1 /\ Place(s)' = Cardinality(Asked(s)')
  BY <1>1, <1>3, <1>4, <1>5, BeginsPlaces, PlaceIsNat DEF SpansInv, Place
<1>7. fixtures[From[s]] \in Seq(Nat) /\ \A i \in DOMAIN fixtures[From[s]] : fixtures[From[s]][i] = i - 1
  BY <1>5 DEF SpansInv, STypes, Numbered
<1>8. Place(s) >= Len(fixtures[From[s]])
  <2> SUFFICES ASSUME Place(s) < Len(fixtures[From[s]]) PROVE FALSE
    BY <1>6, <1>7
  <2>1. Place(s) + 1 \in DOMAIN fixtures[From[s]]
    BY <1>6, <1>7
  <2>2. fixtures[From[s]][Place(s) + 1] = AtOf(s)
    BY <1>5, <1>6, <1>7, <2>1
  <2>3. QED
    BY <1>4, <2>1, <2>2 DEF Hit
<1>9. Cardinality(Asked(s)') > Len(fixtures[From[s]])
  BY <1>6, <1>7, <1>8
<1>10. QED
  BY <1>9 DEF Asked

\* The calls of a recording are numbered without a gap, and a replay misses only beyond
\* them, as long as no other armed span and no restart came between: for any spans and
\* calls.
THEOREM RecordingsReplay == PSpec => ReplayFaithful
<1>1. SpansInv => FixturesLineUp
  BY DEF SpansInv, Numbered, FixturesLineUp
<1>2. SpansInv /\ [PNext]_pvars =>
        [\A c \in Job :
           LET s == bound'[c].span IN
           bound[c].pc = "new" /\ bound'[c].pc = "missed" /\ {s, From[s]} \cap mixed = {} =>
             Cardinality({x \in Job : bound'[x].span = s /\ bound'[x].pc \in {"replayed", "missed"}})
               > Len(fixtures[From[s]])]_bound
  BY MissStep
<1>3. SpansInv /\ [PNext]_pvars => SpansInv'
  BY SpansInvNext
<1>4. QED
  BY <1>1, <1>2, <1>3, SpansInvInit, PTL DEF PSpec, ReplayFaithful, ReplayHits
=============================================================================
