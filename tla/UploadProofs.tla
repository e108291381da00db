--------------------------- MODULE UploadProofs ---------------------------
(***************************************************************************)
(* Theorems about Upload, for every policy, size, number of attempts, runs *)
(* and failures: that nothing but the file gets its object's name or is    *)
(* verified, that the job never replaces what others wrote, and that a     *)
(* slice that was uploaded is not sent again. Inv below is the inductive   *)
(* invariant: what each request and session on its way to the server may   *)
(* carry, and what the row, the attempt and its streams hold of the file;  *)
(* TypedInv and LookedInv strengthen it. The last sections are about       *)
(* SlicePlan, the loops that cut the slices Upload reckons with in closed  *)
(* form.                                                                   *)
(***************************************************************************)
EXTENDS SlicePlan, Upload, WellFoundedInduction, TLAPS
---------------------------------------------------------------------------
(* Arithmetic: the slices of a size tile it *)

LEMMA CeilBounds ==
  ASSUME NEW a \in Nat, NEW b \in Nat \ {0}
  PROVE  /\ CeilDiv(a, b) \in Nat
         /\ a <= b * CeilDiv(a, b) /\ b * CeilDiv(a, b) < a + b
         /\ a > 0 => CeilDiv(a, b) > 0
<1> DEFINE q == (a + b - 1) \div b
<1>1. q \in Int /\ b * q <= a + b - 1 /\ a + b - 1 < b * q + b
  BY Z3 DEF q
<1> QED BY <1>1, SMT DEF CeilDiv

LEMMA SizeIsPositive ==
  ASSUME NEW p \in SizePolicies, NEW z \in Nat, z > 0
  PROVE  SliceSize(p, z) \in Nat \ {0}
<1>1. p.max_components \in Nat \ {0} /\ p.min_slice \in Int
  BY DEF SizePolicies
<1> DEFINE q == CeilDiv(z, p.max_components)
<1>2. q \in Nat /\ q > 0
  BY <1>1, CeilBounds
<1>3. SliceSize(p, z) = Larger(p.min_slice, q)
  BY DEF SliceSize
<1> HIDE DEF q
<1> QED BY <1>1, <1>2, <1>3, SMT DEF Larger

\* A slice below the count begins inside the file and ends where the next begins, or
\* at the end.
LEMMA SlicesTile ==
  ASSUME NEW p \in SizePolicies, NEW z \in Nat
  PROVE  /\ SliceCount(p, z) \in Nat \ {0} /\ SliceCount(p, z) <= Larger(1, z)
         /\ SliceOffset(p, z, 0) = 0
         /\ \A i \in 0..SliceCount(p, z) - 1 :
              /\ SliceOffset(p, z, i) \in Nat /\ SliceLength(p, z, i) \in Nat
              /\ SliceOffset(p, z, i) + SliceLength(p, z, i) <= z
              /\ i = SliceCount(p, z) - 1 => SliceOffset(p, z, i) + SliceLength(p, z, i) = z
              /\ i # SliceCount(p, z) - 1 =>
                   SliceOffset(p, z, i) + SliceLength(p, z, i) = SliceOffset(p, z, i + 1)
<1>1. CASE z = 0
  BY <1>1 DEF SliceCount, SliceOffset, SliceLength, Larger
<1>2. CASE z > 0
  <2> DEFINE F == SliceSize(p, z)
             n == CeilDiv(z, F)
  <2>1. F \in Nat \ {0}
    BY <1>2, SizeIsPositive
  <2>2. n \in Nat \ {0} /\ z <= F * n /\ F * n < z + F
    <3> HIDE DEF F
    <3>1. /\ CeilDiv(z, F) \in Nat /\ CeilDiv(z, F) > 0
          /\ z <= F * CeilDiv(z, F) /\ F * CeilDiv(z, F) < z + F
      BY <1>2, <2>1, CeilBounds
    <3> QED BY <3>1
  <2>3. /\ SliceCount(p, z) = n
        /\ \A i : SliceOffset(p, z, i) = i * F /\ SliceLength(p, z, i) = Smaller(F, z - i * F)
    BY <1>2 DEF SliceCount, SliceOffset, SliceLength
  <2> HIDE DEF F, n
  <2>4. n <= z
    <3>1. SUFFICES ASSUME n > z PROVE FALSE
      BY <2>2
    <3>2. F * n >= F * (z + 1) /\ F * (z + 1) = F * z + F /\ F * z >= z
      BY <2>1, <2>2, <3>1, Z3
    <3> QED BY <2>1, <2>2, <3>2, Z3
  <2>5. ASSUME NEW i \in 0..n - 1
        PROVE  /\ i * F \in Nat /\ i * F < z /\ (i + 1) * F = i * F + F
               /\ i = n - 1 => z <= i * F + F
               /\ i # n - 1 => (i + 1) * F < z
    <3>1. i * F \in Nat /\ (i + 1) * F = i * F + F
      BY <2>1, Z3
    <3>2. i * F <= (n - 1) * F /\ (n - 1) * F = F * n - F
      BY <2>1, <2>2, Z3
    <3>3. i # n - 1 => (i + 1) * F <= (n - 1) * F
      BY <2>1, <2>2, Z3
    <3>4. i = n - 1 => i * F = F * n - F
      BY <3>2
    <3> DEFINE a == i * F  b == (i + 1) * F  c == (n - 1) * F  d == F * n
    <3>5. d \in Int /\ c \in Int
      BY <2>1, <2>2, Z3
    <3>6. a \in Nat /\ b = a + F /\ a <= c /\ c = d - F /\ (i # n - 1 => b <= c) /\ (i = n - 1 => a = d - F)
      BY <3>1, <3>2, <3>3, <3>4
    <3>7. z <= d /\ d < z + F
      BY <2>2
    <3> HIDE DEF a, b, c, d
    <3>8. /\ a \in Nat /\ a < z /\ b = a + F
          /\ i = n - 1 => z <= a + F
          /\ i # n - 1 => b < z
      BY <2>1, <3>5, <3>6, <3>7, SMT
    <3> QED BY <3>8 DEF a, b
  <2>6. n <= Larger(1, z)
    BY <2>2, <2>4, SMT DEF Larger
  <2>7. SliceOffset(p, z, 0) = 0
    BY <2>1, <2>3, Z3
  <2>8. ASSUME NEW i \in 0..n - 1
        PROVE  /\ SliceOffset(p, z, i) \in Nat /\ SliceLength(p, z, i) \in Nat
               /\ SliceOffset(p, z, i) + SliceLength(p, z, i) <= z
               /\ i = n - 1 => SliceOffset(p, z, i) + SliceLength(p, z, i) = z
               /\ i # n - 1 => SliceOffset(p, z, i) + SliceLength(p, z, i) = SliceOffset(p, z, i + 1)
    <3> DEFINE a == i * F  b == (i + 1) * F
    <3>1. /\ a \in Nat /\ a < z /\ b = a + F /\ (i = n - 1 => z <= a + F) /\ (i # n - 1 => b < z)
      BY <2>5
    <3>2. /\ SliceOffset(p, z, i) = a /\ SliceLength(p, z, i) = Smaller(F, z - a)
          /\ SliceOffset(p, z, i + 1) = b
      BY <2>3
    <3> HIDE DEF a, b
    <3> QED BY <2>1, <3>1, <3>2, SMT DEF Smaller
  <2> QED BY <2>2, <2>3, <2>6, <2>7, <2>8
<1> QED BY <1>1, <1>2, SMT

---------------------------------------------------------------------------
(* Sequences put together *)

Data == Seq(Nat)

LEMMA Least == ASSUME NEW S \in SUBSET Nat, S # {} PROVE \E m \in S : \A k \in S : m <= k
<1>1. PICK m \in S : \A k \in S : ~ (<<k, m>> \in OpToRel(<, Nat))
  BY WFMin, NatLessThanWellFounded, Zenon
<1>2. \A k \in S : ~ (k < m)
  BY <1>1, Zenon DEF OpToRel
<1> QED BY <1>2

Flattens(f, parts) ==
  f = [i \in 1..Len(parts) |-> IF i = 1 THEN parts[i] ELSE f[i - 1] \o parts[i]]

LEMMA FlattenIs ==
  ASSUME NEW parts, Len(parts) # 0
  PROVE  FlattenSeq(parts) = (CHOOSE f : Flattens(f, parts))[Len(parts)]
  BY DEF FlattenSeq, Flattens

\* Whatever puts the parts together step by step is what FlattenSeq does.
LEMMA FlattenUnique ==
  ASSUME NEW n \in Nat \ {0}, NEW parts, Len(parts) = n, NEW f, NEW g,
         Flattens(f, parts), Flattens(g, parts)
  PROVE  f[n] = g[n]
<1> DEFINE B == {i \in 1..n : f[i] # g[i]}
<1>1. SUFFICES B = {}
  BY <1>1
<1>2. SUFFICES ASSUME B # {} PROVE FALSE
  OBVIOUS
<1>3. PICK m \in B : \A k \in B : m <= k
  <2>1. B \in SUBSET Nat
    OBVIOUS
  <2> HIDE DEF B
  <2> QED BY <1>2, <2>1, Least
<1>4. m \in 1..n /\ f[m] # g[m]
  OBVIOUS
<1>5. CASE m = 1
  BY <1>4, <1>5 DEF Flattens
<1>6. CASE m > 1
  <2>1. m - 1 \in 1..n /\ m - 1 \notin B
    BY <1>3, <1>4, <1>6
  <2>2. f[m - 1] = g[m - 1]
    BY <2>1
  <2>3. f[m] = f[m - 1] \o parts[m]
    BY <1>4, <1>6 DEF Flattens
  <2>4. g[m] = g[m - 1] \o parts[m]
    BY <1>4, <1>6 DEF Flattens
  <2> HIDE DEF B
  <2> QED BY <1>4, <2>2, <2>3, <2>4
<1> QED BY <1>4, <1>5, <1>6

LEMMA FlattenFound ==
  ASSUME NEW n \in Nat \ {0}, NEW parts, Len(parts) = n, NEW f, Flattens(f, parts)
  PROVE  FlattenSeq(parts) = f[n]
<1> DEFINE g == CHOOSE h : Flattens(h, parts)
<1>1. Flattens(g, parts)
  OBVIOUS
<1>2. FlattenSeq(parts) = g[n]
  BY FlattenIs
<1> HIDE DEF g
<1> QED BY <1>1, <1>2, FlattenUnique

LEMMA Adjacent ==
  ASSUME NEW s \in Data, NEW a \in 0..Len(s), NEW b \in a..Len(s)
  PROVE  SubSeq(s, 1, a) \o SubSeq(s, a + 1, b) = SubSeq(s, 1, b)
  BY DEF Data

\* Pieces that follow one another make the whole.
LEMMA PiecesMakeTheWhole ==
  ASSUME NEW n \in Nat \ {0}, NEW whole \in Data, NEW cut, NEW parts, Len(parts) = n,
         \A i \in 0..n : cut[i] \in 0..Len(whole),
         cut[0] = 0, cut[n] = Len(whole),
         \A i \in 1..n : cut[i - 1] <= cut[i] /\ parts[i] = SubSeq(whole, cut[i - 1] + 1, cut[i])
  PROVE  FlattenSeq(parts) = whole
<1> DEFINE f == [i \in 1..n |-> SubSeq(whole, 1, cut[i])]
<1>1. ASSUME NEW i \in 1..n
      PROVE  f[i] = IF i = 1 THEN parts[i] ELSE f[i - 1] \o parts[i]
  <2>1. CASE i = 1
    <3>1. parts[1] = SubSeq(whole, 1, cut[1])
      <4>1. 1 \in 1..n /\ 1 - 1 = 0
        OBVIOUS
      <4>2. parts[1] = SubSeq(whole, cut[1 - 1] + 1, cut[1])
        BY <4>1
      <4> QED BY <4>1, <4>2
    <3> QED BY <2>1, <3>1
  <2>2. CASE i # 1
    <3>1. i - 1 \in 1..n /\ i - 1 \in 0..n /\ i \in 0..n
      BY <2>2
    <3>2. cut[i - 1] \in 0..Len(whole) /\ cut[i] \in cut[i - 1]..Len(whole)
      BY <3>1
    <3>3. SubSeq(whole, 1, cut[i - 1]) \o SubSeq(whole, cut[i - 1] + 1, cut[i]) = SubSeq(whole, 1, cut[i])
      BY <3>2, Adjacent
    <3> QED BY <2>2, <3>1, <3>3
  <2> QED BY <2>1, <2>2
<1>2. Flattens(f, parts)
  BY <1>1 DEF Flattens
<1>3. f[n] = whole
  <2>1. f[n] = SubSeq(whole, 1, Len(whole))
    OBVIOUS
  <2> QED BY <2>1 DEF Data
<1> HIDE DEF f
<1>4. FlattenSeq(parts) = f[n]
  BY <1>2, FlattenFound
<1> QED BY <1>3, <1>4

\* Pieces of data make data.
LEMMA PiecesMakeData ==
  ASSUME NEW parts \in Seq(Data)
  PROVE  FlattenSeq(parts) \in Data
<1> DEFINE n == Len(parts)
           Step(f, m) == \A i \in 1..m : f[i] = IF i = 1 THEN parts[i] ELSE f[i - 1] \o parts[i]
           B == {m \in 1..n : ~ \E f \in [1..m -> Data] : Step(f, m)}
<1>1. CASE n = 0
  BY <1>1 DEF FlattenSeq, Data
<1>2. CASE n > 0
  <2>1. n \in Nat \ {0} /\ \A i \in 1..n : parts[i] \in Data
    BY <1>2
  <2>2. B = {}
    <3>1. SUFFICES ASSUME B # {} PROVE FALSE
      OBVIOUS
    <3>2. PICK m \in B : \A k \in B : m <= k
      <4>1. B \in SUBSET Nat
        OBVIOUS
      <4> HIDE DEF B
      <4> QED BY <3>1, <4>1, Least
    <3>3. m \in 1..n
      OBVIOUS
    <3>4. CASE m = 1
      <4> DEFINE f == [i \in 1..1 |-> parts[1]]
      <4>1. f \in [1..m -> Data] /\ Step(f, m)
        BY <2>1, <3>4
      <4> QED BY <4>1
    <3>5. CASE m > 1
      <4>1. m - 1 \in 1..n /\ m - 1 \notin B
        <5>1. m - 1 \in 1..n /\ ~ (m <= m - 1)
          BY <3>3, <3>5
        <5> HIDE DEF B
        <5> QED BY <3>2, <5>1
      <4>2. PICK f \in [1..m - 1 -> Data] : Step(f, m - 1)
        BY <4>1
      <4> DEFINE g == [i \in 1..m |-> IF i < m THEN f[i] ELSE f[m - 1] \o parts[m]]
      <4>3. f[m - 1] \o parts[m] \in Data
        BY <2>1, <3>3, <3>5, <4>2 DEF Data
      <4>4. g \in [1..m -> Data]
        BY <4>2, <4>3, <3>3
      <4>5. ASSUME NEW i \in 1..m
            PROVE  g[i] = IF i = 1 THEN parts[i] ELSE g[i - 1] \o parts[i]
        <5>1. CASE i < m
          <6>1. i \in 1..m - 1 /\ (i # 1 => i - 1 \in 1..m /\ i - 1 < m)
            BY <3>3, <5>1
          <6>2. f[i] = IF i = 1 THEN parts[i] ELSE f[i - 1] \o parts[i]
            BY <4>2, <6>1
          <6> QED BY <5>1, <6>1, <6>2
        <5>2. CASE i = m
          <6>1. i # 1 /\ i - 1 = m - 1 /\ m - 1 \in 1..m /\ m - 1 < m
            BY <3>3, <3>5, <5>2
          <6>2. m \in Nat /\ m \in 1..m /\ ~ (m < m)
            BY <2>1, <3>3
          <6>3. g[m] = f[m - 1] \o parts[m]
            BY <6>2
          <6>4. g[m - 1] = f[m - 1]
            BY <6>1, <6>2
          <6> HIDE DEF g
          <6> QED BY <5>2, <6>1, <6>3, <6>4
        <5> QED BY <3>3, <5>1, <5>2
      <4> QED BY <4>4, <4>5
    <3> QED BY <3>3, <3>4, <3>5
  <2>3. PICK f \in [1..n -> Data] : Step(f, n)
    BY <2>1, <2>2
  <2>4. Flattens(f, parts)
    BY <2>3 DEF Flattens
  <2>5. FlattenSeq(parts) = f[n]
    BY <2>1, <2>4, FlattenFound
  <2> QED BY <2>1, <2>3, <2>5
<1> QED BY <1>1, <1>2

---------------------------------------------------------------------------
(* What the server makes of a request *)

Objects == [gen: Nat, data: Data, by: {"nobody", "job", "other"}, hash: Data]
Sessions ==
  [unit: Units, target: {"temp", "destination"}, total: Nat, match: Int, data: Data,
   state: {"open", "final", "refused", "gone"}, meta: Objects]
Buckets == [dest: Objects, temps: [Units -> Objects], sessions: Seq(Sessions), gen: Nat]

LEMMA ConstantsAre ==
  /\ MaxEdits \in Nat /\ MaxSize \in Nat \ {0}
  /\ None \in Data /\ Alien \in Data /\ Absent \in Objects
<1>1. MaxEdits \in Nat /\ MaxSize \in Nat \ {0}
  BY UploadAssumption
<1>2. None \in Data /\ Alien \in Data
  BY <1>1 DEF None, Alien, Data
<1> QED BY <1>1, <1>2 DEF Absent, Objects

LEMMA StoredIs ==
  ASSUME NEW b \in Buckets, NEW data \in Data, NEW hash \in Data
  PROVE  Stored(b, data, hash) \in Objects /\ Stored(b, data, hash).data = data /\ Stored(b, data, hash).by = "job"
  BY DEF Stored, Objects, Buckets

\* A whole object has the name afterwards only if the precondition held.
Lands(b, c, match, data) ==
  c.dest = b.dest \/ (b.dest.gen = match /\ c.dest.by = "job" /\ c.dest.data = data)

\* An object, the temporary ones or the generation are set, and nothing else.
WithDest(b, o) == [b EXCEPT !.dest = o]
WithTemps(b, t) == [b EXCEPT !.temps = t]
WithGen(b, g) == [b EXCEPT !.gen = g]
WithSession(b, s, f) == [b EXCEPT !.sessions = [b.sessions EXCEPT ![s] = f]]
LEMMA DestSet ==
  ASSUME NEW b \in Buckets, NEW o \in Objects
  PROVE  /\ WithDest(b, o) \in Buckets /\ WithDest(b, o).dest = o
         /\ WithDest(b, o).sessions = b.sessions /\ WithDest(b, o).temps = b.temps
         /\ WithDest(b, o).gen = b.gen
  BY DEF Buckets, WithDest
LEMMA TempsSet ==
  ASSUME NEW b \in Buckets, NEW t \in [Units -> Objects]
  PROVE  /\ WithTemps(b, t) \in Buckets /\ WithTemps(b, t).dest = b.dest
         /\ WithTemps(b, t).sessions = b.sessions /\ WithTemps(b, t).gen = b.gen
  BY DEF Buckets, WithTemps
LEMMA GenSet ==
  ASSUME NEW b \in Buckets, NEW g \in Nat
  PROVE  /\ WithGen(b, g) \in Buckets /\ WithGen(b, g).dest = b.dest
         /\ WithGen(b, g).sessions = b.sessions /\ WithGen(b, g).temps = b.temps
  BY DEF Buckets, WithGen

LEMMA ReplaceIs ==
  ASSUME NEW b \in Buckets, NEW data \in Data, NEW hash \in Data
  PROVE  /\ Replace(b, data, hash) \in Buckets
         /\ Replace(b, data, hash).sessions = b.sessions
         /\ Replace(b, data, hash).dest.by = "job" /\ Replace(b, data, hash).dest.data = data
<1> DEFINE o == Stored(b, data, hash)
<1>1. o \in Objects /\ o.data = data /\ o.by = "job"
  BY StoredIs
<1> DEFINE n == b.gen + 1
           c == WithDest(b, o)
<1>2. Replace(b, data, hash) = WithGen(c, n)
  BY DEF Replace, WithDest, WithGen
<1>3. n \in Nat
  BY DEF Buckets
<1> HIDE DEF o, n
<1>4. c \in Buckets /\ c.sessions = b.sessions /\ c.dest = o
  BY <1>1, DestSet
<1> HIDE DEF c
<1>5. WithGen(c, n) \in Buckets /\ WithGen(c, n).dest = c.dest /\ WithGen(c, n).sessions = c.sessions
  BY <1>3, <1>4, GenSet
<1> QED BY <1>1, <1>2, <1>4, <1>5

LEMMA PutIs ==
  ASSUME NEW b \in Buckets, NEW data \in Data, NEW crc, NEW match, NEW hash \in Data
  PROVE  /\ PutWhole(b, data, crc, match, hash) \in Buckets
         /\ PutWhole(b, data, crc, match, hash).sessions = b.sessions
         /\ Lands(b, PutWhole(b, data, crc, match, hash), match, data)
         /\ PutAnswer(b, data, crc, match) \in {"mismatch", "conflict", "done"}
<1>1. CASE data = crc /\ b.dest.gen = match
  BY <1>1, ReplaceIs DEF PutWhole, PutAnswer, Lands
<1>2. CASE ~ (data = crc /\ b.dest.gen = match)
  <2>1. PutAnswer(b, data, crc, match) \in {"mismatch", "conflict"}
    BY <1>2 DEF PutAnswer
  <2>2. PutWhole(b, data, crc, match, hash) = b
    BY <2>1 DEF PutWhole
  <2> QED BY <2>1, <2>2 DEF Lands
<1> QED BY <1>1, <1>2

LEMMA JoinedIsData == ASSUME NEW metas \in Seq(Objects) PROVE Joined(metas) \in Data
<1> DEFINE parts == [u \in DOMAIN metas |-> metas[u].data]
<1>1. parts \in Seq(Data)
  <2>1. DOMAIN metas = 1..Len(metas) /\ Len(metas) \in Nat
    OBVIOUS
  <2>2. ASSUME NEW u \in 1..Len(metas) PROVE metas[u].data \in Data
    <3>1. metas[u] \in Objects
      OBVIOUS
    <3> QED BY <3>1 DEF Objects
  <2>3. parts \in [1..Len(metas) -> Data]
    BY <2>1, <2>2
  <2> HIDE DEF parts
  <2> QED BY <2>1, <2>3
<1>2. Joined(metas) = FlattenSeq(parts)
  BY DEF Joined
<1> HIDE DEF parts
<1> QED BY <1>1, <1>2, PiecesMakeData

LEMMA ComposedIs ==
  ASSUME NEW b \in Buckets, NEW metas \in Seq(Objects), NEW match
  PROVE  /\ Composed(b, metas, match) \in Buckets
         /\ Composed(b, metas, match).sessions = b.sessions
         /\ Lands(b, Composed(b, metas, match), match, Joined(metas))
         /\ ComposeAnswer(b, metas, match) \in {"not found", "conflict", "done"}
<1>1. Joined(metas) \in Data /\ None \in Data
  BY JoinedIsData, ConstantsAre
<1>2. CASE Sources(b, metas) # None /\ b.dest.gen = match
  <2>1. Sources(b, metas) = Joined(metas)
    BY <1>2 DEF Sources
  <2>2. ComposeAnswer(b, metas, match) = "done"
    BY <1>2 DEF ComposeAnswer
  <2>3. Composed(b, metas, match) = Replace(b, Joined(metas), None)
    BY <2>1, <2>2 DEF Composed
  <2> QED BY <1>1, <1>2, <2>2, <2>3, ReplaceIs DEF Lands
<1>3. CASE ~ (Sources(b, metas) # None /\ b.dest.gen = match)
  <2>1. ComposeAnswer(b, metas, match) \in {"not found", "conflict"}
    BY <1>3 DEF ComposeAnswer
  <2>2. Composed(b, metas, match) = b
    BY <2>1 DEF Composed
  <2> QED BY <2>1, <2>2 DEF Lands
<1> QED BY <1>2, <1>3

\* What a chunk changes of a session.
SameUpload(e, f) == e.unit = f.unit /\ e.target = f.target /\ e.total = f.total /\ e.match = f.match
Untouched(e, f) ==
  f.data = e.data /\ f.meta = e.meta /\ (f.state = e.state \/ f.state \in {"refused", "gone"})
Takes(e, f, start, part) ==
  /\ e.state = "open" /\ Len(e.data) = start /\ f.data = Append(e.data, part)
  /\ f.state = "open" \/ (f.state = "final" /\ Len(f.data) = e.total /\ f.meta.data = f.data)
Finishes(b, c, s) ==
  /\ b.sessions[s].target = "destination" /\ b.dest.gen = b.sessions[s].match
  /\ b.sessions[s].state = "open" /\ c.sessions[s].state = "final"
  /\ c.dest.by = "job" /\ c.dest.data = c.sessions[s].data
Received(b, c, s, start, part) ==
  /\ Len(c.sessions) = Len(b.sessions)
  /\ \A t \in 1..Len(b.sessions) : t # s => c.sessions[t] = b.sessions[t]
  /\ SameUpload(b.sessions[s], c.sessions[s])
  /\ Untouched(b.sessions[s], c.sessions[s]) \/ Takes(b.sessions[s], c.sessions[s], start, part)
  /\ c.dest = b.dest \/ Finishes(b, c, s)

LEMMA SessionSet ==
  ASSUME NEW b \in Buckets, NEW s \in 1..Len(b.sessions), NEW f \in Sessions
  PROVE  /\ WithSession(b, s, f) \in Buckets
         /\ Len(WithSession(b, s, f).sessions) = Len(b.sessions)
         /\ WithSession(b, s, f).sessions[s] = f
         /\ \A t \in 1..Len(b.sessions) : t # s => WithSession(b, s, f).sessions[t] = b.sessions[t]
         /\ WithSession(b, s, f).dest = b.dest /\ WithSession(b, s, f).temps = b.temps
<1>1. b.sessions \in Seq(Sessions)
  BY DEF Buckets
<1>2. [b.sessions EXCEPT ![s] = f] \in Seq(Sessions)
  BY <1>1
<1>3. [b EXCEPT !.sessions = [b.sessions EXCEPT ![s] = f]] \in Buckets
  BY <1>2 DEF Buckets
<1>4. WithSession(b, s, f).sessions = [b.sessions EXCEPT ![s] = f]
  BY DEF Buckets, WithSession
<1>5. WithSession(b, s, f).dest = b.dest /\ WithSession(b, s, f).temps = b.temps
  BY DEF Buckets, WithSession
<1> QED BY <1>1, <1>2, <1>3, <1>4, <1>5 DEF WithSession

LEMMA SessionChange ==
  ASSUME NEW b \in Buckets, NEW s \in 1..Len(b.sessions), NEW f \in Sessions,
         NEW c, c.sessions = WithSession(b, s, f).sessions, NEW start, NEW part,
         SameUpload(b.sessions[s], f),
         Untouched(b.sessions[s], f) \/ Takes(b.sessions[s], f, start, part),
         \/ c.dest = b.dest
         \/ /\ b.sessions[s].target = "destination" /\ b.dest.gen = b.sessions[s].match
            /\ b.sessions[s].state = "open" /\ f.state = "final"
            /\ c.dest.by = "job" /\ c.dest.data = f.data
  PROVE  Received(b, c, s, start, part)
<1>1. /\ c.sessions[s] = f /\ Len(c.sessions) = Len(b.sessions)
      /\ \A t \in 1..Len(b.sessions) : t # s => c.sessions[t] = b.sessions[t]
  BY SessionSet
<1>2. c.dest = b.dest \/ Finishes(b, c, s)
  BY <1>1 DEF Finishes
<1> QED BY <1>1, <1>2 DEF Received

\* What Receive may do, written without nested updates.
Ended(old, data, object) == [old EXCEPT !.data = data, !.state = "final", !.meta = object]

LEMMA ReceiveIs ==
  ASSUME NEW b \in Buckets, NEW s \in 1..Len(b.sessions), NEW start, NEW part \in Nat
  PROVE  Receive(b, s, start, part) \in Buckets /\ Received(b, Receive(b, s, start, part), s, start, part)
<1> SUFFICES ASSUME NEW old, old = b.sessions[s], NEW data, data = Append(old.data, part),
                    NEW object, object = Stored(b, data, None),
                    NEW c, c = Receive(b, s, start, part),
                    NEW n, n = b.gen + 1, NEW f, f = Ended(old, data, object),
                    NEW made, made = WithGen(WithSession(b, s, f), n)
             PROVE  c \in Buckets /\ Received(b, c, s, start, part)
  OBVIOUS
<1>1. old \in Sessions /\ data \in Data
  <2>1. old \in Sessions
    BY DEF Buckets
  <2> QED BY <2>1 DEF Sessions, Data
<1>2. object \in Objects /\ object.data = data /\ object.by = "job"
  BY <1>1, StoredIs, ConstantsAre
<1>3. ASSUME c = b PROVE c \in Buckets /\ Received(b, c, s, start, part)
  BY <1>3 DEF Received, SameUpload, Untouched
<1>4. ASSUME NEW g \in Sessions, c = WithSession(b, s, g), SameUpload(old, g),
             Untouched(old, g) \/ Takes(old, g, start, part)
      PROVE  c \in Buckets /\ Received(b, c, s, start, part)
  <2>1. c \in Buckets /\ c.dest = b.dest
    BY <1>4, SessionSet
  <2> QED BY <1>4, <2>1, SessionChange
<1>5. ASSUME c = WithSession(b, s, [old EXCEPT !.state = "refused"])
      PROVE  c \in Buckets /\ Received(b, c, s, start, part)
  <2>1. [old EXCEPT !.state = "refused"] \in Sessions
    BY <1>1 DEF Sessions
  <2>2. SameUpload(old, [old EXCEPT !.state = "refused"]) /\ Untouched(old, [old EXCEPT !.state = "refused"])
    BY <1>1 DEF Sessions, SameUpload, Untouched
  <2> QED BY <1>4, <1>5, <2>1, <2>2
<1>6. ASSUME old.state = "open", Len(old.data) = start, c = WithSession(b, s, [old EXCEPT !.data = data])
      PROVE  c \in Buckets /\ Received(b, c, s, start, part)
  <2>1. [old EXCEPT !.data = data] \in Sessions
    BY <1>1 DEF Sessions
  <2>2. SameUpload(old, [old EXCEPT !.data = data])
    BY <1>1 DEF Sessions, SameUpload
  <2>3. Takes(old, [old EXCEPT !.data = data], start, part)
    BY <1>1, <1>6 DEF Sessions, Takes
  <2> QED BY <1>4, <1>6, <2>1, <2>2, <2>3
<1>7. ASSUME old.state = "open", Len(old.data) = start, Len(data) = old.total,
             \/ /\ old.target = "destination" /\ b.dest.gen = old.match
                /\ c = WithDest(made, object)
             \/ c = WithTemps(made, [b.temps EXCEPT ![old.unit] = object])
      PROVE  c \in Buckets /\ Received(b, c, s, start, part)
  <2>1. f \in Sessions /\ f.data = data /\ f.state = "final" /\ f.meta = object
    BY <1>1, <1>2 DEF Sessions, Ended
  <2>2. SameUpload(old, f)
    BY <1>1 DEF Sessions, SameUpload, Ended
  <2>3. Takes(old, f, start, part)
    BY <1>2, <1>7, <2>1 DEF Takes
  <2>5. n \in Nat /\ b.temps \in [Units -> Objects] /\ old.unit \in Units
    BY <1>1 DEF Buckets, Sessions
  <2>6. made \in Buckets /\ made.sessions = WithSession(b, s, f).sessions /\ made.dest = b.dest
    <3> DEFINE m == WithSession(b, s, f)
    <3>1. m \in Buckets /\ m.dest = b.dest
      <4>1. WithSession(b, s, f) \in Buckets /\ WithSession(b, s, f).dest = b.dest
        BY <2>1, SessionSet
      <4> QED BY <4>1
    <3> HIDE DEF m
    <3>2. WithGen(m, n) \in Buckets /\ WithGen(m, n).dest = m.dest /\ WithGen(m, n).sessions = m.sessions
      BY <3>1, <2>5, GenSet
    <3>3. made = WithGen(m, n)
      BY DEF m
    <3> QED BY <3>1, <3>2, <3>3 DEF m
  <2>7. [b.temps EXCEPT ![old.unit] = object] \in [Units -> Objects]
    BY <1>2, <2>5
  <2>8. /\ c \in Buckets /\ c.sessions = WithSession(b, s, f).sessions
        /\ c.dest = b.dest \/ (old.target = "destination" /\ b.dest.gen = old.match /\ c.dest = object)
    <3>1. CASE c = WithDest(made, object) /\ old.target = "destination" /\ b.dest.gen = old.match
      <4>1. object \in Objects
        BY <1>2
      <4>2. /\ WithDest(made, object) \in Buckets /\ WithDest(made, object).dest = object
            /\ WithDest(made, object).sessions = made.sessions
        BY <2>6, <4>1, DestSet
      <4> QED BY <2>6, <3>1, <4>2
    <3>2. ASSUME NEW t \in [Units -> Objects], c = WithTemps(made, t)
          PROVE  c \in Buckets /\ c.sessions = made.sessions /\ c.dest = made.dest
      <4>1. /\ WithTemps(made, t) \in Buckets /\ WithTemps(made, t).dest = made.dest
            /\ WithTemps(made, t).sessions = made.sessions
        BY <2>6, TempsSet
      <4> QED BY <3>2, <4>1
    <3> QED BY <1>7, <2>6, <2>7, <3>1, <3>2
  <2> QED BY <1>2, <1>7, <2>1, <2>2, <2>3, <2>8, SessionChange
<1>8. \/ c = b
      \/ /\ old.state = "open" /\ Len(old.data) = start
         /\ \/ c = WithSession(b, s, [old EXCEPT !.state = "refused"])
            \/ c = WithSession(b, s, [old EXCEPT !.data = data])
            \/ /\ Len(data) = old.total
               /\ \/ /\ old.target = "destination" /\ b.dest.gen = old.match
                     /\ c = WithDest(made, object)
                  \/ c = WithTemps(made, [b.temps EXCEPT ![old.unit] = object])
  <2> DEFINE whole == Len(data) = old.total
             refused == whole /\ old.target = "destination" /\ b.dest.gen # old.match
             g == [old EXCEPT !.data = data, !.state = "final", !.meta = object]
             make == [b EXCEPT !.gen = b.gen + 1, !.sessions[s] = g]
  <2>1. c = IF old.state # "open" \/ Len(old.data) # start THEN b
            ELSE IF refused THEN [b EXCEPT !.sessions[s].state = "refused"]
            ELSE IF ~whole THEN [b EXCEPT !.sessions[s].data = data]
            ELSE IF old.target = "destination" THEN [make EXCEPT !.dest = object]
            ELSE [make EXCEPT !.temps[old.unit] = object]
    BY DEF Receive
  <2>2. [b EXCEPT !.sessions[s].state = "refused"] = WithSession(b, s, [old EXCEPT !.state = "refused"])
    BY DEF WithSession
  <2>3. [b EXCEPT !.sessions[s].data = data] = WithSession(b, s, [old EXCEPT !.data = data])
    BY DEF WithSession
  <2>4. make = made
    <3>1. g = f
      BY DEF Ended
    <3> HIDE DEF g
    <3> QED BY <3>1 DEF Buckets, WithSession, WithGen
  <2>5. [make EXCEPT !.temps[old.unit] = object] = WithTemps(make, [make.temps EXCEPT ![old.unit] = object])
    BY DEF WithTemps
  <2>6. make.temps = b.temps
    BY DEF Buckets
  <2>7. [make EXCEPT !.dest = object] = WithDest(make, object)
    BY DEF WithDest
  <2> HIDE DEF make
  <2> QED BY <2>1, <2>2, <2>3, <2>4, <2>5, <2>6, <2>7, Zenon
<1> QED BY <1>3, <1>5, <1>6, <1>7, <1>8

---------------------------------------------------------------------------
(* The inductive invariant: what the server has and may still execute *)

Methods == {"single_shot", "resumable", "sliced"}
Puts == [kind: {"put"}, data: Data, crc: Data, match: Int, hash: Data]
Chunks == [kind: {"chunk"}, session: Nat \ {0}, offset: Nat, part: Nat]
Composes == [kind: {"compose"}, metas: Seq(Objects), match: Int]

FileOK == past \in Seq(Data) /\ Len(past) > 0 /\ source = past[Len(past)] /\ Len(source) <= MaxSize
OptionsOK == options \in [policy: SizePolicies, method: Methods, audit: BOOLEAN]
SpentOK ==
  spent \in [runs: Nat, faults: Nat, foreign: Nat, crashes: Nat, stops: Nat, looked: Int]
Given == FileOK /\ OptionsOK /\ SpentOK

\* Of a file that was never edited, nothing else is on its way to its name.
Once == Len(past) = 1
Continues(e) ==
  /\ options.method # "sliced" /\ e.total = Len(source)
  /\ Len(e.data) <= Len(source) /\ e.data = SubSeq(source, 1, Len(e.data))
SessionRight(e) ==
  /\ e.match = spent.looked
  /\ e.state = "final" => Len(e.meta.data) = e.total
  /\ Once /\ e.target = "destination" => Continues(e)
PutRight(r) == r.match = spent.looked /\ (Once => r.data = source)
ComposeRight(r) == r.match = spent.looked /\ (Once => Joined(r.metas) = source)
ChunkRight(r) ==
  /\ r.session <= Len(bucket.sessions)
  /\ Once /\ bucket.sessions[r.session].target = "destination" =>
       r.offset < Len(source) /\ r.part = source[r.offset + 1]
LateRight(r) ==
  \/ r \in Puts /\ PutRight(r)
  \/ r \in Chunks /\ ChunkRight(r)
  \/ r \in Composes /\ ComposeRight(r)
BucketRight(b) ==
  /\ b \in Buckets
  /\ \A s \in 1..Len(b.sessions) : SessionRight(b.sessions[s])
  /\ Once /\ b.dest.by = "job" => b.dest.data = source
BucketInv ==
  /\ BucketRight(bucket)
  /\ \A r \in late : LateRight(r)
  /\ spent.looked = -1 => bucket.sessions = <<>> /\ late = {}

---------------------------------------------------------------------------
(* The inductive invariant: what the row, the attempt and its streams have. *)
(* As long as the row's look at the file is its last content, and its       *)
(* slices are of no earlier one, all of it are pieces of that.              *)

StreamPlaces ==
  {"none", "queued", "query", "open", "send", "verify", "done", "found", "failed", "stopped"}
Streams == [at: StreamPlaces, hashed: Data, meta: Objects, err: Categories]
Results == [crc: Data, gen: Nat, sha: Data]

\* The row was written from the file as it is; and beside no slices of an earlier content.
Seen == Len(past) = row.seen
Steady == Seen /\ ~row.torn
Whole(u) == SubSeq(source, Offset(u) + 1, Offset(u) + Length(u))

Rows == [state: FileStates, size: 0..MaxSize, seen: Nat, match: Int, attempts: Nat,
         category: Categories, crc: Data, gen: Nat, sha: Data, torn: BOOLEAN]
RowInv ==
  /\ row \in Rows /\ row.seen \in 1..Len(past) /\ local \in Results
  /\ row.match = spent.looked
  /\ Seen => row.size = Len(source)
  /\ Once => ~row.torn

SliceRight(u) ==
  /\ slices[u].uri <= Len(bucket.sessions)
  /\ Steady => slices[u].crc \in {None, Whole(u)}
SlicesInv == slices \in [Units -> [uri: Nat, crc: Data]] /\ \A u \in Units : SliceRight(u)

\* What a stream fed to its hash is its slice, as far as it got.
Read(u, s) ==
  /\ Offset(u) + Len(s.hashed) <= Len(source)
  /\ s.hashed = SubSeq(source, Offset(u) + 1, Offset(u) + Len(s.hashed))
\* The slice's session was opened for the slice as it is now.
Fits(u) == bucket.sessions[slices[u].uri].total = Length(u)
StreamRight(u, s) ==
  /\ s.at # "none" => u \in Used
  /\ s.at \in {"query", "send", "verify"} => slices[u].uri > 0
  /\ s.at \in {"send", "verify"} => Fits(u)
  /\ s.at = "verify" => Len(s.meta.data) = Length(u)
  /\ Steady /\ s.at \in {"send", "verify"} => Read(u, s)
  /\ Steady /\ s.at \in {"done", "found"} => s.meta.data = Whole(u)
StreamInv == stream \in [Units -> Streams] /\ \A u \in Units : StreamRight(u, stream[u])

\* Where nothing is uploaded, no stream is left of what was.
Before == {"idle", "stat", "attempt", "clear slices", "caught"}
Quiet == {"idle", "stat", "attempt", "skip rule", "put", "check put", "plan", "caught"}
Hashed == {"put", "check put", "sweep", "stamp", "record"}
AttemptInv ==
  /\ pc \in Quiet => stream = Idle
  /\ spent.looked = -1 => pc \in Before
  /\ pc \in {"compose", "check compose"} =>
       options.method = "sliced" /\ \A u \in Used : stream[u].at \in {"done", "found"}
  /\ pc = "plan" => options.method = "sliced"
  /\ Steady /\ pc \in Hashed => local.crc = source
  /\ pc \notin {"idle", "stat"} /\ ~edited => Seen
  /\ pc = "clear slices" => row.state \in Delivered \cup {"changed"}
VerifiedInv ==
  row.state = "verified" =>
    pc \in {"idle", "clear slices"} /\ (~edited /\ ~row.torn => row.crc = past[row.seen])

ProgramInv == RowInv /\ SlicesInv /\ StreamInv /\ AttemptInv /\ VerifiedInv
Inv == Given /\ BucketInv /\ ProgramInv

---------------------------------------------------------------------------
(* Slices and pieces *)

LEMMA SliceBounds ==
  ASSUME NEW p \in SizePolicies, NEW z \in Nat, NEW i \in Nat
  PROVE  /\ SliceOffset(p, z, i) \in Nat /\ SliceLength(p, z, i) \in Int
         /\ SliceOffset(p, z, i) + SliceLength(p, z, i) <= z
<1>1. CASE z = 0
  BY <1>1 DEF SliceOffset, SliceLength
<1>2. CASE z > 0
  <2> DEFINE share == SliceSize(p, z)
             at == i * share
  <2>1. share \in Nat
    BY <1>2, SizeIsPositive
  <2>2. at \in Nat
    <3> HIDE DEF share
    <3> QED BY <2>1
  <2>3. SliceOffset(p, z, i) = at /\ SliceLength(p, z, i) = Smaller(share, z - at)
    BY <1>2 DEF SliceOffset, SliceLength
  <2> HIDE DEF at, share
  <2> QED BY <2>1, <2>2, <2>3 DEF Smaller
<1> QED BY <1>1, <1>2

SizeOK == row.size \in 0..MaxSize
LEMMA SizesAre ==
  ASSUME OptionsOK, SizeOK
  PROVE  /\ row.size \in Nat /\ row.size <= MaxSize /\ MaxSize \in Nat \ {0}
         /\ options.policy \in SizePolicies /\ options.method \in Methods
  BY ConstantsAre DEF OptionsOK, SizeOK

\* The slices of the row's size are a tiling of it.
LEMMA CountIs ==
  ASSUME OptionsOK, SizeOK
  PROVE  Count \in Nat \ {0} /\ Count <= MaxSize /\ Used = 0..Count - 1 /\ Used \subseteq Units
<1>1. Count \in Nat \ {0} /\ Count <= MaxSize
  <2>1. CASE options.method = "sliced"
    <3>1. /\ SliceCount(options.policy, row.size) \in Nat \ {0}
          /\ SliceCount(options.policy, row.size) <= Larger(1, row.size)
      BY SizesAre, SlicesTile
    <3> QED BY <2>1, <3>1, SizesAre DEF Count, Larger
  <2>2. CASE options.method # "sliced"
    BY <2>2, SizesAre DEF Count
  <2> QED BY <2>1, <2>2
<1> HIDE DEF Count
<1> QED BY <1>1, SizesAre DEF Used, Units

LEMMA PlacesAre ==
  ASSUME OptionsOK, SizeOK
  PROVE  /\ \A u \in Units : /\ Offset(u) \in Nat /\ Length(u) \in Int
                             /\ Offset(u) + Length(u) <= row.size
         /\ \A u \in Used : Length(u) \in Nat
         /\ options.method # "sliced" => \A u : Offset(u) = 0 /\ Length(u) = row.size
<1>1. CASE options.method # "sliced"
  BY <1>1, SizesAre DEF Offset, Length
<1>2. CASE options.method = "sliced"
  <2>1. \A u : Offset(u) = SliceOffset(options.policy, row.size, u)
               /\ Length(u) = SliceLength(options.policy, row.size, u)
    BY <1>2 DEF Offset, Length
  <2>2. \A u \in Units : u \in Nat
    BY SizesAre DEF Units
  <2>3. \A u \in Used : Length(u) \in Nat
    <3>1. \A u \in 0..Count - 1 : SliceLength(options.policy, row.size, u) \in Nat
      BY <1>2, SizesAre, SlicesTile DEF Count
    <3> QED BY <2>1, <3>1, CountIs
  <2> QED BY <1>2, <2>1, <2>2, <2>3, SizesAre, SliceBounds
<1> QED BY <1>1, <1>2

LEMMA Chain ==
  ASSUME OptionsOK, SizeOK, options.method = "sliced"
  PROVE  /\ Offset(0) = 0
         /\ \A u \in 0..Count - 1 :
              /\ u = Count - 1 => Offset(u) + Length(u) = row.size
              /\ u # Count - 1 => Offset(u) + Length(u) = Offset(u + 1)
  BY SizesAre, SlicesTile DEF Offset, Length, Count

LEMMA MetasAre ==
  ASSUME OptionsOK, SizeOK, stream \in [Units -> Streams]
  PROVE  /\ Metas \in Seq(Objects) /\ Len(Metas) = Count /\ DOMAIN Metas = 1..Count
         /\ \A i \in 1..Count : Metas[i] = stream[i - 1].meta /\ i - 1 \in Used
<1>1. Count \in Nat \ {0} /\ Used = 0..Count - 1 /\ Used \subseteq Units
  BY CountIs
<1> HIDE DEF Count, Used
<1>2. \A i \in 1..Count : i - 1 \in Used /\ stream[i - 1].meta \in Objects
  <2> SUFFICES ASSUME NEW i \in 1..Count PROVE i - 1 \in Used /\ stream[i - 1].meta \in Objects
    OBVIOUS
  <2>1. i - 1 \in Used
    BY <1>1
  <2>2. stream[i - 1] \in Streams
    BY <1>1, <2>1
  <2> QED BY <2>1, <2>2 DEF Streams
<1>3. Metas = [i \in 1..Count |-> stream[i - 1].meta]
  BY DEF Metas
<1>4. Metas \in [1..Count -> Objects]
  BY <1>2, <1>3
<1> HIDE DEF Metas
<1> QED BY <1>1, <1>2, <1>3, <1>4

\* The finished slices, joined, are the file.
LEMMA JoinedIsSource ==
  ASSUME OptionsOK, SizeOK, stream \in [Units -> Streams], source \in Data,
         options.method = "sliced", row.size = Len(source),
         \A u \in Used : stream[u].meta.data = Whole(u)
  PROVE  Joined(Metas) = source
<1> DEFINE cut == [i \in 0..Count |-> IF i = Count THEN Len(source) ELSE Offset(i)]
           parts == [i \in DOMAIN Metas |-> Metas[i].data]
<1>1. Count \in Nat \ {0} /\ Used = 0..Count - 1 /\ Used \subseteq Units
  BY CountIs
<1>2. \A u \in Used : Offset(u) \in Nat /\ Length(u) \in Nat
                      /\ Offset(u) + Length(u) <= Len(source)
  BY <1>1, PlacesAre
<1>3. /\ Offset(0) = 0
      /\ \A u \in 0..Count - 1 : /\ u = Count - 1 => Offset(u) + Length(u) = Len(source)
                                 /\ u # Count - 1 => Offset(u) + Length(u) = Offset(u + 1)
  BY Chain
<1>4. DOMAIN Metas = 1..Count /\ \A i \in 1..Count : i - 1 \in Used /\ Metas[i].data = Whole(i - 1)
  BY MetasAre
<1>5. Len(source) \in Nat
  BY DEF Data
<1> HIDE DEF Count, Used, Offset, Length, Metas
<1>6. \A i \in 0..Count : cut[i] \in 0..Len(source)
  BY <1>1, <1>2, <1>5
<1>7. cut[0] = 0 /\ cut[Count] = Len(source)
  BY <1>1, <1>3
<1>8. ASSUME NEW i \in 1..Count
      PROVE  cut[i - 1] <= cut[i] /\ parts[i] = SubSeq(source, cut[i - 1] + 1, cut[i])
  <2>1. i - 1 \in 0..Count - 1 /\ i - 1 \in Used /\ i - 1 \in 0..Count /\ i \in 0..Count
    BY <1>1
  <2>2. cut[i - 1] = Offset(i - 1)
    BY <1>1, <2>1
  <2>3. cut[i] = Offset(i - 1) + Length(i - 1)
    BY <1>1, <1>3, <2>1
  <2>4. parts[i] = Whole(i - 1)
    BY <1>4
  <2> HIDE DEF cut, parts
  <2> QED BY <1>2, <2>1, <2>2, <2>3, <2>4 DEF Whole
<1>9. parts = [i \in 1..Count |-> Metas[i].data] /\ Len(parts) = Count
  BY <1>1, <1>4
<1>10. Joined(Metas) = FlattenSeq(parts)
  BY DEF Joined
<1> HIDE DEF cut, parts
<1>11. \A i \in 1..Count :
         cut[i - 1] <= cut[i] /\ parts[i] = SubSeq(source, cut[i - 1] + 1, cut[i])
  BY <1>8
<1>12. Count \in Nat \ {0}
  BY <1>1
<1>13. Len(parts) = Count
  BY <1>9
<1>14. FlattenSeq(parts) = source
  BY <1>6, <1>7, <1>11, <1>12, <1>13, PiecesMakeTheWhole, Zenon
<1> QED BY <1>10, <1>14

\* A piece of the file, and one part more.
LEMMA PartsAre ==
  ASSUME source \in Data, NEW a \in Nat, NEW n \in Nat, a + n <= Len(source)
  PROVE  /\ SubSeq(source, a + 1, a + n) \in Data /\ Len(SubSeq(source, a + 1, a + n)) = n
         /\ a + n < Len(source) =>
              /\ source[a + n + 1] \in Nat
              /\ Append(SubSeq(source, a + 1, a + n), source[a + n + 1])
                   = SubSeq(source, a + 1, a + (n + 1))
  BY DEF Data

---------------------------------------------------------------------------
(* What the server does keeps it right *)

Kept(b, c) ==
  /\ Len(b.sessions) <= Len(c.sessions)
  /\ \A s \in 1..Len(b.sessions) : SameUpload(b.sessions[s], c.sessions[s])

LEMMA KeptSessions == ASSUME NEW b, NEW c, c.sessions = b.sessions, b \in Buckets PROVE Kept(b, c)
  BY DEF Kept, SameUpload, Buckets

LEMMA SameSessions ==
  ASSUME NEW b, NEW c \in Buckets, BucketRight(b), c.sessions = b.sessions,
         \/ c.dest = b.dest
         \/ Once /\ c.dest.by = "job" => c.dest.data = source
  PROVE  BucketRight(c) /\ Kept(b, c)
<1>1. BucketRight(c)
  BY DEF BucketRight
<1> QED BY <1>1, KeptSessions DEF BucketRight

LEMMA PutKeeps ==
  ASSUME NEW b, BucketRight(b), NEW data \in Data, NEW crc, NEW match, NEW hash \in Data,
         Once => data = source
  PROVE  BucketRight(PutWhole(b, data, crc, match, hash)) /\ Kept(b, PutWhole(b, data, crc, match, hash))
<1>1. b \in Buckets
  BY DEF BucketRight
<1> SUFFICES ASSUME NEW c, c = PutWhole(b, data, crc, match, hash) PROVE BucketRight(c) /\ Kept(b, c)
  OBVIOUS
<1>2. c \in Buckets /\ c.sessions = b.sessions /\ Lands(b, c, match, data)
  BY <1>1, PutIs
<1> QED BY <1>2, SameSessions DEF Lands

LEMMA ComposeKeeps ==
  ASSUME NEW b, BucketRight(b), NEW metas \in Seq(Objects), NEW match,
         Once => Joined(metas) = source
  PROVE  BucketRight(Composed(b, metas, match)) /\ Kept(b, Composed(b, metas, match))
<1>1. b \in Buckets
  BY DEF BucketRight
<1> SUFFICES ASSUME NEW c, c = Composed(b, metas, match) PROVE BucketRight(c) /\ Kept(b, c)
  OBVIOUS
<1>2. c \in Buckets /\ c.sessions = b.sessions /\ Lands(b, c, match, Joined(metas))
  BY <1>1, ComposedIs
<1> QED BY <1>2, SameSessions DEF Lands

\* The part that continues a session to the file's name is the file's next one.
NextPart(e, start, part) ==
  Once /\ e.target = "destination" => start < Len(source) /\ part = source[start + 1]

LEMMA TakesKeeps ==
  ASSUME source \in Data, NEW e \in Sessions, NEW f \in Sessions, NEW start, NEW part,
         SessionRight(e), SameUpload(e, f), Takes(e, f, start, part), NextPart(e, start, part)
  PROVE  SessionRight(f)
<1>1. f.match = spent.looked /\ (f.state = "final" => Len(f.meta.data) = f.total)
  BY DEF SessionRight, SameUpload, Takes
<1>2. ASSUME Once, f.target = "destination" PROVE Continues(f)
  <2>1. /\ Continues(e) /\ Len(e.data) = start /\ f.data = Append(e.data, part) /\ f.total = e.total
        /\ start < Len(source) /\ part = source[start + 1]
    BY <1>2 DEF SessionRight, SameUpload, Takes, NextPart
  <2>2. start \in Nat /\ 0 + start <= Len(source) /\ Len(source) \in Nat
    BY <2>1 DEF Sessions, Data
  <2>3. e.data = SubSeq(source, 1, start)
    BY <2>1 DEF Continues
  <2>4. Append(SubSeq(source, 0 + 1, 0 + start), source[0 + start + 1]) = SubSeq(source, 0 + 1, 0 + (start + 1))
    BY <2>1, <2>2, PartsAre
  <2>5. f.data = SubSeq(source, 1, start + 1)
    BY <2>1, <2>2, <2>3, <2>4
  <2>6. start + 1 \in Nat /\ 0 + (start + 1) <= Len(source)
    BY <2>1, <2>2
  <2>7. Len(f.data) = start + 1
    BY <2>5, <2>6, PartsAre DEF Data
  <2> QED BY <2>1, <2>5, <2>6, <2>7 DEF Continues
<1> QED BY <1>1, <1>2 DEF SessionRight

LEMMA ChunkKeeps ==
  ASSUME source \in Data, NEW b, BucketRight(b), NEW s \in 1..Len(b.sessions), NEW start,
         NEW part \in Nat, NextPart(b.sessions[s], start, part)
  PROVE  BucketRight(Receive(b, s, start, part)) /\ Kept(b, Receive(b, s, start, part))
<1>1. b \in Buckets
  BY DEF BucketRight
<1> SUFFICES ASSUME NEW c, c = Receive(b, s, start, part) PROVE BucketRight(c) /\ Kept(b, c)
  OBVIOUS
<1>2. c \in Buckets /\ Received(b, c, s, start, part)
  BY <1>1, ReceiveIs
<1> DEFINE e == b.sessions[s]
           f == c.sessions[s]
<1>3. /\ e \in Sessions /\ f \in Sessions /\ SessionRight(e) /\ SameUpload(e, f)
      /\ Untouched(e, f) \/ Takes(e, f, start, part)
  BY <1>1, <1>2 DEF Buckets, Received, BucketRight
<1>4. SessionRight(f)
  <2>1. CASE Untouched(e, f)
    <3> HIDE DEF e, f
    <3> QED BY <1>3, <2>1 DEF SessionRight, SameUpload, Untouched, Continues
  <2>2. CASE Takes(e, f, start, part)
    <3>1. NextPart(e, start, part)
      OBVIOUS
    <3> HIDE DEF e, f
    <3> QED BY <1>3, <2>2, <3>1, TakesKeeps
  <2> QED BY <1>3, <2>1, <2>2
<1>5. \A t \in 1..Len(c.sessions) : SessionRight(c.sessions[t])
  <2> SUFFICES ASSUME NEW t \in 1..Len(c.sessions) PROVE SessionRight(c.sessions[t])
    OBVIOUS
  <2>1. Len(c.sessions) = Len(b.sessions) /\ (t # s => c.sessions[t] = b.sessions[t])
    BY <1>2 DEF Received
  <2> QED BY <1>4, <2>1 DEF BucketRight
<1>6. Once /\ c.dest.by = "job" => c.dest.data = source
  <2>1. CASE c.dest = b.dest
    BY <2>1 DEF BucketRight
  <2>2. CASE Finishes(b, c, s)
    <3> SUFFICES ASSUME Once PROVE c.dest.data = source
      OBVIOUS
    <3>1. /\ e.target = "destination" /\ e.state = "open" /\ f.state = "final" /\ c.dest.data = f.data
      BY <2>2 DEF Finishes
    <3> HIDE DEF e, f
    <3>2. Takes(e, f, start, part) /\ f.target = "destination"
      BY <1>3, <3>1 DEF Untouched, SameUpload
    <3>3. Len(f.data) = f.total /\ Continues(f)
      BY <1>3, <1>4, <3>1, <3>2 DEF Takes, SameUpload, SessionRight
    <3>4. f.data = SubSeq(source, 1, Len(source))
      BY <3>3 DEF Continues
    <3> QED BY <3>1, <3>4 DEF Data
  <2> QED BY <1>2, <2>1, <2>2 DEF Received
<1>7. Kept(b, c)
  <2>1. Len(c.sessions) = Len(b.sessions) /\ SameUpload(b.sessions[s], c.sessions[s])
        /\ \A t \in 1..Len(b.sessions) : t # s => c.sessions[t] = b.sessions[t]
    BY <1>2 DEF Received
  <2>2. Len(b.sessions) \in Nat
    BY <1>1 DEF Buckets
  <2>3. \A t \in 1..Len(b.sessions) : SameUpload(b.sessions[t], c.sessions[t])
    BY <2>1 DEF SameUpload
  <2> QED BY <2>1, <2>2, <2>3 DEF Kept
<1> QED BY <1>2, <1>5, <1>6, <1>7 DEF BucketRight

\* Another session is opened.
LEMMA OpenKeeps ==
  ASSUME NEW b, BucketRight(b), NEW e \in Sessions, SessionRight(e),
         NEW c, c = [b EXCEPT !.sessions = Append(@, e)]
  PROVE  /\ BucketRight(c) /\ Kept(b, c)
         /\ Len(c.sessions) = Len(b.sessions) + 1 /\ c.sessions[Len(b.sessions) + 1] = e
<1>1. b \in Buckets /\ b.sessions \in Seq(Sessions)
  BY DEF BucketRight, Buckets
<1>2. c.sessions = Append(b.sessions, e) /\ c.dest = b.dest
  BY <1>1 DEF Buckets
<1>3. c \in Buckets
  <2> DEFINE q == Append(b.sessions, e)
  <2>1. q \in Seq(Sessions)
    BY <1>1
  <2>2. c = [b EXCEPT !.sessions = q]
    OBVIOUS
  <2> HIDE DEF q
  <2> QED BY <1>1, <2>1, <2>2 DEF Buckets
<1>4. /\ Len(c.sessions) = Len(b.sessions) + 1 /\ c.sessions[Len(b.sessions) + 1] = e
      /\ \A t \in 1..Len(b.sessions) : c.sessions[t] = b.sessions[t]
      /\ Len(b.sessions) \in Nat
  BY <1>1, <1>2
<1>5. \A t \in 1..Len(c.sessions) : SessionRight(c.sessions[t])
  <2> SUFFICES ASSUME NEW t \in 1..Len(c.sessions) PROVE SessionRight(c.sessions[t])
    OBVIOUS
  <2>1. t = Len(b.sessions) + 1 \/ t \in 1..Len(b.sessions)
    BY <1>4
  <2> QED BY <1>4, <2>1 DEF BucketRight
<1>6. Kept(b, c)
  BY <1>4 DEF Kept, SameUpload
<1> QED BY <1>2, <1>3, <1>4, <1>5, <1>6 DEF BucketRight

\* A session is forgotten.
LEMMA ExpireKeeps ==
  ASSUME NEW b, BucketRight(b), NEW s \in 1..Len(b.sessions),
         NEW c, c = [b EXCEPT !.sessions[s].state = "gone"]
  PROVE  BucketRight(c) /\ Kept(b, c)
<1> DEFINE e == b.sessions[s]
           f == [e EXCEPT !.state = "gone"]
<1>1. b \in Buckets /\ e \in Sessions /\ SessionRight(e)
  BY DEF BucketRight, Buckets
<1>2. c = WithSession(b, s, f)
  BY DEF WithSession
<1> HIDE DEF e
<1>3. f \in Sessions /\ SameUpload(e, f) /\ SessionRight(f)
  BY <1>1 DEF Sessions, SameUpload, SessionRight, Continues
<1> HIDE DEF f
<1>4. /\ c \in Buckets /\ Len(c.sessions) = Len(b.sessions) /\ c.sessions[s] = f
      /\ \A t \in 1..Len(b.sessions) : t # s => c.sessions[t] = b.sessions[t]
      /\ c.dest = b.dest
  <2> DEFINE d == WithSession(b, s, f)
  <2>1. /\ d \in Buckets /\ Len(d.sessions) = Len(b.sessions) /\ d.sessions[s] = f
        /\ \A t \in 1..Len(b.sessions) : t # s => d.sessions[t] = b.sessions[t]
        /\ d.dest = b.dest
    BY <1>1, <1>3, SessionSet
  <2> QED BY <1>2, <2>1
<1>5. \A t \in 1..Len(c.sessions) : SessionRight(c.sessions[t])
  BY <1>3, <1>4 DEF BucketRight
<1>6. Len(b.sessions) \in Nat
  BY <1>1 DEF Buckets
<1>7. \A t \in 1..Len(b.sessions) : SameUpload(b.sessions[t], c.sessions[t])
  <2> SUFFICES ASSUME NEW t \in 1..Len(b.sessions) PROVE SameUpload(b.sessions[t], c.sessions[t])
    OBVIOUS
  <2>1. CASE t = s
    BY <1>3, <1>4, <2>1 DEF e
  <2>2. CASE t # s
    BY <1>4, <2>2 DEF SameUpload
  <2> QED BY <2>1, <2>2
<1>8. BucketRight(c)
  BY <1>4, <1>5 DEF BucketRight
<1>9. Kept(b, c)
  BY <1>4, <1>6, <1>7 DEF Kept
<1> QED BY <1>8, <1>9

---------------------------------------------------------------------------
(* The shapes of a step: what it does to the bucket, and to the program *)

LEMMA ShapesAre ==
  /\ NoStream \in Streams /\ NoStream.at = "none"
  /\ Idle \in [Units -> Streams] /\ \A u \in Units : Idle[u].at = "none"
  /\ Blank \in [Units -> [uri: Nat, crc: Data]]
  /\ \A u \in Units : Blank[u].uri = 0 /\ Blank[u].crc = None
  /\ NoResult \in Results
<1>1. None \in Data /\ Absent \in Objects /\ <<>> \in Data
  BY ConstantsAre DEF Data
<1>2. NoStream \in Streams /\ NoStream.at = "none"
  BY <1>1 DEF NoStream, Streams, StreamPlaces, Categories
<1>3. Idle \in [Units -> Streams] /\ \A u \in Units : Idle[u].at = "none"
  BY <1>2 DEF Idle
<1>4. NoRow \in [uri: Nat, crc: Data] /\ NoRow.uri = 0 /\ NoRow.crc = None
  BY <1>1 DEF NoRow
<1>5. /\ Blank \in [Units -> [uri: Nat, crc: Data]]
      /\ \A u \in Units : Blank[u].uri = 0 /\ Blank[u].crc = None
  BY <1>4 DEF Blank
<1>6. NoResult \in Results
  BY <1>1 DEF NoResult, Results
<1> QED BY <1>2, <1>3, <1>5, <1>6

LEMMA GivenIs ==
  ASSUME Given
  PROVE  /\ source \in Data /\ past \in Seq(Data) /\ Len(past) \in Nat /\ Len(past) > 0
         /\ Len(source) \in Nat /\ Len(source) <= MaxSize /\ source = past[Len(past)]
         /\ spent.looked \in Int /\ OptionsOK
<1>1. past \in Seq(Data) /\ Len(past) > 0 /\ source = past[Len(past)] /\ Len(source) <= MaxSize
  BY DEF Given, FileOK
<1>2. source \in Data /\ Len(past) \in Nat
  BY <1>1
<1>3. Len(source) \in Nat
  BY <1>2 DEF Data
<1> QED BY <1>1, <1>2, <1>3 DEF Given, SpentOK

\* Nothing is forgotten of what sessions were opened for.
Grown == Kept(bucket, bucket')

LEMMA BucketMoves ==
  ASSUME Given, BucketInv, UNCHANGED <<file, options>>, spent'.looked = spent.looked,
         BucketRight(bucket'), Kept(bucket, bucket'),
         spent.looked # -1 \/ (bucket'.sessions = <<>> /\ late' = {}),
         \A r \in late' : r \in late \/ LateRight(r)
  PROVE  BucketInv' /\ Grown
<1>1. (Once' <=> Once) /\ source' = source
  BY DEF Once, file
<1>2. \A e : SessionRight(e) => SessionRight(e)'
  BY <1>1 DEF SessionRight, Continues
<1>3. BucketRight(bucket)'
  BY <1>1, <1>2 DEF BucketRight
<1>4. ASSUME NEW r, LateRight(r) PROVE LateRight(r)'
  <2>1. PutRight(r) => PutRight(r)'
    BY <1>1 DEF PutRight
  <2>2. ComposeRight(r) => ComposeRight(r)'
    BY <1>1 DEF ComposeRight
  <2>3. ASSUME r \in Chunks, ChunkRight(r) PROVE ChunkRight(r)'
    <3>1. r.session \in Nat \ {0} /\ r.session <= Len(bucket.sessions)
      BY <2>3 DEF Chunks, ChunkRight
    <3>2. Len(bucket.sessions) \in Nat /\ Len(bucket'.sessions) \in Nat
      BY DEF BucketInv, BucketRight, Buckets
    <3>3. r.session \in 1..Len(bucket.sessions)
      BY <3>1, <3>2
    <3>4. r.session <= Len(bucket'.sessions)
          /\ bucket'.sessions[r.session].target = bucket.sessions[r.session].target
      BY <3>1, <3>2, <3>3 DEF Kept, SameUpload
    <3> QED BY <1>1, <2>3, <3>4 DEF ChunkRight
  <2> QED BY <1>4, <2>1, <2>2, <2>3 DEF LateRight
<1>5. \A r \in late' : LateRight(r)'
  BY <1>4 DEF BucketInv
<1> QED BY <1>3, <1>5 DEF BucketInv, Grown

LEMMA BucketStays ==
  ASSUME Given, BucketInv, UNCHANGED <<file, bucket, late, options>>, spent'.looked = spent.looked
  PROVE  BucketInv' /\ Grown
<1>1. BucketRight(bucket') /\ Kept(bucket, bucket')
  BY KeptSessions DEF BucketInv, BucketRight
<1>2. spent.looked # -1 \/ (bucket'.sessions = <<>> /\ late' = {})
  BY DEF BucketInv
<1> QED BY <1>1, <1>2, BucketMoves

\* What is said of slices and streams depends on the file, the options, and the
\* row's look.
LEMMA Frame ==
  ASSUME UNCHANGED <<file, options>>, row'.size = row.size, row'.seen = row.seen
  PROVE  /\ Used' = Used /\ (Seen' <=> Seen) /\ source' = source /\ past' = past
         /\ row'.torn = row.torn => (Steady' <=> Steady)
         /\ \A u : Offset(u)' = Offset(u) /\ Length(u)' = Length(u)
         /\ \A u : Whole(u)' = Whole(u)
<1>1. source' = source /\ past' = past
  BY DEF file
<1>2. Used' = Used
  BY DEF Used, Count
<1>3. \A u : Offset(u)' = Offset(u) /\ Length(u)' = Length(u)
  BY DEF Offset, Length
<1>4. \A u : Whole(u)' = Whole(u)
  BY <1>1, <1>3 DEF Whole
<1> QED BY <1>1, <1>2, <1>3, <1>4 DEF Seen, Steady

LEMMA SliceStays ==
  ASSUME BucketInv, UNCHANGED <<file, options>>, bucket' \in Buckets, Grown, NEW u \in Units, SlicesInv,
         slices'[u] = slices[u],
         row'.torn \/ (row'.size = row.size /\ row'.seen = row.seen /\ row'.torn = row.torn)
  PROVE  SliceRight(u)'
<1>1. slices[u].uri \in Nat /\ SliceRight(u)
  BY DEF SlicesInv
<1>2. Len(bucket.sessions) \in Nat /\ Len(bucket'.sessions) \in Nat
  BY DEF BucketInv, BucketRight, Buckets
<1>3. slices[u].uri <= Len(bucket'.sessions)
  BY <1>1, <1>2 DEF SliceRight, Grown, Kept
<1>4. Steady' => slices[u].crc \in {None, Whole(u)'}
  BY <1>1, Frame DEF SliceRight, Steady
<1> QED BY <1>3, <1>4 DEF SliceRight

\* A session that fits its slice goes on fitting it.
LEMMA FitStays ==
  ASSUME BucketInv, UNCHANGED <<file, options>>, row'.size = row.size, row'.seen = row.seen, Grown,
         NEW u \in Units, SlicesInv, slices'[u] = slices[u], slices[u].uri > 0, Fits(u)
  PROVE  Fits(u)'
<1>1. slices[u].uri \in Nat /\ slices[u].uri <= Len(bucket.sessions) /\ Len(bucket.sessions) \in Nat
  BY DEF SlicesInv, SliceRight, BucketInv, BucketRight, Buckets
<1>2. slices[u].uri \in 1..Len(bucket.sessions)
  BY <1>1
<1> QED BY <1>2, Frame DEF Fits, Grown, Kept, SameUpload

\* No upload is under way afterwards.
LEMMA Rests ==
  ASSUME Given, BucketInv, ProgramInv, UNCHANGED <<file, options>>, bucket' \in Buckets, Grown,
         stream' = Idle, local' \in Results,
         row' \in Rows, row'.seen \in 1..Len(past), row'.match = spent'.looked,
         row'.torn => row.torn \/ ~Once,
         \/ slices' = slices /\ row'.size = row.size /\ row'.seen = row.seen /\ row'.torn = row.torn
         \/ slices' = Blank \/ (slices' = slices /\ row'.torn),
         \/ row'.size = row.size /\ row'.seen = row.seen
         \/ row'.size = Len(source),
         AttemptInv', VerifiedInv'
  PROVE  ProgramInv'
<1>1. StreamInv'
  BY ShapesAre DEF StreamInv, StreamRight
<1>2. RowInv'
  <2>1. Seen' => row'.size = Len(source)
    BY Frame DEF ProgramInv, RowInv
  <2>2. Once' => ~row'.torn
    BY DEF ProgramInv, RowInv, Once, file
  <2> QED BY <2>1, <2>2 DEF RowInv, file
<1>3. SlicesInv'
  <2>1. CASE /\ slices' = slices
             /\ row'.torn \/ (row'.size = row.size /\ row'.seen = row.seen /\ row'.torn = row.torn)
    BY <2>1, SliceStays DEF SlicesInv, ProgramInv
  <2>2. CASE slices' = Blank
    <3>1. Len(bucket'.sessions) \in Nat
      BY DEF Buckets
    <3> QED BY <2>2, <3>1, ShapesAre DEF SlicesInv, SliceRight
  <2> QED BY <2>1, <2>2
<1> QED BY <1>1, <1>2, <1>3 DEF ProgramInv

\* Streams may begin, or all stay as they are.
LEMMA Goes ==
  ASSUME Given, BucketInv, ProgramInv, UNCHANGED <<file, options, slices>>, bucket' \in Buckets, Grown,
         local' \in Results, row' \in Rows, row'.match = spent'.looked,
         row'.size = row.size, row'.seen = row.seen, row'.torn = row.torn,
         \/ stream' = stream
         \/ stream' \in [Units -> Streams] /\ \A u \in Units : StreamRight(u, stream'[u]),
         AttemptInv', VerifiedInv'
  PROVE  ProgramInv'
<1>1. stream' \in [Units -> Streams] /\ \A u \in Units : StreamRight(u, stream'[u])
  BY DEF ProgramInv, StreamInv
<1>2. \A u : \A s : Read(u, s) => Read(u, s)'
  BY Frame DEF Read
<1>3. \A u \in Units : \A s : StreamRight(u, s) => StreamRight(u, s)'
  BY <1>2, Frame, FitStays DEF StreamRight, ProgramInv
<1>4. StreamInv'
  BY <1>1, <1>3 DEF StreamInv
<1>5. SlicesInv'
  BY SliceStays DEF SlicesInv, ProgramInv
<1>6. RowInv'
  BY Frame DEF ProgramInv, RowInv, Once
<1> QED BY <1>4, <1>5, <1>6 DEF ProgramInv

\* One stream moves.
LEMMA Moves ==
  ASSUME Given, BucketInv, ProgramInv, StreamStep, bucket' \in Buckets, Grown,
         spent'.looked = spent.looked,
         NEW u \in Units, NEW new \in Streams, Becomes(u, new),
         slices' \in [Units -> [uri: Nat, crc: Data]],
         \A v \in Units : v # u => slices'[v] = slices[v],
         SliceRight(u)', StreamRight(u, new)'
  PROVE  ProgramInv'
<1>1. /\ UNCHANGED <<file, options>> /\ row' = row /\ local' = local /\ pc' = pc /\ pc = "streams"
      /\ edited' = edited
  BY DEF StreamStep
<1>2. stream' \in [Units -> Streams] /\ stream'[u] = new /\ \A v \in Units : v # u => stream'[v] = stream[v]
  BY DEF ProgramInv, StreamInv, Becomes
<1>3. \A v \in Units : \A s : Read(v, s) => Read(v, s)'
  BY <1>1, Frame DEF Read
<1>4. \A v \in Units : \A s : v # u /\ StreamRight(v, s) => StreamRight(v, s)'
  BY <1>1, <1>3, Frame, FitStays DEF StreamRight, ProgramInv
<1>5. StreamInv'
  BY <1>2, <1>4 DEF ProgramInv, StreamInv
<1>6. \A v \in Units : v # u => SliceRight(v)'
  BY <1>1, SliceStays DEF ProgramInv
<1>7. SlicesInv'
  BY <1>6 DEF SlicesInv
<1>8. RowInv'
  BY <1>1, Frame DEF ProgramInv, RowInv, Once
<1>9. AttemptInv'
  BY <1>1, Frame DEF ProgramInv, AttemptInv, Quiet, Before, Hashed
<1>10. VerifiedInv'
  BY <1>1, Frame DEF ProgramInv, VerifiedInv
<1> QED BY <1>5, <1>7, <1>8, <1>9, <1>10 DEF ProgramInv

---------------------------------------------------------------------------
(* Every step keeps the invariant: the attempts *)

LEMMA LookedStays ==
  ASSUME SpentOK,
         \/ spent' = spent
         \/ Fault
         \/ spent' = [spent EXCEPT !.runs = @ + 1]
         \/ spent' = [spent EXCEPT !.crashes = @ + 1]
         \/ spent' = [spent EXCEPT !.stops = @ + 1]
         \/ spent' = [spent EXCEPT !.foreign = @ + 1]
  PROVE  SpentOK' /\ spent'.looked = spent.looked
<1>1. \A n \in Nat : n + 1 \in Nat
  OBVIOUS
<1>2. CASE spent' = spent
  BY <1>2 DEF SpentOK
<1>3. CASE Fault
  BY <1>3 DEF SpentOK, Fault
<1>4. CASE spent' = [spent EXCEPT !.runs = @ + 1]
  BY <1>4 DEF SpentOK
<1>5. CASE spent' = [spent EXCEPT !.crashes = @ + 1]
  BY <1>5 DEF SpentOK
<1>6. CASE spent' = [spent EXCEPT !.stops = @ + 1]
  BY <1>6 DEF SpentOK
<1>7. CASE spent' = [spent EXCEPT !.foreign = @ + 1]
  BY <1>7 DEF SpentOK
<1> QED BY <1>2, <1>3, <1>4, <1>5, <1>6, <1>7

LEMMA GivenStays ==
  ASSUME Given, UNCHANGED <<file, options>>, SpentOK'
  PROVE  Given'
BY DEF Given, FileOK, OptionsOK, file

\* What the steps of an attempt have to go by.
LEMMA InvIs ==
  ASSUME Inv
  PROVE  /\ Given /\ BucketInv /\ ProgramInv /\ SpentOK /\ bucket \in Buckets
         /\ row \in Rows /\ row.seen \in 1..Len(past) /\ row.match = spent.looked /\ local \in Results
         /\ AttemptInv /\ VerifiedInv /\ RowInv
BY DEF Inv, Given, BucketInv, BucketRight, ProgramInv, RowInv

\* The row is written in one of its fields.
LEMMA RowSet ==
  ASSUME row \in Rows, NEW s \in FileStates, row' = [row EXCEPT !.state = s]
  PROVE  /\ row' \in Rows /\ row'.state = s /\ row'.size = row.size /\ row'.seen = row.seen
         /\ row'.match = row.match /\ row'.crc = row.crc /\ row'.torn = row.torn
BY DEF Rows

LEMMA RowFails ==
  ASSUME row \in Rows, NEW c \in Categories, MarkFailed(c)
  PROVE  /\ row' \in Rows /\ row'.state = "failed" /\ row'.size = row.size /\ row'.seen = row.seen
         /\ row'.match = row.match /\ row'.torn = row.torn
<1> DEFINE n == row.attempts + 1
<1>1. n \in Nat
  BY DEF Rows
<1>2. row' = [row EXCEPT !.state = "failed", !.attempts = n, !.category = c]
  BY DEF MarkFailed
<1> HIDE DEF n
<1> QED BY <1>1, <1>2 DEF Rows, FileStates

LEMMA RowMatches ==
  ASSUME row \in Rows, NEW m \in Int, row' = [row EXCEPT !.state = "transferring", !.match = m]
  PROVE  /\ row' \in Rows /\ row'.state = "transferring" /\ row'.size = row.size
         /\ row'.seen = row.seen /\ row'.match = m /\ row'.torn = row.torn
BY DEF Rows, FileStates

LEMMA Failing ==
  ASSUME Inv, NEW c \in Categories, Fail(c), UNCHANGED <<file, options>>,
         spent'.looked = spent.looked, bucket' \in Buckets, Grown, pc \notin {"idle", "stat"}
  PROVE  ProgramInv'
<1>1. /\ row' \in Rows /\ row'.state = "failed" /\ row'.size = row.size /\ row'.seen = row.seen
      /\ row'.match = row.match /\ row'.torn = row.torn
  BY InvIs, RowFails DEF Fail
<1>2. /\ pc' = "caught" /\ stream' = Idle /\ local' = NoResult /\ slices' = slices /\ edited' = edited
  BY DEF Fail
<1>3. AttemptInv'
  BY <1>1, <1>2, InvIs, Frame DEF AttemptInv, Quiet, Before, Hashed
<1>4. VerifiedInv'
  BY <1>1 DEF VerifiedInv
<1> QED BY <1>1, <1>2, <1>3, <1>4, InvIs, ShapesAre, Rests

LEMMA Leaving ==
  ASSUME Inv, Leave, pc # "idle", UNCHANGED <<file, options, row, slices>>,
         spent'.looked = spent.looked, bucket' \in Buckets, Grown
  PROVE  ProgramInv'
<1>1. pc' = "idle" /\ stream' = Idle /\ local' = NoResult /\ edited' = edited
  BY DEF Leave
<1>2. AttemptInv'
  BY <1>1, InvIs DEF AttemptInv, Quiet, Before, Hashed
<1>3. VerifiedInv'
  BY <1>1, InvIs DEF VerifiedInv, file
<1> QED BY <1>1, <1>2, <1>3, InvIs, ShapesAre, Rests

LEMMA Delivering ==
  ASSUME Inv, NEW state \in {"verified", "skipped"}, NEW result \in Results,
         MarkDelivered(state, result), UNCHANGED <<file, options>>,
         spent'.looked = spent.looked, bucket' \in Buckets, Grown,
         pc \notin {"idle", "stat"},
         state = "verified" /\ ~edited /\ ~row.torn => result.crc = past[row.seen]
  PROVE  ProgramInv'
<1>1. /\ row' \in Rows /\ row'.state = state /\ row'.size = row.size /\ row'.seen = row.seen
      /\ row'.match = row.match /\ row'.crc = result.crc /\ row'.torn = row.torn
  BY InvIs DEF MarkDelivered, Rows, Results, FileStates, Categories
<1>2. pc' = "clear slices" /\ UNCHANGED <<slices, stream, local, edited>>
  BY DEF MarkDelivered, Settle
<1>3. AttemptInv'
  BY <1>1, <1>2, InvIs, Frame DEF AttemptInv, Quiet, Before, Hashed, Delivered
<1>4. VerifiedInv'
  BY <1>1, <1>2 DEF VerifiedInv, file
<1> QED BY <1>1, <1>2, <1>3, <1>4, InvIs, Goes

LEMMA KeepsBegin == ASSUME Inv, Begin PROVE Inv'
<1>1. /\ UNCHANGED <<file, bucket, late, options, slices, stream, local>>
      /\ pc = "idle" /\ pc' = "stat"
  BY DEF Begin
<1>2. SpentOK' /\ spent'.looked = spent.looked
  <2>1. spent' = spent \/ spent' = [spent EXCEPT !.runs = @ + 1]
    BY DEF Begin
  <2> QED BY <2>1, InvIs, LookedStays
<1>3. BucketInv' /\ Grown /\ bucket' \in Buckets
  BY <1>1, <1>2, InvIs, BucketStays
<1>4. row.state # "verified" /\ row.state \in FileStates
  BY InvIs DEF Begin, NotRetried, Delivered, Rows
<1>5. PICK s \in FileStates : s # "verified" /\ row' = [row EXCEPT !.state = s]
  BY <1>4 DEF Begin, FileStates
<1>6. /\ row' \in Rows /\ row'.state # "verified" /\ row'.size = row.size /\ row'.seen = row.seen
      /\ row'.match = row.match /\ row'.torn = row.torn
  BY <1>5, InvIs, RowSet
<1>7. stream' = Idle
  BY <1>1, InvIs DEF AttemptInv, Quiet
<1>8. AttemptInv'
  BY <1>1, <1>2, <1>7, InvIs DEF AttemptInv, Quiet, Before, Hashed
<1>9. VerifiedInv'
  BY <1>6 DEF VerifiedInv
<1>10. ProgramInv'
  BY <1>1, <1>2, <1>3, <1>6, <1>7, <1>8, <1>9, InvIs, Rests
<1> QED BY <1>1, <1>2, <1>3, <1>10, InvIs, GivenStays DEF Inv

LEMMA KeepsStat == ASSUME Inv, Stat PROVE Inv'
<1>1. UNCHANGED <<file, bucket, late, options, spent>> /\ pc = "stat"
  BY DEF Stat, Outside
<1>2. SpentOK' /\ spent'.looked = spent.looked
  BY <1>1, InvIs, LookedStays
<1>3. BucketInv' /\ Grown /\ bucket' \in Buckets
  BY <1>1, <1>2, InvIs, BucketStays
<1>4. stream = Idle /\ row.state # "verified"
  BY <1>1, InvIs DEF AttemptInv, Quiet, VerifiedInv
<1>5. CASE Len(source) = row.size /\ Len(past) = row.seen
  <2>1. pc' = "attempt" /\ edited' = FALSE /\ UNCHANGED <<row, slices, local, stream>>
    BY <1>5 DEF Stat, rows
  <2>2. Seen'
    BY <1>1, <1>5, <2>1 DEF Seen, file
  <2>3. AttemptInv'
    BY <1>2, <1>4, <2>1, <2>2, InvIs DEF AttemptInv, Quiet, Before, Hashed
  <2>4. VerifiedInv'
    BY <1>4, <2>1 DEF VerifiedInv
  <2>5. ProgramInv'
    BY <1>1, <1>2, <1>3, <1>4, <2>1, <2>3, <2>4, InvIs, Rests
  <2> QED BY <1>1, <1>2, <1>3, <2>5, InvIs, GivenStays DEF Inv
<1>6. CASE MarkFailed("source changed") /\ UNCHANGED slices /\ Leave
  <2>1. pc' = "idle" /\ local' = NoResult /\ stream' = Idle /\ edited' = edited
    BY <1>6 DEF Leave
  <2>2. AttemptInv'
    BY <1>2, <2>1, InvIs DEF AttemptInv, Quiet, Before, Hashed
  <2>3. /\ row' \in Rows /\ row'.state = "failed" /\ row'.size = row.size /\ row'.seen = row.seen
        /\ row'.match = row.match /\ row'.torn = row.torn
    BY <1>6, InvIs, RowFails DEF Categories
  <2>4. VerifiedInv'
    BY <2>3 DEF VerifiedInv
  <2>5. ProgramInv'
    BY <1>1, <1>2, <1>3, <1>6, <2>1, <2>2, <2>3, <2>4, InvIs, ShapesAre, Rests
  <2> QED BY <1>1, <1>2, <1>3, <2>5, InvIs, GivenStays DEF Inv
<1>7. CASE MarkChanged /\ ~(Len(source) = row.size /\ Len(past) = row.seen)
  <2>1. Len(past) \in Nat /\ Len(past) > 0 /\ Len(source) \in 0..MaxSize
    BY InvIs, GivenIs, ConstantsAre
  <2>2. pc' = "clear slices" /\ UNCHANGED <<slices, stream, local, edited>>
    BY <1>7 DEF MarkChanged, Settle
  <2>3. /\ row' \in Rows /\ row'.state = "changed" /\ row'.size = Len(source)
        /\ row'.seen = Len(past) /\ row'.match = row.match /\ (row'.torn <=> slices # Blank)
    <3> DEFINE n == Len(source)
               k == Len(past)
               t == slices # Blank
    <3>1. row' = [row EXCEPT !.state = "changed", !.size = n, !.seen = k, !.crc = None, !.torn = t]
      BY <1>7 DEF MarkChanged
    <3>2. n \in 0..MaxSize /\ k \in Nat /\ None \in Data /\ t \in BOOLEAN
      BY <2>1, ConstantsAre
    <3> HIDE DEF n, k, t
    <3>3. /\ row' \in Rows /\ row'.state = "changed" /\ row'.size = n /\ row'.seen = k
          /\ row'.match = row.match /\ row'.torn = t
      BY <3>1, <3>2, InvIs DEF Rows, FileStates
    <3> QED BY <3>3 DEF n, k, t
  <2>4. ~Once
    <3>1. row.seen \in 1..Len(past) /\ (Seen => row.size = Len(source))
      BY InvIs DEF RowInv
    <3>2. ~Seen
      BY <1>7, <3>1 DEF Seen
    <3>3. ASSUME Once PROVE row.seen = 1
      <4>1. row.seen \in 1..1
        BY <3>1, <3>3 DEF Once
      <4> QED BY <4>1
    <3> QED BY <3>2, <3>3 DEF Once, Seen
  <2>5. Seen'
    BY <1>1, <2>3 DEF Seen, file
  <2>6. AttemptInv'
    BY <1>2, <1>4, <2>2, <2>3, <2>5, InvIs DEF AttemptInv, Quiet, Before, Hashed
  <2>7. VerifiedInv'
    BY <2>3 DEF VerifiedInv
  <2>8. ProgramInv'
    <3>1. slices' = Blank \/ (slices' = slices /\ row'.torn)
      BY <2>2, <2>3
    <3>2. row'.seen \in 1..Len(past) /\ row'.match = spent'.looked /\ (row'.torn => ~Once)
      BY <1>2, <2>1, <2>3, <2>4, InvIs
    <3>3. local' \in Results /\ stream' = Idle
      BY <1>4, <2>2, InvIs
    <3> QED BY <1>1, <1>3, <2>3, <2>6, <2>7, <3>1, <3>2, <3>3, InvIs, Rests
  <2> QED BY <1>1, <1>2, <1>3, <2>8, InvIs, GivenStays DEF Inv
<1> QED BY <1>5, <1>6, <1>7 DEF Stat

LEMMA KeepsAttempt == ASSUME Inv, Attempt PROVE Inv'
<1>1. UNCHANGED <<file, bucket, late, options>> /\ pc = "attempt"
  BY DEF Attempt
<1>2. Grown /\ bucket' \in Buckets
  BY <1>1, InvIs, KeptSessions DEF Grown
<1>3. ASSUME stop PROVE Inv'
  <2>1. Leave /\ UNCHANGED <<row, slices, spent>>
    BY <1>3 DEF Attempt, rows
  <2>2. SpentOK' /\ spent'.looked = spent.looked
    BY <2>1, InvIs, LookedStays
  <2>3. BucketInv'
    BY <1>1, <2>2, InvIs, BucketStays
  <2>4. ProgramInv'
    BY <1>1, <1>2, <2>1, <2>2, Leaving
  <2> QED BY <1>1, <2>2, <2>3, <2>4, InvIs, GivenStays DEF Inv
<1>4. ASSUME ~stop PROVE Inv'
  <2> DEFINE g == bucket.dest.gen
             k == IF spent.looked = -1 THEN g ELSE spent.looked
  <2>1. g \in Nat
    BY InvIs DEF Buckets, Objects
  <2>2. k \in Int /\ k # -1
    BY <2>1, InvIs DEF SpentOK
  <2>3. /\ row' = [row EXCEPT !.state = "transferring", !.match = k]
        /\ spent' = [spent EXCEPT !.looked = k]
        /\ pc' = "skip rule" /\ UNCHANGED <<slices, local, edited, stream>>
    BY <1>4, InvIs DEF Attempt, FirstMatch
  <2>4. spent.looked # -1 => k = spent.looked
    OBVIOUS
  <2> HIDE DEF k, g
  <2>5. SpentOK' /\ spent'.looked = k
    BY <2>2, <2>3, InvIs DEF SpentOK
  <2>6. /\ row' \in Rows /\ row'.state = "transferring" /\ row'.size = row.size
        /\ row'.seen = row.seen /\ row'.match = k /\ row'.torn = row.torn
    BY <2>2, <2>3, InvIs, RowMatches
  <2>7. BucketInv'
    <3>1. CASE spent.looked # -1
      BY <1>1, <2>4, <2>5, <3>1, InvIs, BucketStays
    <3>2. CASE spent.looked = -1
      <4>1. bucket.sessions = <<>> /\ late = {}
        BY <3>2, InvIs DEF BucketInv
      <4>2. BucketRight(bucket)'
        <5>1. Len(bucket.sessions) = 0
          BY <4>1
        <5> QED BY <1>1, <5>1, InvIs DEF BucketInv, BucketRight, Once, file
      <4> QED BY <1>1, <2>2, <2>5, <4>1, <4>2 DEF BucketInv
    <3> QED BY <3>1, <3>2
  <2>8. stream' = Idle
    BY <1>1, <2>3, InvIs DEF AttemptInv, Quiet
  <2>9. AttemptInv'
    BY <1>1, <2>2, <2>3, <2>5, <2>6, <2>8, InvIs, Frame DEF AttemptInv, Quiet, Before, Hashed
  <2>10. VerifiedInv'
    BY <2>6 DEF VerifiedInv
  <2>11. ProgramInv'
    BY <1>1, <1>2, <2>3, <2>5, <2>6, <2>8, <2>9, <2>10, InvIs, Rests
  <2> QED BY <1>1, <2>5, <2>7, <2>11, InvIs, GivenStays DEF Inv
<1> QED BY <1>3, <1>4

LEMMA KeepsCaught == ASSUME Inv, Caught PROVE Inv'
<1>1. UNCHANGED <<file, bucket, late, options, spent>> /\ pc = "caught"
  BY DEF Caught, Outside
<1>2. SpentOK' /\ spent'.looked = spent.looked
  BY <1>1, InvIs, LookedStays
<1>3. BucketInv' /\ Grown /\ bucket' \in Buckets
  BY <1>1, <1>2, InvIs, BucketStays
<1>4. row.state # "verified" /\ row.state \in FileStates /\ stream = Idle
  BY <1>1, InvIs DEF AttemptInv, Quiet, VerifiedInv, Rows
<1>5. PICK s \in FileStates : s # "verified" /\ row' = [row EXCEPT !.state = s]
  BY <1>4 DEF Caught, FileStates
<1>6. /\ row' \in Rows /\ row'.state # "verified" /\ row'.size = row.size /\ row'.seen = row.seen
      /\ row'.match = row.match /\ row'.torn = row.torn
  BY <1>5, InvIs, RowSet
<1>7. /\ stream' = Idle /\ edited' = edited
      /\ \/ pc' = "attempt" /\ local' = local
         \/ pc' = "idle" /\ local' = NoResult
  BY <1>4 DEF Caught, Leave
<1>8. slices' = slices
  BY DEF Caught
<1>9. AttemptInv'
  BY <1>1, <1>2, <1>6, <1>7, InvIs, Frame DEF AttemptInv, Quiet, Before, Hashed
<1>10. VerifiedInv'
  BY <1>6 DEF VerifiedInv
<1>11. ProgramInv'
  BY <1>1, <1>2, <1>3, <1>6, <1>7, <1>8, <1>9, <1>10, InvIs, ShapesAre, Rests
<1> QED BY <1>1, <1>2, <1>3, <1>11, InvIs, GivenStays DEF Inv

LEMMA KeepsLookupLost == ASSUME Inv, LookupLost PROVE Inv'
<1>1. /\ UNCHANGED <<file, bucket, late, options>> /\ pc \notin {"idle", "stat"}
      /\ Fault /\ Fail("network")
  BY DEF LookupLost
<1>2. SpentOK' /\ spent'.looked = spent.looked
  BY <1>1, InvIs, LookedStays
<1>3. BucketInv' /\ Grown /\ bucket' \in Buckets
  BY <1>1, <1>2, InvIs, BucketStays
<1>4. ProgramInv'
  BY <1>1, <1>2, <1>3, Failing DEF Categories
<1> QED BY <1>1, <1>2, <1>3, <1>4, InvIs, GivenStays DEF Inv

\* A stream that begins: its session is asked, or a new one opened.
LEMMA StartIs ==
  ASSUME NEW u \in Units, u \in Used, slices \in [Units -> [uri: Nat, crc: Data]]
  PROVE  Start(u) \in Streams /\ StreamRight(u, Start(u))
<1>1. slices[u].uri \in Nat
  OBVIOUS
<1>2. PICK a \in {"open", "query"} :
        /\ Start(u) = [NoStream EXCEPT !.at = a]
        /\ a = "query" => slices[u].uri > 0
  BY <1>1 DEF Start
<1>3. Start(u) \in Streams /\ Start(u).at = a
  BY <1>2, ShapesAre DEF Streams, StreamPlaces
<1> QED BY <1>2, <1>3 DEF StreamRight

\* So does one that remembers what its slice was looked up to be.
LEMMA LookedStartIs ==
  ASSUME NEW u \in Units, u \in Used, slices \in [Units -> [uri: Nat, crc: Data]], NEW o \in Objects
  PROVE  /\ [Start(u) EXCEPT !.meta = o] \in Streams
         /\ StreamRight(u, [Start(u) EXCEPT !.meta = o])
<1>1. slices[u].uri \in Nat
  OBVIOUS
<1>2. PICK a \in {"open", "query"} :
        /\ Start(u) = [NoStream EXCEPT !.at = a]
        /\ a = "query" => slices[u].uri > 0
  BY <1>1 DEF Start
<1> DEFINE s == [Start(u) EXCEPT !.meta = o]
<1>3. Start(u) \in Streams /\ Start(u).at = a
  BY <1>2, ShapesAre DEF Streams, StreamPlaces
<1>4. s \in Streams /\ s.at = a
  BY <1>3 DEF Streams
<1> QED BY <1>2, <1>4 DEF StreamRight

LEMMA KeepsSkipRule == ASSUME Inv, SkipRule PROVE Inv'
<1>1. UNCHANGED <<file, bucket, late, options, spent>> /\ pc = "skip rule"
  BY DEF SkipRule, Outside
<1>2. SpentOK' /\ spent'.looked = spent.looked /\ spent.looked # -1
  BY <1>1, InvIs, LookedStays DEF AttemptInv, Before
<1>3. BucketInv' /\ Grown /\ bucket' \in Buckets
  BY <1>1, <1>2, InvIs, BucketStays
<1>4. CASE Fail("unknown")
  BY <1>1, <1>2, <1>3, <1>4, Failing, InvIs, GivenStays DEF Categories, Inv
<1>5. CASE \E result \in Results : MarkDelivered("skipped", result)
  BY <1>1, <1>2, <1>3, <1>5, Delivering, InvIs, GivenStays DEF Inv
<1>6. CASE /\ pc' = CASE options.method = "single_shot" -> "put"
                      [] options.method = "resumable" -> "streams"
                      [] OTHER -> "plan"
           /\ local' = [NoResult EXCEPT !.crc = source]
           /\ stream' = IF options.method = "resumable" THEN [Idle EXCEPT ![0] = Start(0)] ELSE Idle
           /\ UNCHANGED <<rows, edited>>
  <2>1. row' = row /\ slices' = slices /\ edited' = edited
    BY <1>6 DEF rows
  <2>2. local' \in Results /\ local'.crc = source
    BY <1>6, InvIs, GivenIs, ShapesAre DEF Results
  <2>3. options.method \in Methods
    BY InvIs, GivenIs DEF OptionsOK
  <2>4. stream' \in [Units -> Streams] /\ \A u \in Units : StreamRight(u, stream'[u])
    <3>1. CASE options.method = "resumable"
      <4>1. 0 \in Used /\ 0 \in Units
        <5>1. SizeOK
          BY InvIs DEF SizeOK, Rows
        <5> QED BY <5>1, InvIs, GivenIs, CountIs
      <4>2. slices \in [Units -> [uri: Nat, crc: Data]]
        BY InvIs DEF ProgramInv, SlicesInv
      <4>3. Start(0) \in Streams /\ StreamRight(0, Start(0))
        BY <4>1, <4>2, StartIs
      <4>4. stream' = [Idle EXCEPT ![0] = Start(0)]
        BY <1>6, <3>1
      <4>5. \A u \in Units : StreamRight(u, Idle[u])
        BY ShapesAre DEF StreamRight
      <4> QED BY <4>3, <4>4, <4>5, ShapesAre
    <3>2. CASE options.method # "resumable"
      BY <1>6, <3>2, ShapesAre DEF StreamRight
    <3> QED BY <3>1, <3>2
  <2>5. /\ pc' \in {"put", "streams", "plan"}
        /\ pc' = "plan" => options.method = "sliced"
        /\ pc' # "streams" => stream' = Idle
    BY <1>6, <2>3 DEF Methods
  <2>6. AttemptInv'
    BY <1>1, <1>2, <2>1, <2>2, <2>5, InvIs, Frame DEF AttemptInv, Quiet, Before, Hashed
  <2>7. VerifiedInv'
    BY <1>1, <2>1, InvIs DEF VerifiedInv
  <2>8. ProgramInv'
    BY <1>1, <1>2, <1>3, <2>1, <2>2, <2>4, <2>6, <2>7, InvIs, Goes
  <2> QED BY <1>1, <1>2, <1>3, <2>8, InvIs, GivenStays DEF Inv
<1>7. ASSUME NEW result, result = [crc |-> source, gen |-> bucket.dest.gen,
                                   sha |-> IF options.audit THEN source ELSE None]
      PROVE  result \in Results
  <2>1. bucket.dest.gen \in Nat
    BY InvIs DEF Buckets, Objects
  <2> QED BY <1>7, <2>1, InvIs, GivenIs, ConstantsAre DEF Results
<1> QED BY <1>4, <1>5, <1>6, <1>7 DEF SkipRule

LEMMA KeepsRecord == ASSUME Inv, Record PROVE Inv'
<1>1. UNCHANGED <<file, bucket, late, options, spent>> /\ pc = "record" /\ MarkDelivered("verified", local)
  BY DEF Record, Outside
<1>2. SpentOK' /\ spent'.looked = spent.looked
  BY <1>1, InvIs, LookedStays
<1>3. BucketInv' /\ Grown /\ bucket' \in Buckets
  BY <1>1, <1>2, InvIs, BucketStays
<1>4. ~edited /\ ~row.torn => local.crc = past[row.seen]
  BY <1>1, InvIs, GivenIs DEF AttemptInv, Hashed, Steady, Seen
<1>5. ProgramInv'
  BY <1>1, <1>2, <1>3, <1>4, InvIs, Delivering
<1> QED BY <1>1, <1>2, <1>3, <1>5, InvIs, GivenStays DEF Inv

\* Where the slices are cleared a changed or delivered row is behind, or a failed one.
LEMMA KeepsClearSlices == ASSUME Inv, ClearSlices PROVE Inv'
<1>1. /\ UNCHANGED <<file, bucket, late, options, spent>> /\ slices' = Blank
      /\ row' = [row EXCEPT !.torn = @ /\ row.state \in Delivered]
  BY DEF ClearSlices, Outside, DropSlices
<1>2. SpentOK' /\ spent'.looked = spent.looked
  BY <1>1, InvIs, LookedStays
<1>3. BucketInv' /\ Grown /\ bucket' \in Buckets
  BY <1>1, <1>2, InvIs, BucketStays
<1>4. /\ row' \in Rows /\ row'.state = row.state /\ row'.size = row.size /\ row'.seen = row.seen
      /\ row'.match = row.match /\ row'.crc = row.crc /\ (row'.torn => row.torn)
      /\ row.state \in Delivered => row'.torn = row.torn
  <2> DEFINE t == row.torn /\ row.state \in Delivered
  <2>1. t \in BOOLEAN /\ (t => row.torn) /\ (row.state \in Delivered => t = row.torn)
    BY InvIs DEF Rows
  <2>2. row' = [row EXCEPT !.torn = t]
    BY <1>1
  <2> HIDE DEF t
  <2> QED BY <2>1, <2>2, InvIs DEF Rows
<1>5. /\ stream' = Idle /\ edited' = edited
      /\ \/ pc = "clear slices" /\ pc' = "idle" /\ local' = NoResult
         \/ pc = "caught" /\ pc' = "caught" /\ local' = local
  BY InvIs DEF ClearSlices, Leave, AttemptInv, Quiet
<1>6. Seen' <=> Seen
  BY <1>1, <1>4, Frame
<1>7. AttemptInv'
  BY <1>1, <1>2, <1>5, <1>6, InvIs DEF AttemptInv, Quiet, Before, Hashed
<1>8. VerifiedInv'
  BY <1>1, <1>4, <1>5, InvIs DEF VerifiedInv, file, Delivered
<1>9. ProgramInv'
  BY <1>1, <1>2, <1>3, <1>4, <1>5, <1>7, <1>8, InvIs, ShapesAre, Rests
<1> QED BY <1>1, <1>2, <1>3, <1>9, InvIs, GivenStays DEF Inv

LEMMA KeepsClearFails == ASSUME Inv, ClearFails PROVE Inv'
<1>1. /\ UNCHANGED <<file, bucket, late, options>> /\ pc \notin {"idle", "stat"} /\ Fault
      /\ Fail("unknown") \/ (Leave /\ UNCHANGED rows)
  BY DEF ClearFails
<1>2. SpentOK' /\ spent'.looked = spent.looked
  BY <1>1, InvIs, LookedStays
<1>3. BucketInv' /\ Grown /\ bucket' \in Buckets
  BY <1>1, <1>2, InvIs, BucketStays
<1>4. ProgramInv'
  BY <1>1, <1>2, <1>3, Failing, Leaving DEF Categories, rows
<1> QED BY <1>1, <1>2, <1>3, <1>4, InvIs, GivenStays DEF Inv

---------------------------------------------------------------------------
(* Every step keeps the invariant: the requests of the main thread *)

\* A request that changes the bucket, however it ends.
LEMMA Requests ==
  ASSUME Inv, NEW next, NEW b \in Buckets, NEW answer \in Categories \cup {"done"}, NEW r,
         Request(next, b, answer, r), UNCHANGED <<file, options>>,
         BucketRight(b), Kept(bucket, b), LateRight(r),
         \/ pc = "put" /\ next = "check put"
         \/ pc = "compose" /\ next = "check compose"
  PROVE  Inv'
<1>1. spent.looked # -1 /\ pc \notin {"idle", "stat"}
  BY InvIs DEF AttemptInv, Before
<1>2. spent' = spent \/ Fault
  BY DEF Request
<1>3. SpentOK' /\ spent'.looked = spent.looked
  BY <1>2, InvIs, LookedStays
<1>4. BucketRight(bucket') /\ Kept(bucket, bucket') /\ bucket' \in Buckets
  <2>1. bucket' = b \/ bucket' = bucket
    BY DEF Request
  <2>2. BucketRight(bucket) /\ Kept(bucket, bucket)
    BY InvIs, KeptSessions DEF BucketInv
  <2> QED BY <2>1, <2>2, InvIs
<1>5. \A q \in late' : q \in late \/ LateRight(q)
  BY DEF Request
<1>6. BucketInv' /\ Grown
  BY <1>1, <1>3, <1>4, <1>5, InvIs, BucketMoves
<1>7. CASE \E c \in Categories : Fail(c)
  BY <1>1, <1>3, <1>4, <1>6, <1>7, Failing, InvIs, GivenStays DEF Inv
<1>8. CASE pc' = next /\ UNCHANGED <<rows, local, edited, stream>>
  <2>1. row' = row /\ slices' = slices /\ local' = local /\ edited' = edited /\ stream' = stream
    BY <1>8 DEF rows
  <2>2. AttemptInv'
    <3>1. /\ AttemptInv /\ (Seen' <=> Seen) /\ (Steady' <=> Steady) /\ source' = source
          /\ Used' = Used /\ options' = options
      BY <2>1, InvIs, Frame
    <3>2. pc' = next
      BY <1>8
    <3>3. CASE pc = "put" /\ next = "check put"
      BY <1>3, <2>1, <3>1, <3>2, <3>3 DEF AttemptInv, Quiet, Before, Hashed
    <3>4. CASE pc = "compose" /\ next = "check compose"
      BY <1>3, <2>1, <3>1, <3>2, <3>4 DEF AttemptInv, Quiet, Before, Hashed
    <3> QED BY <3>3, <3>4
  <2>3. VerifiedInv'
    BY <1>1, <2>1, InvIs DEF VerifiedInv
  <2>4. ProgramInv'
    BY <1>3, <1>4, <1>6, <2>1, <2>2, <2>3, InvIs, Goes
  <2> QED BY <1>3, <1>6, <2>4, InvIs, GivenStays DEF Inv
<1>9. "network" \in Categories /\ "conflict" \in Categories
  BY DEF Categories
<1> QED BY <1>7, <1>8, <1>9 DEF Request

LEMMA KeepsPut == ASSUME Inv, Put PROVE Inv'
<1> DEFINE hash == IF options.audit THEN local.crc ELSE None
           b == PutWhole(bucket, source, local.crc, row.match, hash)
           answer == PutAnswer(bucket, source, local.crc, row.match)
           r == [kind |-> "put", data |-> source, crc |-> local.crc, match |-> row.match, hash |-> hash]
<1>1. /\ pc = "put" /\ UNCHANGED <<file, options>>
      /\ Request("check put", b, answer, r)
  BY DEF Put
<1>2. /\ source \in Data /\ local.crc \in Data /\ hash \in Data
      /\ row.match = spent.looked /\ row.match \in Int
  BY InvIs, GivenIs, ConstantsAre DEF Results
<1>3. LateRight(r)
  <2> HIDE DEF hash
  <2>1. r \in Puts
    BY <1>2 DEF Puts
  <2>2. PutRight(r)
    BY <1>2 DEF PutRight
  <2> QED BY <2>1, <2>2 DEF LateRight
<1> HIDE DEF hash, r
<1>4. BucketRight(b) /\ Kept(bucket, b)
  BY <1>2, InvIs, PutKeeps DEF BucketInv
<1>5. b \in Buckets /\ answer \in Categories \cup {"done"}
  <2>1. b \in Buckets /\ answer \in {"mismatch", "conflict", "done"}
    BY <1>2, InvIs, PutIs
  <2> HIDE DEF b, answer
  <2> QED BY <2>1 DEF Categories
<1> HIDE DEF b, answer
<1> QED BY <1>1, <1>3, <1>4, <1>5, Requests

LEMMA KeepsCheckPut == ASSUME Inv, CheckPut PROVE Inv'
<1>1. UNCHANGED <<file, bucket, late, options, spent>> /\ pc = "check put"
  BY DEF CheckPut, Outside
<1>2. SpentOK' /\ spent'.looked = spent.looked /\ spent.looked # -1
  BY <1>1, InvIs, LookedStays DEF AttemptInv, Before
<1>3. BucketInv' /\ Grown /\ bucket' \in Buckets
  BY <1>1, <1>2, InvIs, BucketStays
<1>4. CASE Fail("mismatch")
  BY <1>1, <1>2, <1>3, <1>4, Failing, InvIs, GivenStays DEF Categories, Inv
<1>5. CASE /\ pc' = "record" /\ UNCHANGED <<rows, edited, stream>>
           /\ local' = [local EXCEPT !.gen = bucket.dest.gen,
                                     !.sha = IF options.audit THEN local.crc ELSE None]
  <2>1. row' = row /\ slices' = slices /\ edited' = edited /\ stream' = stream
    BY <1>5 DEF rows
  <2>2. local' \in Results /\ local'.crc = local.crc
    <3>1. bucket.dest.gen \in Nat
      BY InvIs DEF Buckets, Objects
    <3> QED BY <1>5, <3>1, InvIs, ConstantsAre DEF Results
  <2>3. AttemptInv'
    <3>1. AttemptInv /\ (Seen' <=> Seen) /\ (Steady' <=> Steady) /\ source' = source /\ pc' = "record"
      BY <1>1, <1>5, <2>1, InvIs, Frame
    <3> QED BY <1>1, <1>2, <2>1, <2>2, <3>1 DEF AttemptInv, Quiet, Before, Hashed
  <2>4. VerifiedInv'
    BY <1>1, <2>1, InvIs DEF VerifiedInv
  <2>5. ProgramInv'
    BY <1>1, <1>2, <1>3, <2>1, <2>2, <2>3, <2>4, InvIs, Goes
  <2> QED BY <1>1, <1>2, <1>3, <2>5, InvIs, GivenStays DEF Inv
<1> QED BY <1>4, <1>5 DEF CheckPut

LEMMA KeepsPlan == ASSUME Inv, Plan PROVE Inv'
<1>1. UNCHANGED <<file, bucket, late, options, spent, row, slices>> /\ pc = "plan"
  BY DEF Plan, Outside, rows
<1>2. SpentOK' /\ spent'.looked = spent.looked /\ spent.looked # -1
  BY <1>1, InvIs, LookedStays DEF AttemptInv, Before
<1>3. BucketInv' /\ Grown /\ bucket' \in Buckets
  BY <1>1, <1>2, InvIs, BucketStays
<1>4. CASE Leave
  BY <1>1, <1>2, <1>3, <1>4, Leaving, InvIs, GivenStays DEF Inv
<1>5. CASE /\ pc' = "streams" /\ UNCHANGED <<local, edited>>
           /\ stream' = [u \in Units |->
                IF u \notin Used THEN NoStream
                ELSE IF Reusable(u)
                THEN [NoStream EXCEPT !.at = "done", !.hashed = slices[u].crc, !.meta = bucket.temps[u]]
                ELSE [Start(u) EXCEPT !.meta = LookedUp(u)]]
  <2>1. slices \in [Units -> [uri: Nat, crc: Data]] /\ \A u \in Units : SliceRight(u)
    BY InvIs DEF ProgramInv, SlicesInv
  <2>2. ASSUME NEW u \in Units PROVE stream'[u] \in Streams /\ StreamRight(u, stream'[u])
    <3>1. CASE u \notin Used
      BY <1>5, <3>1, ShapesAre DEF StreamRight
    <3>2. CASE u \in Used /\ ~Reusable(u)
      <4>1. LookedUp(u) \in Objects
        BY InvIs, ConstantsAre DEF LookedUp, Buckets
      <4>2. stream'[u] = [Start(u) EXCEPT !.meta = LookedUp(u)]
        BY <1>5, <3>2
      <4> QED BY <2>1, <3>2, <4>1, <4>2, LookedStartIs
    <3>3. CASE u \in Used /\ Reusable(u)
      <4> DEFINE o == bucket.temps[u]
                 h == slices[u].crc
      <4>1. o \in Objects /\ h \in Data
        BY <2>1, InvIs DEF Buckets
      <4>2. stream'[u] = [NoStream EXCEPT !.at = "done", !.hashed = h, !.meta = o]
        BY <1>5, <3>3
      <4>3. Steady => o.data = Whole(u)
        BY <2>1, <3>3 DEF Reusable, SliceRight
      <4> HIDE DEF o, h
      <4>4. stream'[u] \in Streams /\ stream'[u].at = "done" /\ stream'[u].meta = o
        BY <4>1, <4>2, ShapesAre DEF Streams, StreamPlaces
      <4> QED BY <3>3, <4>3, <4>4 DEF StreamRight
    <3> QED BY <3>1, <3>2, <3>3
  <2>3. stream' \in [Units -> Streams]
    BY <1>5, <2>2
  <2>4. AttemptInv'
    BY <1>1, <1>2, <1>5, InvIs, Frame DEF AttemptInv, Quiet, Before, Hashed
  <2>5. VerifiedInv'
    BY <1>1, InvIs DEF VerifiedInv
  <2>6. ProgramInv'
    BY <1>1, <1>2, <1>3, <1>5, <2>2, <2>3, <2>4, <2>5, InvIs, Goes
  <2> QED BY <1>1, <1>2, <1>3, <2>6, InvIs, GivenStays DEF Inv
<1> QED BY <1>4, <1>5 DEF Plan

---------------------------------------------------------------------------
(* Every step keeps the invariant: joined, composed, swept, stamped *)

LEMMA WholeIs ==
  ASSUME Inv, Steady, options.method # "sliced"
  PROVE  Whole(0) = source
<1>1. OptionsOK /\ SizeOK /\ source \in Data /\ row.size = Len(source)
  BY InvIs, GivenIs DEF SizeOK, Rows, RowInv, Steady
<1>2. Offset(0) = 0 /\ Length(0) = Len(source)
  BY <1>1, PlacesAre
<1>3. Len(source) \in Nat
  BY <1>1 DEF Data
<1>4. Whole(0) = SubSeq(source, 1, Len(source))
  BY <1>2, <1>3 DEF Whole
<1> QED BY <1>1, <1>4 DEF Data

LEMMA JoinedIs ==
  ASSUME Inv, Steady, pc \in {"compose", "check compose"}
  PROVE  Joined(Metas) = source
<1>1. OptionsOK /\ SizeOK /\ source \in Data /\ row.size = Len(source)
  BY InvIs, GivenIs DEF SizeOK, Rows, RowInv, Steady
<1>2. /\ options.method = "sliced" /\ \A u \in Used : stream[u].at \in {"done", "found"}
      /\ stream \in [Units -> Streams] /\ \A u \in Units : StreamRight(u, stream[u])
  BY InvIs DEF AttemptInv, ProgramInv, StreamInv
<1>3. Used \subseteq Units
  BY <1>1, CountIs
<1>4. \A u \in Used : stream[u].meta.data = Whole(u)
  BY <1>2, <1>3 DEF StreamRight
<1> QED BY <1>1, <1>2, <1>4, JoinedIsSource

LEMMA KeepsJoin == ASSUME Inv, Join PROVE Inv'
<1>1. UNCHANGED <<file, bucket, late, options, spent>> /\ pc = "streams"
  BY DEF Join, Outside
<1>2. SpentOK' /\ spent'.looked = spent.looked /\ spent.looked # -1
  BY <1>1, InvIs, LookedStays DEF AttemptInv, Before
<1>3. BucketInv' /\ Grown /\ bucket' \in Buckets
  BY <1>1, <1>2, InvIs, BucketStays
<1>4. /\ stream \in [Units -> Streams] /\ \A u \in Units : StreamRight(u, stream[u])
      /\ Used \subseteq Units /\ 0 \in Used
  <2>1. OptionsOK /\ SizeOK
    BY InvIs, GivenIs DEF SizeOK, Rows
  <2> QED BY <2>1, CountIs, InvIs DEF ProgramInv, StreamInv
<1>5. CASE Leave /\ UNCHANGED rows
  <2>1. UNCHANGED <<row, slices>>
    BY <1>5 DEF rows
  <2>2. ProgramInv'
    BY <1>1, <1>2, <1>3, <1>5, <2>1, Leaving
  <2> QED BY <1>1, <1>2, <1>3, <2>2, InvIs, GivenStays DEF Inv
<1>6. CASE \E u \in Used : Fail(stream[u].err)
  <2>1. PICK u \in Used : Fail(stream[u].err)
    BY <1>6
  <2>2. stream[u].err \in Categories
    BY <1>4 DEF Streams
  <2>3. ProgramInv'
    BY <1>1, <1>2, <1>3, <2>1, <2>2, Failing
  <2> QED BY <1>1, <1>2, <1>3, <2>3, InvIs, GivenStays DEF Inv
<1>7. CASE /\ \A u \in Used : Settled(u) /\ ~Bad(u)
           /\ pc' = IF options.method = "sliced" THEN "compose"
                    ELSE IF stream[0].at = "found" THEN "record" ELSE "stamp"
           /\ local' = [crc |-> stream[0].meta.data, gen |-> stream[0].meta.gen,
                        sha |-> IF stream[0].at = "found" /\ options.audit THEN source ELSE None]
           /\ UNCHANGED <<rows, edited, stream>>
  <2>1. row' = row /\ slices' = slices /\ edited' = edited /\ stream' = stream
    BY <1>7 DEF rows
  <2>2. \A u \in Used : stream[u].at \in {"done", "found"}
    BY <1>7 DEF Settled, Bad
  <2>3. local' \in Results /\ local'.crc = stream[0].meta.data
    <3>1. stream[0].meta \in Objects
      BY <1>4 DEF Streams
    <3>2. stream[0].meta.data \in Data /\ stream[0].meta.gen \in Nat
      BY <3>1 DEF Objects
    <3>3. source \in Data /\ None \in Data
      BY InvIs, GivenIs, ConstantsAre
    <3> QED BY <1>7, <3>2, <3>3 DEF Results
  <2>4. \/ pc' = "compose" /\ options.method = "sliced"
        \/ pc' \in {"record", "stamp"} /\ options.method # "sliced"
    BY <1>7
  <2>5. Steady /\ options.method # "sliced" => local'.crc = source
    BY <1>4, <2>2, <2>3, WholeIs DEF StreamRight
  <2>6. AttemptInv'
    <3>1. /\ AttemptInv /\ (Seen' <=> Seen) /\ (Steady' <=> Steady) /\ source' = source /\ Used' = Used
          /\ options' = options
      BY <1>1, <2>1, InvIs, Frame
    <3> QED BY <1>1, <1>2, <2>1, <2>2, <2>4, <2>5, <3>1 DEF AttemptInv, Quiet, Before, Hashed
  <2>7. VerifiedInv'
    BY <1>1, <2>1, InvIs DEF VerifiedInv
  <2>8. ProgramInv'
    BY <1>1, <1>2, <1>3, <2>1, <2>3, <2>6, <2>7, InvIs, Goes
  <2> QED BY <1>1, <1>2, <1>3, <2>8, InvIs, GivenStays DEF Inv
<1> QED BY <1>5, <1>6, <1>7 DEF Join

LEMMA KeepsCompose == ASSUME Inv, Compose PROVE Inv'
<1> DEFINE b == Composed(bucket, Metas, row.match)
           answer == ComposeAnswer(bucket, Metas, row.match)
           r == [kind |-> "compose", metas |-> Metas, match |-> row.match]
<1>1. /\ pc = "compose" /\ UNCHANGED <<file, options>>
      /\ Request("check compose", b, answer, r)
  BY DEF Compose
<1>2. Metas \in Seq(Objects) /\ row.match = spent.looked /\ row.match \in Int
  <2>1. OptionsOK /\ SizeOK /\ row.match \in Int
    BY InvIs, GivenIs DEF SizeOK, Rows
  <2>2. stream \in [Units -> Streams]
    BY InvIs DEF ProgramInv, StreamInv
  <2> QED BY <2>1, <2>2, MetasAre, InvIs
<1>3. Once => Joined(Metas) = source
  <2>1. Once => Steady
    BY InvIs DEF Once, Steady, Seen, RowInv
  <2> QED BY <1>1, <2>1, JoinedIs
<1>4. LateRight(r)
  <2> DEFINE metas == Metas
  <2>1. metas \in Seq(Objects) /\ row.match \in Int
    BY <1>2
  <2> HIDE DEF metas
  <2>2. [kind |-> "compose", metas |-> metas, match |-> row.match] \in Composes
    BY <2>1 DEF Composes
  <2>3. r \in Composes
    BY <2>2 DEF metas
  <2>4. ComposeRight(r)
    BY <1>2, <1>3 DEF ComposeRight
  <2> QED BY <2>3, <2>4 DEF LateRight
<1> HIDE DEF r
<1>5. BucketRight(b) /\ Kept(bucket, b)
  BY <1>2, <1>3, InvIs, ComposeKeeps DEF BucketInv
<1>6. b \in Buckets /\ answer \in Categories \cup {"done"}
  <2>1. b \in Buckets /\ answer \in {"not found", "conflict", "done"}
    BY <1>2, InvIs, ComposedIs
  <2> HIDE DEF b, answer
  <2> QED BY <2>1 DEF Categories
<1> HIDE DEF b, answer
<1> QED BY <1>1, <1>4, <1>5, <1>6, Requests

LEMMA KeepsCheckCompose == ASSUME Inv, CheckCompose PROVE Inv'
<1>1. UNCHANGED <<file, bucket, late, options, spent>> /\ pc = "check compose"
  BY DEF CheckCompose, Outside
<1>2. SpentOK' /\ spent'.looked = spent.looked /\ spent.looked # -1
  BY <1>1, InvIs, LookedStays DEF AttemptInv, Before
<1>3. BucketInv' /\ Grown /\ bucket' \in Buckets
  BY <1>1, <1>2, InvIs, BucketStays
<1>4. CASE Fail("mismatch")
  BY <1>1, <1>2, <1>3, <1>4, Failing, InvIs, GivenStays DEF Categories, Inv
<1>5. CASE /\ bucket.dest.data = Joined(Metas)
           /\ pc' = "sweep" /\ UNCHANGED <<rows, edited, stream>>
           /\ local' = [NoResult EXCEPT !.crc = bucket.dest.data, !.gen = bucket.dest.gen]
  <2>1. row' = row /\ slices' = slices /\ edited' = edited /\ stream' = stream
    BY <1>5 DEF rows
  <2>2. local' \in Results /\ local'.crc = bucket.dest.data
    <3>1. bucket.dest.gen \in Nat /\ bucket.dest.data \in Data
      BY InvIs DEF Buckets, Objects
    <3> QED BY <1>5, <3>1, ShapesAre DEF Results
  <2>3. Steady => local'.crc = source
    BY <1>1, <1>5, <2>2, JoinedIs
  <2>4. AttemptInv'
    <3>1. AttemptInv /\ (Seen' <=> Seen) /\ (Steady' <=> Steady) /\ source' = source /\ pc' = "sweep"
      BY <1>1, <1>5, <2>1, InvIs, Frame
    <3> QED BY <1>1, <1>2, <2>1, <2>3, <3>1 DEF AttemptInv, Quiet, Before, Hashed
  <2>5. VerifiedInv'
    BY <1>1, <2>1, InvIs DEF VerifiedInv
  <2>6. ProgramInv'
    BY <1>1, <1>2, <1>3, <2>1, <2>2, <2>4, <2>5, InvIs, Goes
  <2> QED BY <1>1, <1>2, <1>3, <2>6, InvIs, GivenStays DEF Inv
<1> QED BY <1>4, <1>5 DEF CheckCompose

\* From one place to the next of those that have the checksum.
LEMMA Onwards ==
  ASSUME Inv, UNCHANGED <<file, options, row, slices, edited, stream>>,
         pc \in {"sweep", "stamp"}, pc' \in {"stamp", "record"}, local' \in Results, local'.crc = local.crc,
         spent'.looked = spent.looked, bucket' \in Buckets, Grown
  PROVE  ProgramInv'
<1>1. AttemptInv'
  <2>1. AttemptInv /\ (Seen' <=> Seen) /\ (Steady' <=> Steady) /\ source' = source
    BY InvIs, Frame
  <2> QED BY <2>1 DEF AttemptInv, Quiet, Before, Hashed
<1>2. VerifiedInv'
  BY InvIs DEF VerifiedInv
<1> QED BY <1>1, <1>2, InvIs, Goes

LEMMA KeepsSweep == ASSUME Inv, Sweep PROVE Inv'
<1>1. UNCHANGED <<file, late, options>> /\ pc = "sweep"
  BY DEF Sweep
<1>2. spent' = spent \/ Fault
  BY DEF Sweep
<1>3. SpentOK' /\ spent'.looked = spent.looked /\ spent.looked # -1
  BY <1>1, <1>2, InvIs, LookedStays DEF AttemptInv, Before
<1>4. PICK t \in [Units -> Objects] : bucket' = [bucket EXCEPT !.temps = t]
  <2>1. bucket.temps \in [Units -> Objects] /\ Absent \in Objects
    BY InvIs, ConstantsAre DEF Buckets
  <2>2. CASE bucket' = [bucket EXCEPT !.temps = [u \in Units |-> Absent]]
    BY <2>1, <2>2
  <2>3. CASE \E S \in SUBSET Units :
               bucket' = [bucket EXCEPT !.temps = [u \in Units |-> IF u \in S THEN Absent ELSE @[u]]]
    <3>1. PICK S \in SUBSET Units :
               bucket' = [bucket EXCEPT !.temps = [u \in Units |-> IF u \in S THEN Absent ELSE bucket.temps[u]]]
      BY <2>3
    <3> DEFINE t == [u \in Units |-> IF u \in S THEN Absent ELSE bucket.temps[u]]
    <3>2. t \in [Units -> Objects]
      BY <2>1
    <3> QED BY <3>1, <3>2
  <2> QED BY <2>2, <2>3 DEF Sweep
<1>5. bucket' \in Buckets /\ bucket'.dest = bucket.dest /\ bucket'.sessions = bucket.sessions
  BY <1>4, InvIs, TempsSet DEF WithTemps
<1>6. BucketRight(bucket') /\ Kept(bucket, bucket')
  BY <1>5, InvIs, SameSessions DEF BucketInv
<1>7. BucketInv' /\ Grown
  BY <1>1, <1>3, <1>6, InvIs, BucketMoves
<1>8. CASE Fail("network")
  BY <1>1, <1>3, <1>5, <1>7, <1>8, Failing, InvIs, GivenStays DEF Categories, Inv
<1>9. CASE pc' = "stamp" /\ UNCHANGED <<rows, local, edited, stream>>
  <2>1. UNCHANGED <<row, slices, local, edited, stream>>
    BY <1>9 DEF rows
  <2>2. ProgramInv'
    BY <1>1, <1>3, <1>5, <1>7, <1>9, <2>1, InvIs, Onwards
  <2> QED BY <1>1, <1>3, <1>7, <2>2, InvIs, GivenStays DEF Inv
<1> QED BY <1>8, <1>9 DEF Sweep

LEMMA KeepsStamp == ASSUME Inv, Stamp PROVE Inv'
<1>1. UNCHANGED <<file, late, options, spent>> /\ pc = "stamp"
  BY DEF Stamp
<1>2. SpentOK' /\ spent'.looked = spent.looked /\ spent.looked # -1
  BY <1>1, InvIs, LookedStays DEF AttemptInv, Before
<1>3. CASE Fail("not found") /\ UNCHANGED bucket
  <2>1. BucketInv' /\ Grown /\ bucket' \in Buckets
    BY <1>1, <1>2, <1>3, InvIs, BucketStays
  <2> QED BY <1>1, <1>2, <1>3, <2>1, Failing, InvIs, GivenStays DEF Categories, Inv
<1>4. CASE pc' = "record" /\ UNCHANGED <<bucket, rows, local, edited, stream>>
  <2>1. UNCHANGED <<row, slices, local, edited, stream>>
    BY <1>4 DEF rows
  <2>2. BucketInv' /\ Grown /\ bucket' \in Buckets
    BY <1>1, <1>2, <1>4, InvIs, BucketStays
  <2>3. ProgramInv'
    BY <1>1, <1>2, <1>4, <2>1, <2>2, InvIs, Onwards
  <2> QED BY <1>1, <1>2, <2>2, <2>3, InvIs, GivenStays DEF Inv
<1>5. CASE /\ bucket' = [bucket EXCEPT !.dest.hash = Sha] /\ local' = [local EXCEPT !.sha = Sha]
           /\ pc' = "record" /\ UNCHANGED <<rows, edited, stream>>
  <2>1. UNCHANGED <<row, slices, edited, stream>>
    BY <1>5 DEF rows
  <2>2. Sha \in Data
    BY InvIs, GivenIs DEF Sha, Results
  <2>3. local' \in Results /\ local'.crc = local.crc
    BY <1>5, <2>2, InvIs DEF Results
  <2> DEFINE o == [bucket.dest EXCEPT !.hash = Sha]
  <2>4. o \in Objects /\ o.data = bucket.dest.data /\ o.by = bucket.dest.by
    <3>1. bucket.dest \in Objects
      BY InvIs DEF Buckets
    <3> QED BY <2>2, <3>1 DEF Objects
  <2>5. bucket' = WithDest(bucket, o)
    BY <1>5 DEF WithDest
  <2> HIDE DEF o
  <2>6. bucket' \in Buckets /\ bucket'.dest = o /\ bucket'.sessions = bucket.sessions
    BY <2>4, <2>5, InvIs, DestSet
  <2>7. BucketRight(bucket') /\ Kept(bucket, bucket')
    BY <2>4, <2>6, InvIs, SameSessions DEF BucketInv, BucketRight
  <2>8. BucketInv' /\ Grown
    BY <1>1, <1>2, <2>7, InvIs, BucketMoves
  <2>9. ProgramInv'
    BY <1>1, <1>2, <1>5, <2>1, <2>3, <2>6, <2>8, InvIs, Onwards
  <2> QED BY <1>1, <1>2, <2>8, <2>9, InvIs, GivenStays DEF Inv
<1> QED BY <1>3, <1>4, <1>5 DEF Stamp

---------------------------------------------------------------------------
(* Every step keeps the invariant: the streams *)

\* What a step of a stream has to go by.
LEMMA StreamIs ==
  ASSUME Inv, NEW u \in Units, pc = "streams", stream[u].at # "none"
  PROVE  /\ OptionsOK /\ SizeOK /\ source \in Data /\ Len(source) \in Nat /\ spent.looked # -1
         /\ stream \in [Units -> Streams] /\ stream[u] \in Streams /\ StreamRight(u, stream[u])
         /\ stream[u].hashed \in Data /\ Len(stream[u].hashed) \in Nat
         /\ u \in Used /\ Offset(u) \in Nat /\ Length(u) \in Nat
         /\ slices \in [Units -> [uri: Nat, crc: Data]] /\ SliceRight(u)
         /\ Steady => row.size = Len(source) /\ Offset(u) + Length(u) <= Len(source)
<1>1. OptionsOK /\ SizeOK /\ source \in Data /\ Len(source) \in Nat /\ spent.looked # -1
  BY InvIs, GivenIs DEF SizeOK, Rows, AttemptInv, Before
<1>2. stream \in [Units -> Streams] /\ StreamRight(u, stream[u])
  BY InvIs DEF ProgramInv, StreamInv
<1>3. stream[u] \in Streams
  BY <1>2
<1>4. stream[u].hashed \in Data /\ Len(stream[u].hashed) \in Nat
  BY <1>3 DEF Streams, Data
<1>5. u \in Used
  BY <1>2 DEF StreamRight
<1>6. /\ Offset(u) \in Nat /\ Length(u) \in Nat
      /\ Steady => row.size = Len(source) /\ Offset(u) + Length(u) <= Len(source)
  BY <1>1, <1>5, PlacesAre, InvIs DEF RowInv, Steady
<1>7. slices \in [Units -> [uri: Nat, crc: Data]] /\ SliceRight(u)
  BY InvIs DEF ProgramInv, SlicesInv
<1> QED BY <1>1, <1>2, <1>3, <1>4, <1>5, <1>6, <1>7

\* The session of a stream that has one.
LEMMA SessionIs ==
  ASSUME Inv, NEW u \in Units, pc = "streams", stream[u].at \in {"query", "send", "verify"}
  PROVE  /\ slices[u].uri \in 1..Len(bucket.sessions)
         /\ Session(u) \in Sessions /\ SessionRight(Session(u))
         /\ stream[u].at # "query" => Session(u).total = Length(u)
<1>1. slices \in [Units -> [uri: Nat, crc: Data]] /\ SliceRight(u) /\ StreamRight(u, stream[u])
  BY StreamIs
<1>2. slices[u].uri > 0 /\ slices[u].uri \in Nat
  BY <1>1 DEF StreamRight
<1>3. BucketRight(bucket) /\ bucket.sessions \in Seq(Sessions)
  BY InvIs DEF BucketInv, Buckets
<1>4. slices[u].uri \in 1..Len(bucket.sessions)
  BY <1>1, <1>2, <1>3 DEF SliceRight
<1>5. Session(u) \in Sessions /\ SessionRight(Session(u))
  BY <1>3, <1>4 DEF Session, BucketRight
<1>6. stream[u].at # "query" => Session(u).total = Length(u)
  BY <1>1 DEF StreamRight, Fits, Session
<1> QED BY <1>4, <1>5, <1>6

\* A stream that has the slice's bytes, or failed, or starts anew.
LEMMA StreamMoves ==
  ASSUME Inv, StreamStep, SpentOK', spent'.looked = spent.looked,
         BucketInv', Grown, bucket' \in Buckets, slices' = slices,
         NEW u \in Units, NEW new \in Streams, Becomes(u, new), StreamRight(u, new)
  PROVE  Inv'
<1>1. UNCHANGED <<file, options>> /\ row'.size = row.size /\ row'.seen = row.seen
  BY DEF StreamStep
<1>2. StreamRight(u, new)'
  <2>1. Read(u, new) => Read(u, new)'
    BY <1>1, Frame DEF Read
  <2>2. slices[u].uri > 0 /\ Fits(u) => Fits(u)'
    BY <1>1, InvIs, FitStays DEF ProgramInv
  <2>3. row'.torn = row.torn
    BY DEF StreamStep
  <2> QED BY <1>1, <2>1, <2>2, <2>3, Frame DEF StreamRight
<1>3. SlicesInv /\ slices \in [Units -> [uri: Nat, crc: Data]]
  BY InvIs DEF ProgramInv, SlicesInv
<1>4. SliceRight(u)'
  BY <1>1, <1>3, InvIs, SliceStays DEF StreamStep
<1>5. ProgramInv'
  BY <1>2, <1>3, <1>4, InvIs, Moves
<1> QED BY <1>1, <1>5, InvIs, GivenStays DEF Inv

At(s, a) == [s EXCEPT !.at = a]
Failed(s, c) == [s EXCEPT !.at = "failed", !.err = c]

\* It fails, stops, or starts anew.
LEMMA StreamEnds ==
  ASSUME Inv, StreamStep, SpentOK', spent'.looked = spent.looked,
         BucketInv', Grown, bucket' \in Buckets, slices' = slices,
         NEW u \in Units, stream[u].at # "none",
         \/ \E a \in {"open", "stopped"} : Becomes(u, At(stream[u], a))
         \/ \E c \in Categories : Fails(u, c)
  PROVE  Inv'
<1>1. stream[u] \in Streams /\ u \in Used
  BY StreamIs DEF StreamStep
<1>2. PICK new \in Streams : Becomes(u, new) /\ new.at \in {"open", "stopped", "failed"}
  <2>1. ASSUME NEW a \in {"open", "stopped"}
        PROVE  At(stream[u], a) \in Streams /\ At(stream[u], a).at \in {"open", "stopped", "failed"}
    BY <1>1 DEF At, Streams, StreamPlaces
  <2>2. ASSUME NEW c \in Categories
        PROVE  Failed(stream[u], c) \in Streams /\ Failed(stream[u], c).at \in {"open", "stopped", "failed"}
    BY <1>1 DEF Failed, Streams, StreamPlaces
  <2> QED BY <2>1, <2>2 DEF Fails, Failed
<1>3. StreamRight(u, new)
  BY <1>1, <1>2 DEF StreamRight
<1> QED BY <1>2, <1>3, StreamMoves

LEMMA KeepsStopped ==
  ASSUME Inv, NEW u \in Units, StopStream(u) \/ Unfinished(u) \/ Truncated(u) \/ SessionLost(u)
  PROVE  Inv'
<1>1. /\ StreamStep /\ UNCHANGED <<bucket, late, slices>> /\ stream[u].at # "none"
      /\ spent' = spent \/ Fault
  BY DEF StopStream, Unfinished, Truncated, SessionLost
<1>2. /\ SpentOK' /\ spent'.looked = spent.looked
      /\ BucketInv' /\ Grown /\ bucket' \in Buckets
  BY <1>1, InvIs, LookedStays, BucketStays DEF StreamStep
<1>3. \/ \E a \in {"open", "stopped"} : Becomes(u, At(stream[u], a))
      \/ \E c \in Categories : Fails(u, c)
  BY DEF StopStream, Unfinished, Truncated, SessionLost, At, Categories
<1> QED BY <1>1, <1>2, <1>3, StreamEnds

\* The slice's row gets the checksum of what its session or stream has.
LEMMA Uploaded ==
  ASSUME Inv, StreamStep, UNCHANGED <<bucket, late, spent>>,
         NEW u \in Units, NEW crc \in Data, Steady => crc = Whole(u),
         NEW new \in Streams, Becomes(u, new), StreamRight(u, new), new.at \in {"done", "found"},
         slices' = IF options.method = "sliced" THEN [slices EXCEPT ![u].crc = crc] ELSE slices
  PROVE  Inv'
<1>1. UNCHANGED <<file, options, row>>
  BY DEF StreamStep
<1>2. /\ SpentOK' /\ spent'.looked = spent.looked
      /\ BucketInv' /\ Grown /\ bucket' \in Buckets
  BY <1>1, InvIs, LookedStays, BucketStays
<1>3. slices \in [Units -> [uri: Nat, crc: Data]] /\ SlicesInv /\ SliceRight(u)
  BY InvIs DEF ProgramInv, SlicesInv
<1>4. CASE slices' = slices
  BY <1>2, <1>4, StreamMoves
<1>5. CASE slices' = [slices EXCEPT ![u].crc = crc]
  <2>1. /\ slices' \in [Units -> [uri: Nat, crc: Data]]
        /\ slices'[u].uri = slices[u].uri /\ slices'[u].crc = crc
        /\ \A v \in Units : v # u => slices'[v] = slices[v]
    BY <1>3, <1>5
  <2>2. SliceRight(u)'
    <3>1. slices'[u].uri <= Len(bucket'.sessions)
      BY <1>3, <2>1 DEF SliceRight
    <3>2. Steady' => slices'[u].crc \in {None, Whole(u)'}
      BY <1>1, <2>1, Frame
    <3> QED BY <3>1, <3>2 DEF SliceRight
  <2>3. StreamRight(u, new)'
    BY <1>1, Frame DEF StreamRight
  <2>4. ProgramInv'
    BY <1>2, <2>1, <2>2, <2>3, InvIs, Moves
  <2> QED BY <1>1, <1>2, <2>4, InvIs, GivenStays DEF Inv
<1> QED BY <1>4, <1>5

LEMMA KeepsVerifyStream == ASSUME Inv, NEW u \in Units, VerifyStream(u) PROVE Inv'
<1>1. StreamStep /\ UNCHANGED <<bucket, late, spent>> /\ stream[u].at = "verify"
  BY DEF VerifyStream
<1>2. /\ SpentOK' /\ spent'.looked = spent.looked
      /\ BucketInv' /\ Grown /\ bucket' \in Buckets
  BY <1>1, InvIs, LookedStays, BucketStays DEF StreamStep
<1>3. CASE Fails(u, "mismatch") /\ UNCHANGED slices
  BY <1>1, <1>2, <1>3, StreamEnds DEF Categories
<1>4. CASE /\ stream[u].meta.data = stream[u].hashed /\ Becomes(u, At(stream[u], "done"))
           /\ slices' = IF options.method = "sliced" THEN [slices EXCEPT ![u].crc = stream[u].hashed] ELSE slices
  <2>1. /\ stream[u] \in Streams /\ StreamRight(u, stream[u]) /\ stream[u].hashed \in Data /\ u \in Used
        /\ Length(u) \in Nat /\ Offset(u) \in Nat
    BY <1>1, StreamIs DEF StreamStep
  <2>2. Steady => stream[u].hashed = Whole(u)
    BY <1>1, <1>4, <2>1 DEF StreamRight, Read, Whole
  <2>3. /\ At(stream[u], "done") \in Streams /\ At(stream[u], "done").at = "done"
        /\ At(stream[u], "done").meta = stream[u].meta
    BY <2>1 DEF At, Streams, StreamPlaces
  <2>4. StreamRight(u, At(stream[u], "done"))
    BY <1>4, <2>1, <2>2, <2>3 DEF StreamRight
  <2> QED BY <1>1, <1>4, <2>1, <2>2, <2>3, <2>4, Uploaded
<1> QED BY <1>3, <1>4 DEF VerifyStream, At

LEMMA KeepsQuery == ASSUME Inv, NEW u \in Units, Query(u) PROVE Inv'
<1>1. StreamStep /\ UNCHANGED <<bucket, late, spent>> /\ stream[u].at = "query" /\ pc = "streams"
  BY DEF Query, StreamStep
<1>2. /\ SpentOK' /\ spent'.looked = spent.looked
      /\ BucketInv' /\ Grown /\ bucket' \in Buckets
  BY <1>1, InvIs, LookedStays, BucketStays DEF StreamStep
<1>3. /\ stream[u] \in Streams /\ StreamRight(u, stream[u]) /\ u \in Used /\ OptionsOK /\ SizeOK
      /\ source \in Data /\ Len(source) \in Nat /\ Length(u) \in Nat /\ Offset(u) \in Nat
      /\ Steady => row.size = Len(source) /\ Offset(u) + Length(u) <= Len(source)
  BY <1>1, StreamIs
<1>4. Session(u) \in Sessions /\ slices[u].uri > 0
  BY <1>1, <1>3, SessionIs DEF StreamRight
<1>5. Session(u).meta \in Objects /\ Session(u).meta.data \in Data /\ Session(u).data \in Data
  BY <1>4 DEF Sessions, Objects
<1>6. CASE UNCHANGED slices /\ \E c \in Categories : Fails(u, c)
  BY <1>1, <1>2, <1>6, StreamEnds
<1>7. CASE UNCHANGED slices /\ Becomes(u, At(stream[u], "open"))
  BY <1>1, <1>2, <1>7, StreamEnds
<1>8. CASE LET crc == Session(u).meta.data
           IN /\ crc = Part(u, IF options.method = "sliced" THEN Length(u) ELSE Len(source))
              /\ Becomes(u, [stream[u] EXCEPT !.at = "found", !.meta = Session(u).meta])
              /\ slices' = IF options.method = "sliced" THEN [slices EXCEPT ![u].crc = crc] ELSE slices
  <2> DEFINE o == Session(u).meta
             new == [stream[u] EXCEPT !.at = "found", !.meta = o]
  <2>1. Steady => o.data = Whole(u)
    <3>1. CASE options.method = "sliced"
      BY <1>3, <1>8, <3>1 DEF Part, Whole, Smaller
    <3>2. CASE options.method # "sliced"
      <4>1. Offset(u) = 0 /\ Length(u) = row.size
        BY <1>3, <3>2, PlacesAre
      <4> QED BY <1>3, <1>8, <3>2, <4>1 DEF Part, Whole, Smaller
    <3> QED BY <3>1, <3>2
  <2>2. new \in Streams /\ new.at = "found" /\ new.meta = o
    <3>1. o \in Objects
      BY <1>5
    <3> HIDE DEF o
    <3> QED BY <1>3, <3>1 DEF Streams, StreamPlaces
  <2>3. StreamRight(u, new)
    <3> HIDE DEF new
    <3> QED BY <1>3, <2>1, <2>2 DEF StreamRight
  <2>4. Becomes(u, new)
    BY <1>8
  <2> HIDE DEF new
  <2> QED BY <1>1, <1>5, <1>8, <2>1, <2>2, <2>3, <2>4, Uploaded
<1>9. CASE /\ UNCHANGED slices /\ ~(Len(source) < Offset(u) + Committed(u)) /\ Session(u).total = Length(u)
           /\ Becomes(u, [stream[u] EXCEPT !.at = "send", !.hashed = Part(u, Committed(u))])
  <2> DEFINE n == Committed(u)
             h == Part(u, n)
             new == [stream[u] EXCEPT !.at = "send", !.hashed = h]
  <2>1. n \in Nat
    BY <1>5 DEF Committed, Data
  <2>2. h = SubSeq(source, Offset(u) + 1, Offset(u) + n) /\ Offset(u) + n <= Len(source)
    BY <1>3, <1>9, <2>1 DEF Part, Smaller
  <2>3. h \in Data /\ Len(h) = n
    <3> HIDE DEF h, n
    <3>1. /\ SubSeq(source, Offset(u) + 1, Offset(u) + n) \in Data
          /\ Len(SubSeq(source, Offset(u) + 1, Offset(u) + n)) = n
      BY <1>3, <2>1, <2>2, PartsAre
    <3> QED BY <2>2, <3>1
  <2>4. new \in Streams /\ new.at = "send" /\ new.hashed = h
    <3> HIDE DEF h
    <3> QED BY <1>3, <2>3 DEF Streams, StreamPlaces
  <2>5. Becomes(u, new)
    BY <1>9
  <2> HIDE DEF new, h
  <2>6. Read(u, new)
    BY <2>2, <2>3, <2>4 DEF Read
  <2>7. StreamRight(u, new)
    BY <1>3, <1>4, <1>9, <2>4, <2>6 DEF StreamRight, Fits, Session
  <2> QED BY <1>1, <1>2, <1>9, <2>4, <2>5, <2>7, StreamMoves
<1>10. "unknown" \in Categories /\ "mismatch" \in Categories
  BY DEF Categories
<1>11. Session(u).state \in {"open", "final", "refused", "gone"}
  BY <1>4 DEF Sessions
<1> QED BY <1>6, <1>7, <1>8, <1>9, <1>10, <1>11 DEF Query, At, Restarts

LEMMA KeepsOpen == ASSUME Inv, NEW u \in Units, Open(u) PROVE Inv'
<1> DEFINE e == [unit |-> u, target |-> IF options.method = "sliced" THEN "temp" ELSE "destination",
                 total |-> Length(u), match |-> row.match, data |-> <<>>, state |-> "open", meta |-> Absent]
           new == [stream[u] EXCEPT !.at = "send", !.hashed = <<>>]
           k == Len(bucket.sessions) + 1
<1>1. /\ StreamStep /\ stream[u].at = "open" /\ UNCHANGED <<late, spent>> /\ pc = "streams"
      /\ bucket' = [bucket EXCEPT !.sessions = Append(@, e)]
      /\ slices' = [slices EXCEPT ![u] = [uri |-> k, crc |-> None]]
      /\ Becomes(u, new)
  BY DEF Open, StreamStep
<1>2. /\ stream[u] \in Streams /\ u \in Used /\ OptionsOK /\ SizeOK /\ spent.looked # -1
      /\ source \in Data /\ Len(source) \in Nat /\ Length(u) \in Nat /\ Offset(u) \in Nat
      /\ slices \in [Units -> [uri: Nat, crc: Data]]
      /\ Steady => row.size = Len(source) /\ Offset(u) + Length(u) <= Len(source)
  BY <1>1, StreamIs
<1>3. UNCHANGED <<file, options, row>>
  BY <1>1 DEF StreamStep
<1>4. SpentOK' /\ spent'.looked = spent.looked
  BY <1>1, InvIs, LookedStays
<1>5. e \in Sessions
  <2> DEFINE z == Length(u)
             m == row.match
  <2>1. z \in Nat /\ m \in Int /\ <<>> \in Data /\ Absent \in Objects
    BY <1>2, InvIs, ConstantsAre DEF Rows, Data
  <2>2. e = [unit |-> u, target |-> e.target, total |-> z, match |-> m, data |-> <<>>,
             state |-> "open", meta |-> Absent]
    OBVIOUS
  <2>3. e.target \in {"temp", "destination"}
    OBVIOUS
  <2> HIDE DEF z, m, e
  <2> QED BY <2>1, <2>2, <2>3 DEF Sessions
<1>6. SessionRight(e)
  <2>1. e.match = spent.looked /\ e.state = "open"
    BY InvIs
  <2>2. Once /\ e.target = "destination" => Continues(e)
    <3> SUFFICES ASSUME Once, e.target = "destination" PROVE Continues(e)
      OBVIOUS
    <3>1. options.method # "sliced"
      OBVIOUS
    <3>2. Steady
      BY InvIs DEF Once, Steady, Seen, RowInv
    <3>3. e.total = Len(source)
      BY <1>2, <3>1, <3>2, PlacesAre
    <3>4. e.data = <<>>
      OBVIOUS
    <3> HIDE DEF e
    <3>5. Len(e.data) = 0 /\ e.data = SubSeq(source, 1, 0)
      BY <1>2, <3>4 DEF Data
    <3> QED BY <1>2, <3>1, <3>3, <3>5 DEF Continues
  <2> HIDE DEF e
  <2> QED BY <2>1, <2>2 DEF SessionRight
<1>7. e.total = Length(u)
  OBVIOUS
<1>8. BucketRight(bucket)
  BY InvIs DEF BucketInv
<1>9. Len(bucket.sessions) \in Nat
  BY InvIs DEF Buckets
<1> HIDE DEF e
<1>10. /\ BucketRight(bucket') /\ Kept(bucket, bucket')
       /\ Len(bucket'.sessions) = k /\ bucket'.sessions[k] = e
  BY <1>1, <1>5, <1>6, <1>8, OpenKeeps
<1>11. BucketInv' /\ Grown /\ bucket' \in Buckets
  BY <1>1, <1>2, <1>3, <1>4, <1>10, InvIs, BucketMoves DEF BucketRight
<1>12. k \in Nat /\ k > 0
  BY <1>9
<1> HIDE DEF k
<1>13. /\ slices' \in [Units -> [uri: Nat, crc: Data]]
       /\ slices'[u].uri = k /\ slices'[u].crc = None
       /\ \A v \in Units : v # u => slices'[v] = slices[v]
  BY <1>1, <1>2, <1>12, ConstantsAre
<1>14. SliceRight(u)' /\ Fits(u)'
  <2>1. Length(u)' = Length(u)
    BY <1>3, Frame
  <2> QED BY <1>7, <1>10, <1>12, <1>13, <2>1 DEF SliceRight, Fits
<1>15. <<>> \in Data /\ Len(<<>>) = 0
  BY DEF Data
<1>16. PICK began \in Streams : Becomes(u, began) /\ began.at = "send" /\ began.hashed = <<>>
  <2>1. new \in Streams /\ new.at = "send" /\ new.hashed = <<>>
    BY <1>2, <1>15 DEF Streams, StreamPlaces
  <2> HIDE DEF new
  <2> QED BY <1>1, <2>1
<1>17. Steady => Read(u, began)
  <2>1. SubSeq(source, Offset(u) + 1, Offset(u) + 0) = <<>>
    BY <1>2 DEF Data
  <2> QED BY <1>2, <1>15, <1>16, <2>1 DEF Read
<1>18. StreamRight(u, began)'
  <2>1. Steady' => Read(u, began)'
    BY <1>3, <1>17, Frame DEF Read
  <2>2. u \in Used'
    BY <1>2, <1>3, Frame
  <2> QED BY <1>12, <1>13, <1>14, <1>16, <2>1, <2>2 DEF StreamRight
<1>19. ProgramInv'
  BY <1>1, <1>4, <1>11, <1>13, <1>14, <1>16, <1>18, InvIs, Moves
<1> QED BY <1>3, <1>4, <1>11, <1>19, InvIs, GivenStays DEF Inv

LEMMA KeepsSend == ASSUME Inv, NEW u \in Units, Send(u) PROVE Inv'
<1> DEFINE n == Len(stream[u].hashed)
           part == source[Offset(u) + n + 1]
           sent == [stream[u] EXCEPT !.hashed = Append(stream[u].hashed, part)]
           s == slices[u].uri
           after == Receive(bucket, s, n, part)
           answer == Answer(after, s, n)
           r == [kind |-> "chunk", session |-> s, offset |-> n, part |-> part]
<1>1. /\ StreamStep /\ stream[u].at = "send" /\ UNCHANGED slices /\ pc = "streams"
      /\ n < Length(u) /\ Offset(u) + n < Len(source)
  BY DEF Send, StreamStep
<1>2. \/ /\ bucket' = after /\ UNCHANGED <<late, spent>>
         /\ CASE answer = "final" -> Becomes(u, [sent EXCEPT !.at = "verify", !.meta = after.sessions[s].meta])
              [] answer = "more" -> Becomes(u, sent)
              [] OTHER -> Fails(u, answer)
      \/ Fault /\ bucket' = after /\ UNCHANGED late /\ Fails(u, "network")
      \/ Fault /\ UNCHANGED bucket /\ late' \in {late, late \cup {r}} /\ Fails(u, "network")
      \/ Fault /\ UNCHANGED <<bucket, late>> /\ Becomes(u, sent)
  BY DEF Send
<1>3. /\ stream[u] \in Streams /\ u \in Used /\ OptionsOK /\ SizeOK /\ spent.looked # -1
      /\ source \in Data /\ Len(source) \in Nat /\ Length(u) \in Nat /\ Offset(u) \in Nat
      /\ StreamRight(u, stream[u]) /\ stream[u].hashed \in Data /\ n \in Nat
  BY <1>1, StreamIs
<1>4. s \in 1..Len(bucket.sessions) /\ Session(u) = bucket.sessions[s] /\ s > 0
      /\ Session(u).total = Length(u) /\ SessionRight(Session(u))
  BY <1>1, SessionIs DEF Session
<1>5. part \in Nat /\ part = source[Offset(u) + n + 1]
  <2>1. Offset(u) + n + 1 \in 1..Len(source)
    <3> HIDE DEF n
    <3> QED BY <1>1, <1>3
  <2>2. \A i \in 1..Len(source) : source[i] \in Nat
    BY <1>3 DEF Data
  <2> HIDE DEF n
  <2> QED BY <2>1, <2>2
<1>6. SpentOK' /\ spent'.looked = spent.looked
  BY <1>2, InvIs, LookedStays
<1>7. NextPart(bucket.sessions[s], n, part)
  <2> SUFFICES ASSUME Once, bucket.sessions[s].target = "destination"
               PROVE  n < Len(source) /\ part = source[n + 1]
    BY DEF NextPart
  <2>1. options.method # "sliced"
    BY <1>4 DEF SessionRight, Continues
  <2>2. Offset(u) = 0
    BY <1>3, <2>1, PlacesAre
  <2> QED BY <1>1, <1>3, <2>2
<1>8. LateRight(r)
  <2>1. ChunkRight(r)
    BY <1>4, <1>7 DEF ChunkRight, NextPart
  <2>2. r \in Chunks
    <3>1. s \in Nat \ {0}
      BY <1>4
    <3> HIDE DEF s, n, part
    <3> QED BY <1>3, <1>5, <3>1 DEF Chunks
  <2> HIDE DEF r
  <2> QED BY <2>1, <2>2 DEF LateRight
<1>9. sent \in Streams /\ sent.at = "send" /\ (Steady => Read(u, sent))
  <2> DEFINE h == stream[u].hashed
             g == Append(h, part)
  <2>1. g \in Data /\ Len(g) = n + 1
    <3> HIDE DEF part
    <3> QED BY <1>3, <1>5 DEF Data
  <2>2. sent = [stream[u] EXCEPT !.hashed = g]
    OBVIOUS
  <2>3. Steady => g = SubSeq(source, Offset(u) + 1, Offset(u) + (n + 1))
    <3> SUFFICES ASSUME Steady PROVE g = SubSeq(source, Offset(u) + 1, Offset(u) + (n + 1))
      OBVIOUS
    <3>1. h = SubSeq(source, Offset(u) + 1, Offset(u) + n)
      BY <1>1, <1>3 DEF StreamRight, Read
    <3> HIDE DEF h, n, part
    <3>2. Append(h, part) = SubSeq(source, Offset(u) + 1, Offset(u) + (n + 1))
      <4>1. Append(SubSeq(source, Offset(u) + 1, Offset(u) + n), source[Offset(u) + n + 1])
              = SubSeq(source, Offset(u) + 1, Offset(u) + (n + 1))
        <5>1. Offset(u) + n <= Len(source) /\ Offset(u) + n < Len(source)
          BY <1>1, <1>3
        <5> QED BY <1>3, <5>1, PartsAre, Zenon
      <4> QED BY <1>5, <3>1, <4>1
    <3> QED BY <3>2
  <2>4. Offset(u) + (n + 1) <= Len(source)
    <3> HIDE DEF n
    <3> QED BY <1>1, <1>3
  <2> HIDE DEF g, sent
  <2>5. sent \in Streams /\ sent.at = "send" /\ sent.hashed = g
    BY <1>1, <1>3, <2>1, <2>2 DEF Streams
  <2> QED BY <2>1, <2>3, <2>4, <2>5 DEF Read
<1> HIDE DEF sent, part, r, n, s
<1>10. /\ BucketRight(after) /\ Kept(bucket, after) /\ after \in Buckets
  BY <1>3, <1>4, <1>5, <1>7, InvIs, ChunkKeeps DEF BucketInv, BucketRight
<1>11. after.sessions[s] \in Sessions /\ after.sessions[s].total = Length(u) /\ SessionRight(after.sessions[s])
  <2> HIDE DEF after
  <2>1. s \in 1..Len(after.sessions)
    BY <1>4, <1>10, InvIs DEF Kept, Buckets
  <2> QED BY <1>4, <1>10, <2>1 DEF Kept, SameUpload, BucketRight, Buckets
<1>12. answer \in {"final", "more"} \cup Categories /\ (answer = "final" => after.sessions[s].state = "final")
  <2> HIDE DEF after
  <2> QED BY DEF Answer, Categories
<1> HIDE DEF after, answer
<1>13. BucketInv' /\ Grown /\ bucket' \in Buckets
  <2>1. BucketRight(bucket') /\ Kept(bucket, bucket') /\ bucket' \in Buckets
    <3>1. BucketRight(bucket) /\ Kept(bucket, bucket)
      BY InvIs, KeptSessions DEF BucketInv
    <3> QED BY <1>2, <1>10, <3>1, InvIs
  <2>2. \A q \in late' : q \in late \/ LateRight(q)
    BY <1>2, <1>8
  <2> QED BY <1>1, <1>3, <1>6, <2>1, <2>2, InvIs, BucketMoves DEF StreamStep
<1>14. CASE \E c \in Categories : Fails(u, c)
  BY <1>1, <1>6, <1>13, <1>14, StreamEnds
<1>15. CASE Becomes(u, sent)
  <2>1. StreamRight(u, sent)
    BY <1>3, <1>4, <1>9 DEF StreamRight, Fits, s
  <2> QED BY <1>1, <1>6, <1>9, <1>13, <1>15, <2>1, StreamMoves
<1>16. CASE answer = "final" /\ Becomes(u, [sent EXCEPT !.at = "verify", !.meta = after.sessions[s].meta])
  <2> DEFINE o == after.sessions[s].meta
             new == [sent EXCEPT !.at = "verify", !.meta = o]
  <2>1. o \in Objects /\ Len(o.data) = Length(u)
    BY <1>11, <1>12, <1>16 DEF Sessions, SessionRight
  <2>2. Becomes(u, new)
    BY <1>16
  <2> HIDE DEF o
  <2>3. new \in Streams /\ new.at = "verify" /\ new.meta = o /\ new.hashed = sent.hashed
    BY <1>9, <2>1 DEF Streams, StreamPlaces
  <2> HIDE DEF new
  <2>4. Steady => Read(u, new)
    BY <1>9, <2>3 DEF Read
  <2>5. StreamRight(u, new)
    BY <1>3, <1>4, <2>1, <2>3, <2>4 DEF StreamRight, Fits, s
  <2> QED BY <1>1, <1>6, <1>13, <2>2, <2>3, <2>5, StreamMoves
<1>17. "network" \in Categories
  BY DEF Categories
<1> QED BY <1>2, <1>12, <1>14, <1>15, <1>16, <1>17

---------------------------------------------------------------------------
(* Every step keeps the invariant: what happens around it *)

LEMMA ContentsAre == \A c \in Contents : c \in Data /\ Len(c) \in Nat /\ Len(c) <= MaxSize
<1> SUFFICES ASSUME NEW c \in Contents PROVE c \in Data /\ Len(c) \in Nat /\ Len(c) <= MaxSize
  OBVIOUS
<1>1. PICK m \in 0..MaxSize : c \in [1..m -> 0..MaxEdits + 1]
  BY ConstantsAre DEF Contents, BoundedSeq, SeqOf
<1>2. MaxEdits + 1 \in Nat
  BY ConstantsAre
<1>3. \A i \in 1..m : c[i] \in Nat
  BY <1>1, <1>2
<1>4. c \in [1..m -> Nat] /\ m \in Nat /\ m <= MaxSize
  BY <1>1, <1>3, ConstantsAre
<1>5. c \in Seq(Nat) /\ Len(c) = m
  BY <1>4
<1> QED BY <1>4, <1>5 DEF Data

LEMMA WorldMoves ==
  ASSUME Inv, UNCHANGED <<file, options, row, slices, pc, local, edited, stream>>,
         spent'.looked = spent.looked, bucket' \in Buckets, Grown
  PROVE  ProgramInv'
<1>1. AttemptInv'
  BY InvIs, Frame DEF AttemptInv
<1>2. VerifiedInv'
  BY InvIs, Frame DEF VerifiedInv
<1> QED BY <1>1, <1>2, InvIs, Goes

LEMMA KeepsExecuteLate == ASSUME Inv, ExecuteLate PROVE Inv'
<1>1. UNCHANGED <<file, options, row, slices, pc, local, edited, stream, spent>>
  BY DEF ExecuteLate, rows, run
<1>2. SpentOK' /\ spent'.looked = spent.looked
  BY <1>1, InvIs, LookedStays
<1>3. PICK r \in late :
        /\ late' = late \ {r}
        /\ bucket' = CASE r.kind = "put" -> PutWhole(bucket, r.data, r.crc, r.match, r.hash)
                       [] r.kind = "chunk" -> Receive(bucket, r.session, r.offset, r.part)
                       [] r.kind = "compose" -> Composed(bucket, r.metas, r.match)
  BY DEF ExecuteLate
<1>4. spent.looked # -1 /\ LateRight(r) /\ BucketRight(bucket)
  BY InvIs DEF BucketInv
<1>5. BucketRight(bucket') /\ Kept(bucket, bucket')
  <2>1. CASE r \in Puts /\ PutRight(r)
    <3>1. /\ r.kind = "put" /\ r.data \in Data /\ r.hash \in Data
          /\ Once => r.data = source
      BY <2>1 DEF Puts, PutRight
    <3>2. bucket' = PutWhole(bucket, r.data, r.crc, r.match, r.hash)
      BY <1>3, <3>1
    <3> QED BY <1>4, <3>1, <3>2, PutKeeps
  <2>2. CASE r \in Chunks /\ ChunkRight(r)
    <3>1. r.kind = "chunk" /\ r.session \in Nat \ {0} /\ r.part \in Nat
      BY <2>2 DEF Chunks
    <3>2. r.session \in 1..Len(bucket.sessions)
      BY <2>2, <3>1, InvIs DEF ChunkRight, Buckets
    <3>3. NextPart(bucket.sessions[r.session], r.offset, r.part)
      BY <2>2 DEF ChunkRight, NextPart
    <3>4. bucket' = Receive(bucket, r.session, r.offset, r.part)
      BY <1>3, <3>1
    <3> QED BY <1>4, <3>1, <3>2, <3>3, <3>4, InvIs, GivenIs, ChunkKeeps
  <2>3. CASE r \in Composes /\ ComposeRight(r)
    <3>1. /\ r.kind = "compose" /\ r.metas \in Seq(Objects)
          /\ Once => Joined(r.metas) = source
      BY <2>3 DEF Composes, ComposeRight
    <3>2. bucket' = Composed(bucket, r.metas, r.match)
      BY <1>3, <3>1
    <3> QED BY <1>4, <3>1, <3>2, ComposeKeeps
  <2> QED BY <1>4, <2>1, <2>2, <2>3 DEF LateRight
<1>6. BucketInv' /\ Grown /\ bucket' \in Buckets
  <2>1. \A q \in late' : q \in late
    BY <1>3
  <2>2. bucket' \in Buckets
    BY <1>5 DEF BucketRight
  <2> QED BY <1>1, <1>2, <1>4, <1>5, <2>1, <2>2, InvIs, BucketMoves
<1>7. ProgramInv'
  BY <1>1, <1>2, <1>6, WorldMoves
<1> QED BY <1>1, <1>2, <1>6, <1>7, InvIs, GivenStays DEF Inv

LEMMA KeepsForeign == ASSUME Inv, Foreign PROVE Inv'
<1>1. UNCHANGED <<file, late, options, row, slices, pc, local, edited, stream>>
  BY DEF Foreign, rows, run
<1>2. SpentOK' /\ spent'.looked = spent.looked
  BY InvIs, LookedStays DEF Foreign
<1> DEFINE n == bucket.gen + 1
<1>3. n \in Nat
  BY InvIs DEF Buckets
<1>4. PICK o \in Objects :
        /\ o.by # "job"
        /\ \/ bucket' = [bucket EXCEPT !.dest = o, !.gen = n]
           \/ \E u \in Units : bucket' = [bucket EXCEPT !.temps[u] = o, !.gen = n]
  <2>1. PICK o \in {OthersObject(Alien), OthersObject(source), Absent} :
          \/ bucket' = [bucket EXCEPT !.dest = o, !.gen = n]
          \/ \E u \in Units : bucket' = [bucket EXCEPT !.temps[u] = o, !.gen = n]
    BY DEF Foreign
  <2>2. \A d \in Data : OthersObject(d) \in Objects /\ OthersObject(d).by # "job"
    BY <1>3, ConstantsAre DEF OthersObject, Objects
  <2>3. Absent \in Objects /\ Absent.by # "job"
    BY ConstantsAre DEF Absent
  <2>4. o \in Objects /\ o.by # "job"
    BY <2>1, <2>2, <2>3, InvIs, GivenIs, ConstantsAre
  <2> QED BY <2>1, <2>4
<1> HIDE DEF n
<1>5. bucket' \in Buckets /\ bucket'.sessions = bucket.sessions
      /\ (bucket'.dest = bucket.dest \/ bucket'.dest.by # "job")
  <2>1. CASE bucket' = [bucket EXCEPT !.dest = o, !.gen = n]
    BY <1>3, <1>4, <2>1, InvIs DEF Buckets
  <2>2. CASE \E u \in Units : bucket' = [bucket EXCEPT !.temps[u] = o, !.gen = n]
    <3>1. PICK u \in Units : bucket' = [bucket EXCEPT !.temps[u] = o, !.gen = n]
      BY <2>2
    <3> DEFINE t == [bucket.temps EXCEPT ![u] = o]
    <3>2. t \in [Units -> Objects]
      BY <1>4, InvIs DEF Buckets
    <3>3. bucket' = [bucket EXCEPT !.temps = t, !.gen = n]
      BY <3>1
    <3> HIDE DEF t
    <3> QED BY <1>3, <3>2, <3>3, InvIs DEF Buckets
  <2> QED BY <1>4, <2>1, <2>2
<1>6. BucketRight(bucket') /\ Kept(bucket, bucket')
  BY <1>5, InvIs, SameSessions DEF BucketInv
<1>7. spent.looked # -1 \/ (bucket'.sessions = <<>> /\ late' = {})
  BY <1>1, <1>5, InvIs DEF BucketInv
<1>8. BucketInv' /\ Grown
  BY <1>1, <1>2, <1>6, <1>7, InvIs, BucketMoves
<1>9. ProgramInv'
  BY <1>1, <1>2, <1>5, <1>8, WorldMoves
<1> QED BY <1>1, <1>2, <1>8, <1>9, InvIs, GivenStays DEF Inv

LEMMA KeepsExpire == ASSUME Inv, Expire PROVE Inv'
<1>1. UNCHANGED <<file, late, options, row, slices, pc, local, edited, stream>>
  BY DEF Expire, rows, run
<1>2. SpentOK' /\ spent'.looked = spent.looked
  BY InvIs, LookedStays DEF Expire
<1>3. PICK s \in DOMAIN bucket.sessions : bucket' = [bucket EXCEPT !.sessions[s].state = "gone"]
  BY DEF Expire
<1>4. BucketRight(bucket) /\ s \in 1..Len(bucket.sessions) /\ Len(bucket.sessions) \in Nat
  BY InvIs DEF BucketInv, Buckets
<1>5. BucketRight(bucket') /\ Kept(bucket, bucket')
  BY <1>3, <1>4, ExpireKeeps
<1>6. spent.looked # -1
  <2>1. bucket.sessions # <<>>
    BY <1>4
  <2> QED BY <2>1, InvIs DEF BucketInv
<1>7. BucketInv' /\ Grown /\ bucket' \in Buckets
  BY <1>1, <1>2, <1>5, <1>6, InvIs, BucketMoves DEF BucketRight
<1>8. ProgramInv'
  BY <1>1, <1>2, <1>7, WorldMoves
<1> QED BY <1>1, <1>2, <1>7, <1>8, InvIs, GivenStays DEF Inv

LEMMA KeepsCrash == ASSUME Inv, Crash PROVE Inv'
<1>1. UNCHANGED <<file, bucket, late, options, row, slices>> /\ Leave /\ pc # "idle"
  BY DEF Crash, rows
<1>2. SpentOK' /\ spent'.looked = spent.looked
  BY InvIs, LookedStays DEF Crash
<1>3. BucketInv' /\ Grown /\ bucket' \in Buckets
  BY <1>1, <1>2, InvIs, BucketStays
<1>4. ProgramInv'
  BY <1>1, <1>2, <1>3, Leaving
<1> QED BY <1>1, <1>2, <1>3, <1>4, InvIs, GivenStays DEF Inv

LEMMA KeepsRequestStop == ASSUME Inv, RequestStop PROVE Inv'
<1>1. UNCHANGED <<file, bucket, late, options, row, slices, pc, local, edited, stream>>
  BY DEF RequestStop, rows
<1>2. SpentOK' /\ spent'.looked = spent.looked
  BY InvIs, LookedStays DEF RequestStop
<1>3. BucketInv' /\ Grown /\ bucket' \in Buckets
  BY <1>1, <1>2, InvIs, BucketStays
<1>4. ProgramInv'
  BY <1>1, <1>2, <1>3, WorldMoves
<1> QED BY <1>1, <1>2, <1>3, <1>4, InvIs, GivenStays DEF Inv

\* After an edit the row's look at the file is an old one, and the file's first
\* content is not its last.
LEMMA KeepsEdit == ASSUME Inv, Edit PROVE Inv'
<1>1. /\ UNCHANGED <<bucket, late, options, row, slices, pc, local, stream, spent>>
      /\ edited' = (edited \/ pc # "idle")
  BY DEF Edit, rows
<1>2. PICK c \in Contents : source' = c /\ past' = Append(past, c)
  BY DEF Edit
<1>3. /\ past \in Seq(Data) /\ Len(past) \in Nat /\ Len(past) > 0 /\ OptionsOK
      /\ c \in Data /\ Len(c) <= MaxSize /\ row.seen \in 1..Len(past) /\ row.seen \in Nat
  BY InvIs, GivenIs, ContentsAre DEF Rows
<1>4. /\ past' \in Seq(Data) /\ Len(past') = Len(past) + 1 /\ past'[Len(past')] = source'
      /\ past'[row.seen] = past[row.seen]
  BY <1>2, <1>3
<1>5. ~Once' /\ ~Seen' /\ ~Steady' /\ row.seen \in 1..Len(past')
  BY <1>1, <1>3, <1>4 DEF Once, Seen, Steady
<1>6. Given'
  <2>1. FileOK'
    BY <1>2, <1>3, <1>4 DEF FileOK
  <2>2. SpentOK' /\ OptionsOK'
    BY <1>1, InvIs, GivenIs DEF SpentOK, OptionsOK
  <2> QED BY <2>1, <2>2 DEF Given
<1>7. BucketInv'
  <2>1. \A e : SessionRight(e) => SessionRight(e)'
    BY <1>1, <1>5 DEF SessionRight
  <2>2. BucketRight(bucket)'
    BY <1>1, <1>5, <2>1, InvIs DEF BucketInv, BucketRight
  <2>3. \A r : LateRight(r) => LateRight(r)'
    BY <1>1, <1>5 DEF LateRight, PutRight, ChunkRight, ComposeRight
  <2> QED BY <1>1, <2>2, <2>3, InvIs DEF BucketInv
<1>8. /\ Used' = Used /\ \A u : Length(u)' = Length(u)
  BY <1>1 DEF Used, Count, Length
<1>9. RowInv'
  BY <1>1, <1>5, InvIs DEF RowInv
<1>10. SlicesInv'
  <2>1. SlicesInv
    BY InvIs DEF ProgramInv
  <2>2. \A u \in Units : SliceRight(u) => SliceRight(u)'
    BY <1>1, <1>5, <1>8 DEF SliceRight
  <2> QED BY <1>1, <2>1, <2>2 DEF SlicesInv
<1>11. StreamInv'
  <2>1. StreamInv
    BY InvIs DEF ProgramInv
  <2>2. \A u \in Units : StreamRight(u, stream[u]) => StreamRight(u, stream[u])'
    BY <1>1, <1>5, <1>8 DEF StreamRight, Fits
  <2> QED BY <1>1, <2>1, <2>2 DEF StreamInv
<1>12. AttemptInv'
  BY <1>1, <1>5, <1>8, InvIs DEF AttemptInv
<1>13. VerifiedInv'
  BY <1>1, <1>4, InvIs DEF VerifiedInv
<1> QED BY <1>6, <1>7, <1>9, <1>10, <1>11, <1>12, <1>13 DEF Inv, ProgramInv

---------------------------------------------------------------------------
(* The invariant holds *)

LEMMA InitIsRight == Init => Inv
<1> SUFFICES ASSUME Init PROVE Inv
  OBVIOUS
<1>1. /\ source \in Contents /\ past = <<source>> /\ late = {} /\ slices = Blank /\ pc = "idle"
      /\ local = NoResult /\ stream = Idle /\ edited = FALSE
      /\ row = [state |-> "pending", size |-> Len(source), seen |-> 1, match |-> -1, attempts |-> 0,
                category |-> "none", crc |-> None, gen |-> 0, sha |-> None, torn |-> FALSE]
      /\ spent = [runs |-> 0, faults |-> 0, foreign |-> 0, crashes |-> 0, stops |-> 0, looked |-> -1]
  BY DEF Init
<1>2. source \in Data /\ Len(source) \in 0..MaxSize
  BY <1>1, ContentsAre, ConstantsAre
<1>3. past \in Seq(Data) /\ Len(past) = 1 /\ past[1] = source
  BY <1>1, <1>2
<1>4. Given
  <2>1. FileOK
    BY <1>2, <1>3 DEF FileOK
  <2>2. SpentOK
    BY <1>1 DEF SpentOK
  <2>3. OptionsOK
    <3>1. PICK p \in Policies, a \in Audits :
            options = [policy |-> p, method |-> ChooseMethod(p, Len(source)), audit |-> a]
      BY DEF Init
    <3>2. p \in SizePolicies /\ a \in BOOLEAN
      BY UploadAssumption
    <3>3. ChooseMethod(p, Len(source)) \in Methods
      BY DEF ChooseMethod, Methods
    <3> QED BY <3>1, <3>2, <3>3 DEF OptionsOK
  <2> QED BY <2>1, <2>2, <2>3 DEF Given
<1>5. BucketInv
  <2>1. PICK d \in {Absent, [gen |-> 1, data |-> Alien, by |-> "other", hash |-> None]} :
          bucket = [dest |-> d, temps |-> [u \in Units |-> Absent], sessions |-> <<>>, gen |-> 1]
    BY DEF Init
  <2>2. d \in Objects /\ d.by # "job" /\ Absent \in Objects
    BY ConstantsAre DEF Objects, Absent
  <2>3. bucket \in Buckets
    BY <2>1, <2>2 DEF Buckets
  <2>4. bucket.sessions = <<>> /\ bucket.dest = d
    BY <2>1
  <2>5. Len(bucket.sessions) = 0
    BY <2>4
  <2>6. BucketRight(bucket)
    BY <2>2, <2>3, <2>4, <2>5 DEF BucketRight
  <2> QED BY <1>1, <2>4, <2>6 DEF BucketInv
<1>6. RowInv
  <2> DEFINE n == Len(source)
  <2>1. n \in 0..MaxSize /\ None \in Data
    BY <1>2, ConstantsAre
  <2>2. row.size = n /\ row.seen = 1 /\ row.match = -1 /\ ~row.torn
    BY <1>1
  <2> HIDE DEF n
  <2>3. row \in Rows
    BY <1>1, <2>1 DEF Rows, FileStates, Categories, n
  <2> QED BY <1>1, <1>3, <2>2, <2>3, ShapesAre DEF RowInv, n
<1>7. SlicesInv
  <2>1. Len(bucket.sessions) \in Nat
    BY <1>5 DEF BucketInv, BucketRight, Buckets
  <2> QED BY <1>1, <2>1, ShapesAre DEF SlicesInv, SliceRight
<1>8. StreamInv
  BY <1>1, ShapesAre DEF StreamInv, StreamRight
<1>9. AttemptInv
  BY <1>1 DEF AttemptInv, Quiet, Before, Hashed
<1>10. VerifiedInv
  BY <1>1 DEF VerifiedInv
<1> QED BY <1>4, <1>5, <1>6, <1>7, <1>8, <1>9, <1>10 DEF Inv, ProgramInv

LEMMA StepsKeep == Inv /\ [Next]_vars => Inv'
<1> SUFFICES ASSUME Inv, [Next]_vars PROVE Inv'
  OBVIOUS
<1>1. CASE UNCHANGED vars
  <2>1. UNCHANGED <<file, bucket, late, options, row, slices, pc, local, edited, stream, spent>>
    BY <1>1 DEF vars, rows, run
  <2>2. SpentOK' /\ spent'.looked = spent.looked
    BY <2>1, InvIs, LookedStays
  <2>3. BucketInv' /\ Grown /\ bucket' \in Buckets
    BY <2>1, <2>2, InvIs, BucketStays
  <2>4. ProgramInv'
    BY <2>1, <2>2, <2>3, WorldMoves
  <2> QED BY <2>1, <2>2, <2>3, <2>4, InvIs, GivenStays DEF Inv
<1>2. CASE MainStep
  BY <1>2, KeepsStat, KeepsAttempt, KeepsCaught, KeepsSkipRule, KeepsRecord, KeepsPut, KeepsCheckPut,
     KeepsPlan, KeepsJoin, KeepsCompose, KeepsCheckCompose, KeepsSweep, KeepsStamp, KeepsClearSlices
     DEF MainStep
<1>3. ASSUME NEW u \in Units, Upload(u) \/ SessionLost(u) PROVE Inv'
  BY <1>3, KeepsQuery, KeepsOpen, KeepsStopped, KeepsSend, KeepsVerifyStream DEF Upload
<1> QED BY <1>1, <1>2, <1>3, KeepsBegin, KeepsLookupLost, KeepsClearFails, KeepsExecuteLate, KeepsEdit,
           KeepsForeign, KeepsExpire, KeepsCrash, KeepsRequestStop DEF Next

LEMMA InvHolds == Spec => []Inv
BY InitIsRight, StepsKeep, PTL DEF Spec

\* Of a file that is never edited nothing but the file appears under its object's
\* name by the job's hand, in any number of attempts, sessions, late requests and
\* crashes; and what is verified of a file that nobody edited meanwhile is what the
\* file was, unless a run had ended inside mark_changed, between the new size and
\* mtime and the deletion of the slices (gcs/uploader.py:332-377,
\* engine/runner.py:302-312, store/repository.py:379-390).
THEOREM OnlyTheFileAppears == Spec => []OnlyTheFile
<1>1. Inv => HonestUnlessEdited
  BY InvIs DEF VerifiedInv, HonestUnlessEdited
<1>2. Inv => NothingElseAppears
  BY InvIs DEF BucketInv, BucketRight, Once, NothingElseAppears
<1>3. Inv => OnlyTheFile
  BY <1>1, <1>2 DEF OnlyTheFile
<1> QED BY <1>3, InvHolds, PTL

\* Every request that would replace the destination has the generation that the
\* job saw at its first look for a precondition.
LEMMA OthersStay ==
  ASSUME Inv, Next, bucket.dest.by = "other", bucket.dest.gen # spent.looked
  PROVE  bucket'.dest.by # "job"
<1>1. bucket \in Buckets /\ row.match = spent.looked /\ \A s \in 1..Len(bucket.sessions) : SessionRight(bucket.sessions[s])
  BY InvIs DEF BucketInv, BucketRight
<1>2. ASSUME NEW b, NEW data, Lands(bucket, b, spent.looked, data) PROVE b.dest = bucket.dest
  BY <1>2 DEF Lands
<1>3. ASSUME NEW s \in 1..Len(bucket.sessions), NEW start, NEW part \in Nat
      PROVE  Receive(bucket, s, start, part).dest = bucket.dest
  <2>1. bucket.sessions[s].match = spent.looked
    BY <1>1 DEF SessionRight
  <2> DEFINE c == Receive(bucket, s, start, part)
  <2>2. Received(bucket, c, s, start, part)
    BY <1>1, ReceiveIs
  <2> HIDE DEF c
  <2>3. c.dest = bucket.dest
    BY <2>1, <2>2 DEF Received, Finishes
  <2> QED BY <2>3 DEF c
<1>4. CASE bucket' = bucket
  BY <1>4
<1>5. CASE Put
  <2> DEFINE hash == IF options.audit THEN local.crc ELSE None
             b == PutWhole(bucket, source, local.crc, row.match, hash)
  <2>1. bucket' = b \/ bucket' = bucket
    BY <1>5 DEF Put, Request
  <2>2. source \in Data /\ hash \in Data
    BY InvIs, GivenIs, ConstantsAre DEF Results
  <2> HIDE DEF hash
  <2>3. Lands(bucket, b, row.match, source)
    BY <1>1, <2>2, PutIs
  <2> HIDE DEF b
  <2> QED BY <1>1, <1>2, <2>1, <2>3
<1>6. CASE Compose
  <2> DEFINE b == Composed(bucket, Metas, row.match)
  <2>1. bucket' = b \/ bucket' = bucket
    BY <1>6 DEF Compose, Request
  <2>2. OptionsOK /\ SizeOK /\ stream \in [Units -> Streams]
    BY InvIs, GivenIs DEF SizeOK, Rows, ProgramInv, StreamInv
  <2>3. Metas \in Seq(Objects)
    BY <2>2, MetasAre
  <2>4. Lands(bucket, b, row.match, Joined(Metas))
    BY <1>1, <2>3, ComposedIs
  <2> HIDE DEF b
  <2> QED BY <1>1, <1>2, <2>1, <2>4
<1>7. CASE Sweep
  <2>1. bucket'.dest = bucket.dest
    BY <1>1, <1>7 DEF Sweep, Buckets
  <2> QED BY <2>1
<1>8. CASE Stamp
  <2>1. bucket'.dest.by = bucket.dest.by
    <3>1. bucket' = bucket \/ bucket' = [bucket EXCEPT !.dest.hash = Sha]
      BY <1>8 DEF Stamp
    <3> QED BY <1>1, <3>1 DEF Buckets, Objects
  <2> QED BY <2>1
<1>9. ASSUME NEW u \in Units, Open(u) PROVE bucket'.dest = bucket.dest
  BY <1>1, <1>9 DEF Open, Buckets
<1>10. ASSUME NEW u \in Units, Send(u) PROVE bucket'.dest = bucket.dest
  <2> DEFINE n == Len(stream[u].hashed)
             part == source[Offset(u) + n + 1]
             s == slices[u].uri
  <2>1. /\ pc = "streams" /\ stream[u].at = "send" /\ Offset(u) + n < Len(source)
        /\ bucket' = Receive(bucket, s, n, part) \/ bucket' = bucket
    BY <1>10 DEF Send, StreamStep
  <2>2. s \in 1..Len(bucket.sessions)
    BY <2>1, SessionIs
  <2>3. source \in Data /\ Offset(u) \in Nat /\ n \in Nat /\ Len(source) \in Nat
    BY <2>1, StreamIs
  <2>4. part \in Nat
    <3>1. Offset(u) + n + 1 \in 1..Len(source)
      <4> HIDE DEF n
      <4> QED BY <2>1, <2>3
    <3>2. \A i \in 1..Len(source) : source[i] \in Nat
      BY <2>3 DEF Data
    <3> HIDE DEF n
    <3> QED BY <3>1, <3>2
  <2> HIDE DEF part, s, n
  <2> QED BY <1>3, <2>1, <2>2, <2>4
<1>11. CASE ExecuteLate
  <2>1. PICK r \in late :
          bucket' = CASE r.kind = "put" -> PutWhole(bucket, r.data, r.crc, r.match, r.hash)
                      [] r.kind = "chunk" -> Receive(bucket, r.session, r.offset, r.part)
                      [] r.kind = "compose" -> Composed(bucket, r.metas, r.match)
    BY <1>11 DEF ExecuteLate
  <2>2. LateRight(r)
    BY InvIs DEF BucketInv
  <2>3. CASE r \in Puts /\ PutRight(r)
    <3>1. r.kind = "put" /\ r.data \in Data /\ r.hash \in Data /\ r.match = spent.looked
      BY <2>3 DEF Puts, PutRight
    <3>2. bucket' = PutWhole(bucket, r.data, r.crc, r.match, r.hash)
      BY <2>1, <3>1
    <3> QED BY <1>1, <1>2, <3>1, <3>2, PutIs
  <2>4. CASE r \in Chunks /\ ChunkRight(r)
    <3>1. r.kind = "chunk" /\ r.session \in Nat \ {0} /\ r.part \in Nat
      BY <2>4 DEF Chunks
    <3>2. r.session \in 1..Len(bucket.sessions)
      BY <1>1, <2>4, <3>1 DEF ChunkRight, Buckets
    <3>3. bucket' = Receive(bucket, r.session, r.offset, r.part)
      BY <2>1, <3>1
    <3> QED BY <1>3, <3>1, <3>2, <3>3
  <2>5. CASE r \in Composes /\ ComposeRight(r)
    <3>1. r.kind = "compose" /\ r.metas \in Seq(Objects) /\ r.match = spent.looked
      BY <2>5 DEF Composes, ComposeRight
    <3>2. bucket' = Composed(bucket, r.metas, r.match)
      BY <2>1, <3>1
    <3> QED BY <1>1, <1>2, <3>1, <3>2, ComposedIs
  <2> QED BY <2>2, <2>3, <2>4, <2>5 DEF LateRight
<1>12. CASE Foreign
  <2>1. PICK o \in {OthersObject(Alien), OthersObject(source), Absent} :
          \/ bucket' = [bucket EXCEPT !.dest = o, !.gen = @ + 1]
          \/ \E u \in Units : bucket' = [bucket EXCEPT !.temps[u] = o, !.gen = @ + 1]
    BY <1>12 DEF Foreign
  <2>2. o.by # "job"
    <3>1. \A d : OthersObject(d).by = "other"
      BY DEF OthersObject
    <3>2. Absent.by = "nobody"
      BY DEF Absent
    <3>3. o = OthersObject(Alien) \/ o = OthersObject(source) \/ o = Absent
      OBVIOUS
    <3> QED BY <3>1, <3>2, <3>3
  <2> QED BY <1>1, <2>1, <2>2 DEF Buckets
<1>13. CASE Expire
  <2>1. bucket'.dest = bucket.dest
    BY <1>1, <1>13 DEF Expire, Buckets
  <2> QED BY <2>1
<1>14. CASE MainStep
  BY <1>4, <1>5, <1>6, <1>7, <1>8, <1>14
     DEF MainStep, Stat, Attempt, Caught, SkipRule, Record, ClearSlices, CheckPut, Plan, Join,
         CheckCompose, Outside
<1>15. ASSUME NEW u \in Units, Upload(u) \/ SessionLost(u) PROVE bucket'.dest.by # "job"
  BY <1>9, <1>10, <1>15 DEF Upload, Query, StopStream, Unfinished, Truncated, VerifyStream, SessionLost
<1>16. CASE Begin \/ LookupLost \/ ClearFails \/ Edit \/ Crash \/ RequestStop
  BY <1>4, <1>16 DEF Begin, LookupLost, ClearFails, Edit, Crash, RequestStop
<1> QED BY <1>11, <1>12, <1>13, <1>14, <1>15, <1>16 DEF Next

\* What others wrote to the destination after the job's first look at it is never
\* replaced by the job: in no attempt, resumed session or late request, in no later
\* run and after no crash (engine/runner.py:171-176).
THEOREM ForeignWritesStay == Spec => ForeignWriteStays
<1> DEFINE A == bucket.dest.by = "other" /\ spent.looked >= 0 /\ bucket.dest.gen # spent.looked
                  => bucket'.dest.by # "job"
<1>1. Inv /\ [Next]_vars => [A]_vars
  BY OthersStay
<1>2. Spec => []Inv /\ [][Next]_vars
  BY InvHolds, PTL DEF Spec
<1> QED BY <1>1, <1>2, PTL DEF ForeignWriteStays

---------------------------------------------------------------------------
(* What everything is made of: the parts that the edits wrote *)

Parts == 0..MaxEdits + 1
Places == {"idle", "stat", "attempt", "skip rule", "put", "check put", "plan", "streams",
           "compose", "check compose", "sweep", "stamp", "record", "clear slices", "caught"}

LEMMA ContentsMake ==
  /\ \A c \in Contents : c \in Seq(Parts) /\ Len(c) \in Nat /\ Len(c) <= MaxSize
  /\ \A c \in Seq(Parts) : Len(c) <= MaxSize => c \in Contents
  /\ <<>> \in Contents /\ Alien \in Contents /\ None \notin Contents /\ None \in Checksums
<1>1. MaxSize \in Nat \ {0} /\ MaxEdits \in Nat
  BY ConstantsAre
<1>2. ASSUME NEW c \in Contents PROVE c \in Seq(Parts) /\ Len(c) \in Nat /\ Len(c) <= MaxSize
  <2>1. PICK m \in 0..MaxSize : c \in [1..m -> Parts]
    BY <1>1 DEF Contents, BoundedSeq, SeqOf, Parts
  <2>2. m \in Nat /\ m <= MaxSize
    BY <1>1
  <2>3. c \in Seq(Parts) /\ Len(c) = m
    BY <2>1, <2>2
  <2> QED BY <2>2, <2>3
<1>3. ASSUME NEW c \in Seq(Parts), Len(c) <= MaxSize PROVE c \in Contents
  <2>1. Len(c) \in 0..MaxSize /\ c \in [1..Len(c) -> Parts]
    BY <1>1, <1>3
  <2> QED BY <2>1 DEF Contents, BoundedSeq, SeqOf, Parts
<1>4. <<>> \in Seq(Parts) /\ Len(<<>>) = 0 /\ Alien \in Seq(Parts) /\ Len(Alien) = 1
  BY <1>1 DEF Alien, Parts
<1>5. None \notin Seq(Parts)
  <2>1. None[1] = MaxEdits + 2 /\ Len(None) = 1
    BY DEF None
  <2>2. ASSUME None \in Seq(Parts) PROVE None[1] \in Parts
    BY <2>1, <2>2
  <2> QED BY <1>1, <2>1, <2>2 DEF Parts
<1>6. <<>> \in Contents /\ Alien \in Contents
  <2>1. 0 <= MaxSize /\ 1 <= MaxSize
    BY <1>1
  <2> QED BY <1>3, <1>4, <2>1
<1>7. None \notin Contents /\ None \in Checksums
  BY <1>2, <1>5 DEF Checksums
<1> QED BY <1>2, <1>3, <1>6, <1>7

LEMMA PiecesOf ==
  ASSUME NEW c \in Contents, NEW a \in Nat, NEW b \in Int, b <= Len(c)
  PROVE  SubSeq(c, a + 1, b) \in Contents
<1>1. c \in Seq(Parts) /\ Len(c) \in Nat /\ Len(c) <= MaxSize
  BY ContentsMake
<1>2. SubSeq(c, a + 1, b) \in Seq(Parts) /\ Len(SubSeq(c, a + 1, b)) <= Len(c)
  BY <1>1
<1>3. Len(SubSeq(c, a + 1, b)) <= MaxSize
  BY <1>1, <1>2, ConstantsAre
<1> QED BY <1>2, <1>3, ContentsMake

LEMMA OneMore ==
  ASSUME NEW c \in Contents, Len(c) < MaxSize, NEW part \in Parts
  PROVE  Append(c, part) \in Contents /\ Len(Append(c, part)) = Len(c) + 1
<1>1. c \in Seq(Parts) /\ Len(c) \in Nat
  BY ContentsMake
<1>2. Append(c, part) \in Seq(Parts) /\ Len(Append(c, part)) = Len(c) + 1
  BY <1>1
<1>3. Len(Append(c, part)) <= MaxSize
  BY <1>1, <1>2, ConstantsAre
<1> QED BY <1>2, <1>3, ContentsMake

\* A session has no more than the file it was opened for, and a chunk that is still
\* to arrive continues it within that.
SessionTyped(e) == e.data \in Contents /\ Len(e.data) <= e.total /\ e.total <= MaxSize
TempTyped(o) == o.data \in Checksums /\ o.hash \in Checksums
ChunkTyped(s, start, part) == part \in Parts /\ start < bucket.sessions[s].total
ServerTyped ==
  /\ \A s \in 1..Len(bucket.sessions) : SessionTyped(bucket.sessions[s])
  /\ \A u \in Units : TempTyped(bucket.temps[u])
  /\ \A r \in late : r.kind = "chunk" => ChunkTyped(r.session, r.offset, r.part)
ThreadTyped ==
  /\ pc \in Places /\ try \in 0..MaxAttempts
  /\ \A u \in Units : stream[u].hashed \in Contents /\ slices[u].crc \in Checksums
TypedInv == past \in Seq(Contents) /\ ServerTyped /\ ThreadTyped

LEMMA SourceTyped == ASSUME Inv, TypedInv PROVE source \in Contents
BY InvIs, GivenIs DEF TypedInv

LEMMA AbsentTyped == TempTyped(Absent)
BY ContentsMake DEF Absent, TempTyped

\* No session moves: objects are put under other names, or deleted.
LEMMA ServerFrame ==
  ASSUME Inv, ServerTyped, bucket'.sessions = bucket.sessions,
         \A u \in Units : TempTyped(bucket'.temps[u]),
         \A r \in late' : r \in late \/ r.kind # "chunk"
  PROVE  ServerTyped'
BY DEF ServerTyped, SessionTyped, TempTyped, ChunkTyped

LEMMA ServerStays ==
  ASSUME Inv, ServerTyped, bucket'.sessions = bucket.sessions, bucket'.temps = bucket.temps,
         \A r \in late' : r \in late \/ r.kind # "chunk"
  PROVE  ServerTyped'
BY ServerFrame DEF ServerTyped

LEMMA ReplaceTemps ==
  ASSUME NEW b \in Buckets, NEW data, NEW hash
  PROVE  Replace(b, data, hash).temps = b.temps /\ Replace(b, data, hash).sessions = b.sessions
BY DEF Replace, Buckets

LEMMA PutTemps ==
  ASSUME NEW b \in Buckets, NEW data, NEW crc, NEW match, NEW hash
  PROVE  /\ PutWhole(b, data, crc, match, hash).temps = b.temps
         /\ PutWhole(b, data, crc, match, hash).sessions = b.sessions
BY ReplaceTemps DEF PutWhole

LEMMA ComposedTemps ==
  ASSUME NEW b \in Buckets, NEW metas, NEW match
  PROVE  /\ Composed(b, metas, match).temps = b.temps
         /\ Composed(b, metas, match).sessions = b.sessions
BY ReplaceTemps DEF Composed

\* A chunk makes at most one temporary object, of what its session has then.
LEMMA ReceivedTemps ==
  ASSUME NEW b \in Buckets, NEW s \in 1..Len(b.sessions), NEW start, NEW part, NEW u \in Units
  PROVE  LET c == Receive(b, s, start, part)
         IN \/ c.temps[u] = b.temps[u]
            \/ /\ Len(b.sessions[s].data) = start
               /\ c.temps[u].data = Append(b.sessions[s].data, part) /\ c.temps[u].hash = None
<1> DEFINE old == b.sessions[s]
           data == Append(old.data, part)
           object == Stored(b, data, None)
           whole == Len(data) = old.total
           refused == whole /\ old.target = "destination" /\ b.dest.gen # old.match
           g == [old EXCEPT !.data = data, !.state = "final", !.meta = object]
           make == [b EXCEPT !.gen = b.gen + 1, !.sessions[s] = g]
           c == Receive(b, s, start, part)
<1>1. c = IF old.state # "open" \/ Len(old.data) # start THEN b
          ELSE IF refused THEN [b EXCEPT !.sessions[s].state = "refused"]
          ELSE IF ~whole THEN [b EXCEPT !.sessions[s].data = data]
          ELSE IF old.target = "destination" THEN [make EXCEPT !.dest = object]
          ELSE [make EXCEPT !.temps[old.unit] = object]
  BY DEF Receive
<1>2. object.data = data /\ object.hash = None
  BY DEF Stored
<1>3. make.temps = b.temps
  BY DEF Buckets
<1>4. /\ [b EXCEPT !.sessions[s].state = "refused"].temps = b.temps
      /\ [b EXCEPT !.sessions[s].data = data].temps = b.temps
  BY DEF Buckets
<1>5. /\ [make EXCEPT !.dest = object].temps = make.temps
      /\ [make EXCEPT !.temps[old.unit] = object].temps = [make.temps EXCEPT ![old.unit] = object]
  BY DEF Buckets
<1>6. b.temps \in [Units -> Objects]
  BY DEF Buckets
<1>7. c.temps = b.temps \/ (Len(old.data) = start /\ c.temps = [b.temps EXCEPT ![old.unit] = object])
  <2> HIDE DEF make, object, data, refused, whole, g
  <2> QED BY <1>1, <1>3, <1>4, <1>5
<1> HIDE DEF object, c
<1> QED BY <1>2, <1>6, <1>7 DEF c

LEMMA ReceiveTyped ==
  ASSUME Inv, ServerTyped, NEW s \in 1..Len(bucket.sessions), NEW start, NEW part,
         ChunkTyped(s, start, part), bucket' = Receive(bucket, s, start, part)
  PROVE  /\ \A t \in 1..Len(bucket'.sessions) : SessionTyped(bucket'.sessions[t])
         /\ \A u \in Units : TempTyped(bucket'.temps[u])
         /\ Len(bucket'.sessions) = Len(bucket.sessions)
         /\ \A t \in 1..Len(bucket.sessions) : bucket'.sessions[t].total = bucket.sessions[t].total
<1> DEFINE old == bucket.sessions[s]
<1>1. bucket \in Buckets /\ part \in Nat /\ part \in Parts
  BY InvIs, ConstantsAre DEF ChunkTyped, Parts
<1>2. Received(bucket, bucket', s, start, part)
  BY <1>1, ReceiveIs
<1>3. SessionTyped(old) /\ start < old.total
  BY DEF ServerTyped, ChunkTyped
<1>4. old.data \in Contents /\ old.total \in Nat
  <2>1. old \in Sessions
    BY <1>1 DEF Buckets
  <2> HIDE DEF old
  <2> QED BY <1>3, <2>1 DEF SessionTyped, Sessions
<1>5. Len(old.data) = start => /\ Append(old.data, part) \in Contents
                               /\ Len(Append(old.data, part)) = start + 1 /\ start + 1 <= old.total
  <2> HIDE DEF old
  <2>1. Len(old.data) \in Nat
    BY <1>4, ContentsMake
  <2> QED BY <1>1, <1>3, <1>4, <2>1, OneMore, ConstantsAre DEF SessionTyped
<1>6. SessionTyped(bucket'.sessions[s])
  BY <1>2, <1>3, <1>5 DEF Received, Untouched, Takes, SameUpload, SessionTyped
<1>7. \A u \in Units : TempTyped(bucket'.temps[u])
  <2> SUFFICES ASSUME NEW u \in Units PROVE TempTyped(bucket'.temps[u])
    OBVIOUS
  <2>1. TempTyped(bucket.temps[u])
    BY DEF ServerTyped
  <2>2. \/ bucket'.temps[u] = bucket.temps[u]
        \/ /\ Len(old.data) = start
           /\ bucket'.temps[u].data = Append(old.data, part) /\ bucket'.temps[u].hash = None
    BY <1>1, ReceivedTemps
  <2> QED BY <1>5, <2>1, <2>2, ContentsMake DEF TempTyped, Checksums
<1> QED BY <1>2, <1>3, <1>6, <1>7 DEF Received, SameUpload, ServerTyped, SessionTyped

LEMMA ServerReceives ==
  ASSUME Inv, ServerTyped, NEW s \in 1..Len(bucket.sessions), NEW start, NEW part,
         ChunkTyped(s, start, part), bucket' = Receive(bucket, s, start, part), late' \subseteq late
  PROVE  ServerTyped'
<1>1. /\ \A t \in 1..Len(bucket'.sessions) : SessionTyped(bucket'.sessions[t])
      /\ \A u \in Units : TempTyped(bucket'.temps[u])
      /\ \A t \in 1..Len(bucket.sessions) : bucket'.sessions[t].total = bucket.sessions[t].total
  BY ReceiveTyped
<1>2. \A r \in late' : r.kind = "chunk" => ChunkTyped(r.session, r.offset, r.part)'
  <2> SUFFICES ASSUME NEW r \in late, r.kind = "chunk"
               PROVE  ChunkTyped(r.session, r.offset, r.part)'
    OBVIOUS
  <2>1. r.session \in 1..Len(bucket.sessions)
    <3>1. r \in Chunks /\ ChunkRight(r)
      BY InvIs DEF BucketInv, LateRight, Puts, Composes
    <3> QED BY <3>1, InvIs DEF Chunks, ChunkRight, Buckets
  <2>2. ChunkTyped(r.session, r.offset, r.part)
    BY DEF ServerTyped
  <2> QED BY <1>1, <2>1, <2>2 DEF ChunkTyped
<1> QED BY <1>1, <1>2 DEF ServerTyped, SessionTyped, TempTyped

---------------------------------------------------------------------------
(* Every step keeps the types *)

\* The streams are started, or gone; the slices stay, or lose their checksums.
LEMMA ThreadFrame ==
  ASSUME ThreadTyped, pc' \in Places, try' \in 0..MaxAttempts, slices' \in {slices, Blank},
         stream' \in {stream, Idle}
  PROVE  ThreadTyped'
<1>1. \A u \in Units : Blank[u].crc \in Checksums /\ Idle[u].hashed \in Contents
  BY ContentsMake DEF Blank, NoRow, Idle, NoStream
<1> QED BY <1>1 DEF ThreadTyped

LEMMA TriesAre == MaxAttempts \in Nat \ {0} /\ 0 \in 0..MaxAttempts /\ 1 \in 0..MaxAttempts
BY UploadAssumption

LEMMA TypedLeaves == ASSUME ThreadTyped, Leave, slices' \in {slices, Blank} PROVE ThreadTyped'
BY ThreadFrame, TriesAre DEF Leave, Places

LEMMA TypedFails == ASSUME ThreadTyped, NEW c, Fail(c) PROVE ThreadTyped'
BY ThreadFrame DEF Fail, Places, ThreadTyped

LEMMA TypedSettles == ASSUME ThreadTyped, Settle PROVE ThreadTyped'
BY ThreadFrame DEF Settle, Places, ThreadTyped

\* The steps of the attempt itself: what they leave in its variables, and in the
\* bucket, whose sessions and temporary objects only Sweep touches.
LEMMA ThreadMain ==
  ASSUME Inv, TypedInv, MainStep
  PROVE  ThreadTyped'
<1>1. ThreadTyped
  BY DEF TypedInv
<1>2. try \in 0..MaxAttempts
  BY <1>1 DEF ThreadTyped
<1>3. CASE Stat
  <2>1. CASE pc' = "attempt" /\ try' = 1 /\ UNCHANGED <<rows, stream>>
    BY <1>1, <2>1, ThreadFrame, TriesAre DEF rows, Places
  <2>2. CASE Settle
    BY <1>1, <2>2, TypedSettles
  <2> QED BY <1>1, <1>3, <2>1, <2>2, TypedLeaves DEF Stat, MarkChanged
<1>4. CASE Attempt
  BY <1>1, <1>2, <1>4, TypedLeaves, ThreadFrame DEF Attempt, rows, Places
<1>5. CASE Caught
  <2>1. slices' \in {slices, Blank}
    BY <1>5 DEF Caught
  <2>2. CASE Leave
    BY <1>1, <2>1, <2>2, TypedLeaves
  <2>3. CASE try < MaxAttempts /\ pc' = "attempt" /\ try' = try + 1 /\ stream' = stream
    <3>1. try' \in 0..MaxAttempts
      BY <1>2, <2>3, TriesAre
    <3> QED BY <1>1, <2>1, <2>3, <3>1, ThreadFrame DEF Places
  <2> QED BY <1>5, <2>2, <2>3 DEF Caught
<1>6. CASE SkipRule
  <2>1. CASE \E c : Fail(c)
    BY <1>1, <2>1, TypedFails
  <2>2. CASE Settle
    BY <1>1, <2>2, TypedSettles
  <2>3. CASE /\ pc' \in {"put", "streams", "plan"} /\ try' = try /\ slices' = slices
             /\ stream' \in {Idle, [Idle EXCEPT ![0] = Start(0)]}
    <3>1. Start(0).hashed = <<>>
      BY DEF Start, NoStream
    <3>2. ASSUME NEW u \in Units PROVE stream'[u].hashed \in Contents
      BY <2>3, <3>1, ContentsMake DEF Idle, NoStream
    <3> QED BY <1>1, <2>3, <3>2 DEF ThreadTyped, Places
  <2> QED BY <1>6, <2>1, <2>2, <2>3 DEF SkipRule, MarkDelivered, rows
<1>7. CASE Record \/ ClearSlices
  <2>1. CASE Record
    BY <1>1, <2>1, TypedSettles DEF Record, MarkDelivered
  <2>2. CASE ClearSlices /\ Leave
    BY <1>1, <2>2, TypedLeaves DEF ClearSlices, DropSlices
  <2>3. CASE ClearSlices /\ UNCHANGED <<pc, try, stream>>
    BY <1>1, <2>3, ThreadFrame DEF ClearSlices, DropSlices, ThreadTyped
  <2> QED BY <1>7, <2>1, <2>2, <2>3 DEF ClearSlices
<1>8. CASE Put \/ Compose
  <2>1. CASE \E c : Fail(c)
    BY <1>1, <2>1, TypedFails
  <2>2. CASE pc' \in {"check put", "check compose"} /\ UNCHANGED <<rows, try, stream>>
    BY <1>1, <1>2, <2>2, ThreadFrame DEF rows, Places
  <2> QED BY <1>8, <2>1, <2>2 DEF Put, Compose, Request
<1>9. CASE CheckPut \/ CheckCompose
  BY <1>1, <1>2, <1>9, TypedFails, ThreadFrame DEF CheckPut, CheckCompose, rows, Places
<1>10. CASE Plan
  <2>1. CASE Leave /\ UNCHANGED rows
    BY <1>1, <2>1, TypedLeaves DEF rows
  <2>2. CASE /\ pc' = "streams" /\ UNCHANGED <<try, rows>>
             /\ stream' = [u \in Units |->
                  IF u \notin Used THEN NoStream
                  ELSE IF Reusable(u)
                  THEN [NoStream EXCEPT !.at = "done", !.hashed = slices[u].crc, !.meta = bucket.temps[u]]
                  ELSE [Start(u) EXCEPT !.meta = LookedUp(u)]]
    <3>1. ASSUME NEW u \in Units PROVE stream'[u].hashed \in Contents
      <4>1. CASE u \notin Used
        BY <2>2, <4>1, ContentsMake DEF NoStream
      <4>2. CASE u \in Used /\ Reusable(u)
        BY <1>1, <2>2, <4>2 DEF NoStream, Reusable, ThreadTyped, Checksums
      <4>3. CASE u \in Used /\ ~Reusable(u)
        <5>1. stream'[u].hashed = <<>>
          BY <2>2, <4>3 DEF Start, NoStream
        <5> QED BY <5>1, ContentsMake
      <4> QED BY <4>1, <4>2, <4>3
    <3> QED BY <1>1, <2>2, <3>1 DEF ThreadTyped, Places, rows
  <2> QED BY <1>10, <2>1, <2>2 DEF Plan
<1>11. CASE Join
  <2>1. CASE \E c : Fail(c)
    BY <1>1, <2>1, TypedFails
  <2>2. CASE Leave /\ UNCHANGED rows
    BY <1>1, <2>2, TypedLeaves DEF rows
  <2>3. CASE pc' \in {"compose", "record", "stamp"} /\ UNCHANGED <<rows, try, stream>>
    BY <1>1, <1>2, <2>3, ThreadFrame DEF rows, Places
  <2> QED BY <1>11, <2>1, <2>2, <2>3 DEF Join
<1>12. CASE Sweep \/ Stamp
  <2>1. CASE \E c : Fail(c)
    BY <1>1, <2>1, TypedFails
  <2>2. CASE pc' \in {"stamp", "record"} /\ UNCHANGED <<rows, try, stream>>
    BY <1>1, <1>2, <2>2, ThreadFrame DEF rows, Places
  <2> QED BY <1>12, <2>1, <2>2 DEF Sweep, Stamp
<1> QED BY <1>3, <1>4, <1>5, <1>6, <1>7, <1>8, <1>9, <1>10, <1>11, <1>12 DEF MainStep

LEMMA ServerMain == ASSUME Inv, TypedInv, MainStep PROVE ServerTyped'
<1>1. ServerTyped /\ bucket \in Buckets
  BY InvIs DEF TypedInv
<1>2. CASE bucket' = bucket /\ late' = late
  BY <1>1, <1>2, ServerStays
<1>3. ASSUME NEW b, NEW next, NEW answer, NEW r, Request(next, b, answer, r), r.kind # "chunk",
             b.sessions = bucket.sessions, b.temps = bucket.temps
      PROVE  ServerTyped'
  <2>1. bucket' \in {b, bucket} /\ late' \subseteq late \cup {r}
    BY <1>3 DEF Request
  <2> QED BY <1>1, <1>3, <2>1, ServerStays
<1>4. CASE Put
  <2> DEFINE hash == IF options.audit THEN local.crc ELSE None
             r == [kind |-> "put", data |-> source, crc |-> local.crc, match |-> row.match, hash |-> hash]
             b == PutWhole(bucket, source, local.crc, row.match, hash)
             answer == PutAnswer(bucket, source, local.crc, row.match)
  <2>1. Request("check put", b, answer, r)
    BY <1>4 DEF Put
  <2>2. b.sessions = bucket.sessions /\ b.temps = bucket.temps
    BY <1>1, PutTemps
  <2>3. r.kind # "chunk"
    OBVIOUS
  <2> HIDE DEF b, answer, r
  <2> QED BY <1>3, <2>1, <2>2, <2>3
<1>5. CASE Compose
  <2> DEFINE r == [kind |-> "compose", metas |-> Metas, match |-> row.match]
             b == Composed(bucket, Metas, row.match)
             answer == ComposeAnswer(bucket, Metas, row.match)
  <2>1. Request("check compose", b, answer, r)
    BY <1>5 DEF Compose
  <2>2. b.sessions = bucket.sessions /\ b.temps = bucket.temps
    BY <1>1, ComposedTemps
  <2>3. r.kind # "chunk"
    OBVIOUS
  <2> HIDE DEF b, answer, r
  <2> QED BY <1>3, <2>1, <2>2, <2>3
<1>6. CASE Sweep
  <2>1. PICK S \in SUBSET Units :
          bucket' = [bucket EXCEPT !.temps = [u \in Units |-> IF u \in S THEN Absent ELSE @[u]]]
    <3>1. CASE bucket' = [bucket EXCEPT !.temps = [u \in Units |-> Absent]]
      <4>1. [u \in Units |-> Absent] = [u \in Units |-> IF u \in Units THEN Absent ELSE bucket.temps[u]]
        OBVIOUS
      <4> QED BY <3>1, <4>1
    <3> QED BY <1>6, <3>1 DEF Sweep
  <2>2. bucket'.sessions = bucket.sessions /\ late' = late
    BY <1>1, <1>6, <2>1 DEF Sweep, Buckets
  <2>3. \A u \in Units : bucket'.temps[u] \in {Absent, bucket.temps[u]}
    BY <1>1, <2>1 DEF Buckets
  <2> QED BY <1>1, <2>2, <2>3, ServerFrame, AbsentTyped DEF ServerTyped
<1>7. CASE Stamp
  <2>1. bucket'.sessions = bucket.sessions /\ bucket'.temps = bucket.temps /\ late' = late
    BY <1>1, <1>7 DEF Stamp, Buckets
  <2> QED BY <1>1, <2>1, ServerStays
<1> QED BY <1>2, <1>4, <1>5, <1>6, <1>7
        DEF MainStep, Stat, Attempt, Caught, SkipRule, Record, ClearSlices, CheckPut, Plan, Join,
            CheckCompose, Outside

\* One stream goes on, and its slice with it.
LEMMA ThreadMoves ==
  ASSUME Inv, ThreadTyped, StreamStep, NEW u \in Units, NEW new, Becomes(u, new),
         new.hashed \in Contents, slices'[u].crc \in Checksums,
         \A v \in Units \ {u} : slices'[v] = slices[v]
  PROVE  ThreadTyped'
<1>1. stream' = [stream EXCEPT ![u] = new] /\ pc' = pc /\ try' = try
  BY DEF Becomes, StreamStep
<1>2. stream \in [Units -> Streams]
  BY InvIs DEF ProgramInv, StreamInv
<1>3. stream'[u] = new /\ \A v \in Units \ {u} : stream'[v] = stream[v]
  BY <1>1, <1>2
<1> QED BY <1>1, <1>3 DEF ThreadTyped

LEMMA ThreadHashes ==
  ASSUME Inv, ThreadTyped, StreamStep, NEW u \in Units, NEW new, Becomes(u, new),
         new.hashed = stream[u].hashed, slices' = slices
  PROVE  ThreadTyped'
BY ThreadMoves DEF ThreadTyped

LEMMA ThreadFails ==
  ASSUME Inv, ThreadTyped, StreamStep, NEW u \in Units, NEW c, Fails(u, c), slices' = slices
  PROVE  ThreadTyped'
<1>1. stream[u] \in Streams
  BY InvIs DEF ProgramInv, StreamInv
<1>2. [stream[u] EXCEPT !.at = "failed", !.err = c].hashed = stream[u].hashed
  BY <1>1 DEF Streams
<1> QED BY <1>2, ThreadHashes DEF Fails

\* A part of the file as it is now.
LEMMA PartTyped ==
  ASSUME Inv, TypedInv, NEW u \in Units, NEW n \in Nat PROVE Part(u, n) \in Contents
<1> DEFINE a == Offset(u)
           b == Smaller(a + n, Len(source))
<1>1. source \in Contents /\ Len(source) \in Nat
  BY SourceTyped, ContentsMake
<1>2. a \in Nat
  BY InvIs, PlacesAre DEF Given, SizeOK, Rows
<1>3. Part(u, n) = SubSeq(source, a + 1, b)
  BY DEF Part
<1> HIDE DEF a
<1>4. b \in Int /\ b <= Len(source)
  BY <1>1, <1>2 DEF Smaller
<1> HIDE DEF b
<1> QED BY <1>1, <1>2, <1>3, <1>4, PiecesOf

\* The upload's place in its session, as the invariant has it.
LEMMA UploadIs ==
  ASSUME Inv, TypedInv, NEW u \in Units, StreamStep, stream[u].at # "none"
  PROVE  /\ stream[u] \in Streams /\ ThreadTyped /\ ServerTyped /\ bucket \in Buckets
         /\ stream[u].hashed \in Contents /\ slices[u].crc \in Checksums
         /\ slices \in [Units -> [uri: Nat, crc: Data]]
         /\ Length(u) \in Nat /\ Length(u) <= MaxSize /\ Offset(u) \in Nat
<1>1. pc = "streams"
  BY DEF StreamStep
<1>2. /\ stream[u] \in Streams /\ Length(u) \in Nat /\ Offset(u) \in Nat /\ OptionsOK /\ SizeOK
      /\ slices \in [Units -> [uri: Nat, crc: Data]]
  BY <1>1, StreamIs
<1>3. Length(u) <= MaxSize
  <2>1. Offset(u) + Length(u) <= row.size /\ row.size \in Nat /\ row.size <= MaxSize /\ MaxSize \in Nat
    BY <1>2, PlacesAre, SizesAre
  <2> HIDE DEF Length, Offset
  <2> QED BY <1>2, <2>1
<1> QED BY <1>2, <1>3, InvIs DEF TypedInv, ThreadTyped

LEMMA TypedQuery == ASSUME Inv, TypedInv, NEW u \in Units, Query(u) PROVE ThreadTyped' /\ ServerTyped'
<1>1. StreamStep /\ stream[u].at = "query" /\ UNCHANGED <<bucket, late>>
  BY DEF Query
<1>2. /\ stream[u] \in Streams /\ ThreadTyped /\ ServerTyped
      /\ stream[u].hashed \in Contents /\ slices \in [Units -> [uri: Nat, crc: Data]]
  BY <1>1, UploadIs
<1>3. ServerTyped'
  BY <1>1, <1>2, ServerStays
<1>4. Length(u) \in Nat /\ Len(source) \in Nat
  BY <1>1, UploadIs, InvIs, GivenIs
<1>5. CASE slices' = slices /\ Becomes(u, [stream[u] EXCEPT !.at = "open"])
  <2>1. [stream[u] EXCEPT !.at = "open"].hashed = stream[u].hashed
    BY <1>2 DEF Streams
  <2> QED BY <1>1, <1>2, <1>3, <1>5, <2>1, ThreadHashes
<1>6. CASE slices' = slices /\ \E c : Fails(u, c)
  BY <1>1, <1>2, <1>3, <1>6, ThreadFails
<1>7. CASE /\ Session(u).meta.data = Part(u, IF options.method = "sliced" THEN Length(u) ELSE Len(source))
           /\ Becomes(u, [stream[u] EXCEPT !.at = "found", !.meta = Session(u).meta])
           /\ slices' = IF options.method = "sliced"
                        THEN [slices EXCEPT ![u].crc = Session(u).meta.data] ELSE slices
  <2>1. [stream[u] EXCEPT !.at = "found", !.meta = Session(u).meta].hashed = stream[u].hashed
    BY <1>2 DEF Streams
  <2>2. Session(u).meta.data \in Contents
    BY <1>4, <1>7, PartTyped
  <2>3. /\ slices'[u].crc \in {slices[u].crc, Session(u).meta.data}
        /\ \A v \in Units \ {u} : slices'[v] = slices[v]
    BY <1>2, <1>7
  <2>4. slices'[u].crc \in Checksums
    BY <1>2, <2>2, <2>3 DEF ThreadTyped, Checksums
  <2> QED BY <1>1, <1>2, <1>3, <1>7, <2>1, <2>3, <2>4, ThreadMoves
<1>8. CASE slices' = slices /\ Becomes(u, [stream[u] EXCEPT !.at = "send", !.hashed = Part(u, Committed(u))])
  <2>1. Committed(u) \in Nat
    <3>1. Session(u) \in Sessions
      BY <1>1, SessionIs DEF StreamStep
    <3> QED BY <3>1 DEF Committed, Sessions, Data
  <2> DEFINE h == Part(u, Committed(u))
  <2>2. h \in Contents
    BY <2>1, PartTyped
  <2> HIDE DEF h
  <2>3. [stream[u] EXCEPT !.at = "send", !.hashed = h].hashed = h
    BY <1>2 DEF Streams
  <2>4. Becomes(u, [stream[u] EXCEPT !.at = "send", !.hashed = h])
    BY <1>8 DEF h
  <2> QED BY <1>1, <1>2, <1>3, <1>8, <2>2, <2>3, <2>4, ThreadMoves DEF ThreadTyped
<1> QED BY <1>3, <1>5, <1>6, <1>7, <1>8 DEF Query

LEMMA TypedOpen == ASSUME Inv, TypedInv, NEW u \in Units, Open(u) PROVE ThreadTyped' /\ ServerTyped'
<1> DEFINE z == Length(u)
           e == [unit |-> u, target |-> IF options.method = "sliced" THEN "temp" ELSE "destination",
                 total |-> z, match |-> row.match, data |-> <<>>, state |-> "open", meta |-> Absent]
<1>1. /\ StreamStep /\ stream[u].at = "open" /\ late' = late
      /\ bucket' = [bucket EXCEPT !.sessions = Append(@, e)]
  BY DEF Open
<1>2. /\ stream[u] \in Streams /\ ThreadTyped /\ ServerTyped /\ bucket \in Buckets
      /\ slices \in [Units -> [uri: Nat, crc: Data]] /\ z \in Nat /\ z <= MaxSize
  BY <1>1, UploadIs
<1>3. ThreadTyped'
  <2>1. [stream[u] EXCEPT !.at = "send", !.hashed = <<>>].hashed = <<>>
    BY <1>2 DEF Streams
  <2>2. slices'[u].crc = None /\ \A v \in Units \ {u} : slices'[v] = slices[v]
    BY <1>2 DEF Open
  <2>3. Becomes(u, [stream[u] EXCEPT !.at = "send", !.hashed = <<>>])
    BY DEF Open
  <2> QED BY <1>1, <1>2, <2>1, <2>2, <2>3, ContentsMake, ThreadMoves
<1>4. SessionTyped(e)
  <2>1. e.data = <<>> /\ e.total = z
    OBVIOUS
  <2>2. Len(<<>>) = 0
    OBVIOUS
  <2> HIDE DEF e, z
  <2> QED BY <1>2, <2>1, <2>2, ContentsMake DEF SessionTyped
<1> HIDE DEF e, z
<1>5. /\ bucket'.temps = bucket.temps /\ bucket'.sessions = Append(bucket.sessions, e)
      /\ Len(bucket.sessions) \in Nat /\ bucket.sessions \in Seq(Sessions)
  BY <1>1, <1>2 DEF Buckets
<1>6. /\ Len(bucket'.sessions) = Len(bucket.sessions) + 1
      /\ bucket'.sessions[Len(bucket.sessions) + 1] = e
      /\ \A s \in 1..Len(bucket.sessions) : bucket'.sessions[s] = bucket.sessions[s]
  BY <1>5
<1>7. \A s \in 1..Len(bucket'.sessions) : SessionTyped(bucket'.sessions[s])
  <2> SUFFICES ASSUME NEW s \in 1..Len(bucket'.sessions) PROVE SessionTyped(bucket'.sessions[s])
    OBVIOUS
  <2>1. CASE s \in 1..Len(bucket.sessions)
    BY <1>2, <1>6, <2>1 DEF ServerTyped, SessionTyped
  <2>2. CASE s \notin 1..Len(bucket.sessions)
    <3>1. s = Len(bucket.sessions) + 1
      BY <1>5, <1>6, <2>2
    <3> QED BY <1>4, <1>6, <3>1 DEF SessionTyped
  <2> QED BY <2>1, <2>2
<1>8. ASSUME NEW r \in late, r.kind = "chunk" PROVE ChunkTyped(r.session, r.offset, r.part)'
  <2>1. r \in Chunks /\ ChunkRight(r)
    BY <1>8, InvIs DEF BucketInv, LateRight, Puts, Composes
  <2>2. r.session \in 1..Len(bucket.sessions)
    BY <2>1, InvIs DEF Chunks, ChunkRight, Buckets
  <2>3. ChunkTyped(r.session, r.offset, r.part)
    BY <1>2, <1>8 DEF ServerTyped
  <2> QED BY <1>6, <2>2, <2>3 DEF ChunkTyped
<1>9. ServerTyped'
  BY <1>1, <1>2, <1>5, <1>7, <1>8 DEF ServerTyped, SessionTyped, TempTyped
<1> QED BY <1>3, <1>9

LEMMA TypedSend == ASSUME Inv, TypedInv, NEW u \in Units, Send(u) PROVE ThreadTyped' /\ ServerTyped'
<1> DEFINE n == Len(stream[u].hashed)
           part == source[Offset(u) + n + 1]
           sent == [stream[u] EXCEPT !.hashed = Append(stream[u].hashed, part)]
           s == slices[u].uri
           after == Receive(bucket, s, n, part)
           r == [kind |-> "chunk", session |-> s, offset |-> n, part |-> part]
<1>1. /\ StreamStep /\ stream[u].at = "send" /\ slices' = slices /\ pc = "streams"
      /\ n < Length(u) /\ Offset(u) + n < Len(source)
  BY DEF Send, StreamStep
<1>2. /\ \/ Becomes(u, sent) \/ \E c : Fails(u, c)
         \/ Becomes(u, [sent EXCEPT !.at = "verify", !.meta = after.sessions[s].meta])
      /\ bucket' \in {bucket, after} /\ late' \subseteq late \cup {r}
      /\ bucket' = bucket \/ late' = late
  BY DEF Send
<1>3. /\ stream[u] \in Streams /\ ThreadTyped /\ ServerTyped /\ bucket \in Buckets
      /\ stream[u].hashed \in Contents
      /\ Length(u) \in Nat /\ Length(u) <= MaxSize /\ Offset(u) \in Nat
  BY <1>1, UploadIs
<1>4. n \in Nat /\ source \in Seq(Parts) /\ Len(source) \in Nat
  BY <1>3, SourceTyped, ContentsMake
<1>5. part \in Parts
  <2>1. Offset(u) + n + 1 \in 1..Len(source)
    <3> HIDE DEF n
    <3> QED BY <1>1, <1>3, <1>4
  <2> HIDE DEF n
  <2> QED BY <1>4, <2>1
<1>6. s \in 1..Len(bucket.sessions) /\ bucket.sessions[s].total = Length(u)
  BY <1>1, SessionIs DEF Session
<1>7. sent.hashed \in Contents /\ sent \in Streams
  <2> DEFINE g == Append(stream[u].hashed, part)
  <2>1. g \in Contents
    <3>1. n < MaxSize
      <4> HIDE DEF n
      <4> QED BY <1>1, <1>3, <1>4, ConstantsAre
    <3> HIDE DEF part
    <3> QED BY <1>3, <1>5, <3>1, OneMore
  <2> HIDE DEF g
  <2>2. [stream[u] EXCEPT !.hashed = g].hashed = g
    BY <1>3 DEF Streams
  <2>3. [stream[u] EXCEPT !.hashed = g] \in Streams
    BY <1>3, <2>1, ContentsAre DEF Streams
  <2> QED BY <2>1, <2>2, <2>3 DEF g
<1>8. ThreadTyped'
  <2>1. CASE Becomes(u, sent)
    <3> HIDE DEF sent
    <3> QED BY <1>1, <1>3, <1>7, <2>1, ThreadMoves DEF ThreadTyped
  <2>2. ASSUME NEW o, Becomes(u, [sent EXCEPT !.at = "verify", !.meta = o]) PROVE ThreadTyped'
    <3> HIDE DEF sent
    <3>1. [sent EXCEPT !.at = "verify", !.meta = o].hashed = sent.hashed
      BY <1>7 DEF Streams
    <3> QED BY <1>1, <1>3, <1>7, <2>2, <3>1, ThreadMoves DEF ThreadTyped
  <2>3. ASSUME NEW c, Fails(u, c) PROVE ThreadTyped'
    BY <1>1, <1>3, <2>3, ThreadFails
  <2> HIDE DEF sent, after
  <2> QED BY <1>2, <2>1, <2>2, <2>3
<1>9. ServerTyped'
  <2>1. ChunkTyped(s, n, part)
    BY <1>1, <1>5, <1>6 DEF ChunkTyped
  <2>2. CASE bucket' = after /\ late' = late
    <3> HIDE DEF s, n, part
    <3> QED BY <1>3, <1>6, <2>1, <2>2, ServerReceives
  <2>3. CASE bucket' = bucket
    <3>1. r.kind = "chunk" /\ r.session = s /\ r.offset = n /\ r.part = part
      OBVIOUS
    <3> HIDE DEF r, s, n, part, after
    <3> QED BY <1>2, <1>3, <2>1, <2>3, <3>1 DEF ServerTyped, ChunkTyped, SessionTyped, TempTyped
  <2> HIDE DEF after, r
  <2> QED BY <1>2, <2>2, <2>3
<1> QED BY <1>8, <1>9

LEMMA TypedUpload ==
  ASSUME Inv, TypedInv, NEW u \in Units, Upload(u) \/ SessionLost(u) PROVE ThreadTyped' /\ ServerTyped'
<1>1. CASE SessionLost(u) \/ Unfinished(u) \/ Truncated(u)
  <2>1. /\ StreamStep /\ slices' = slices /\ UNCHANGED <<bucket, late>> /\ \E c : Fails(u, c)
    BY <1>1 DEF SessionLost, Unfinished, Truncated
  <2> QED BY <2>1, ThreadFails, ServerStays DEF TypedInv
<1>2. CASE StopStream(u)
  <2>1. /\ StreamStep /\ slices' = slices /\ UNCHANGED <<bucket, late>> /\ stream[u].at = "send"
        /\ Becomes(u, [stream[u] EXCEPT !.at = "stopped"])
    BY <1>2 DEF StopStream
  <2>2. [stream[u] EXCEPT !.at = "stopped"].hashed = stream[u].hashed
    BY <2>1, UploadIs DEF Streams
  <2> QED BY <2>1, <2>2, ThreadHashes, ServerStays DEF TypedInv
<1>3. CASE VerifyStream(u)
  <2>1. StreamStep /\ UNCHANGED <<bucket, late>> /\ stream[u].at = "verify"
    BY <1>3 DEF VerifyStream
  <2>2. /\ stream[u] \in Streams /\ ThreadTyped /\ ServerTyped /\ stream[u].hashed \in Contents
        /\ slices[u].crc \in Checksums /\ slices \in [Units -> [uri: Nat, crc: Data]]
    BY <2>1, UploadIs
  <2>3. CASE slices' = slices /\ \E c : Fails(u, c)
    BY <2>1, <2>2, <2>3, ThreadFails, ServerStays
  <2>4. CASE /\ Becomes(u, [stream[u] EXCEPT !.at = "done"])
             /\ slices' = IF options.method = "sliced"
                          THEN [slices EXCEPT ![u].crc = stream[u].hashed] ELSE slices
    <3>1. [stream[u] EXCEPT !.at = "done"].hashed = stream[u].hashed
      BY <2>2 DEF Streams
    <3>2. /\ slices'[u].crc \in {slices[u].crc, stream[u].hashed}
          /\ \A v \in Units \ {u} : slices'[v] = slices[v]
      BY <2>2, <2>4
    <3>3. slices'[u].crc \in Checksums
      BY <2>2, <3>2 DEF Checksums
    <3> QED BY <2>1, <2>2, <2>4, <3>1, <3>2, <3>3, ThreadMoves, ServerStays
  <2> QED BY <1>3, <2>3, <2>4 DEF VerifyStream
<1> QED BY <1>1, <1>2, <1>3, TypedQuery, TypedOpen, TypedSend DEF Upload

LEMMA TypedWorld ==
  ASSUME Inv, TypedInv, ExecuteLate \/ Foreign \/ Expire PROVE ServerTyped'
<1>1. ServerTyped /\ bucket \in Buckets /\ source \in Contents
  BY InvIs, SourceTyped DEF TypedInv
<1>2. CASE ExecuteLate
  <2>1. PICK r \in late :
          /\ late' = late \ {r}
          /\ bucket' = CASE r.kind = "put" -> PutWhole(bucket, r.data, r.crc, r.match, r.hash)
                         [] r.kind = "chunk" -> Receive(bucket, r.session, r.offset, r.part)
                         [] r.kind = "compose" -> Composed(bucket, r.metas, r.match)
    BY <1>2 DEF ExecuteLate
  <2>2. r.kind \in {"put", "chunk", "compose"} /\ LateRight(r)
    BY InvIs DEF BucketInv, LateRight, Puts, Chunks, Composes
  <2>3. CASE r.kind = "put"
    BY <1>1, <2>1, <2>3, PutTemps, ServerStays
  <2>4. CASE r.kind = "compose"
    BY <1>1, <2>1, <2>4, ComposedTemps, ServerStays
  <2>5. CASE r.kind = "chunk"
    <3>1. r \in Chunks /\ ChunkRight(r)
      BY <2>2, <2>5 DEF LateRight, Puts, Composes
    <3>2. r.session \in 1..Len(bucket.sessions)
      BY <3>1, <1>1 DEF Chunks, ChunkRight, Buckets
    <3>3. ChunkTyped(r.session, r.offset, r.part)
      BY <1>1, <2>5 DEF ServerTyped
    <3>4. bucket' = Receive(bucket, r.session, r.offset, r.part) /\ late' \subseteq late
      BY <2>1, <2>5
    <3> QED BY <1>1, <3>2, <3>3, <3>4, ServerReceives
  <2> QED BY <2>2, <2>3, <2>4, <2>5
<1>3. CASE Foreign
  <2>1. PICK o \in {OthersObject(Alien), OthersObject(source), Absent} :
          \/ bucket' = [bucket EXCEPT !.dest = o, !.gen = @ + 1]
          \/ \E u \in Units : bucket' = [bucket EXCEPT !.temps[u] = o, !.gen = @ + 1]
    BY <1>3 DEF Foreign
  <2>2. TempTyped(o)
    <3>1. TempTyped(OthersObject(Alien)) /\ TempTyped(OthersObject(source))
      BY <1>1, ContentsMake DEF TempTyped, OthersObject, Checksums
    <3> QED BY <2>1, <3>1, AbsentTyped
  <2>3. bucket'.sessions = bucket.sessions /\ late' = late
    BY <1>1, <1>3, <2>1 DEF Foreign, Buckets
  <2>4. \A u \in Units : bucket'.temps[u] \in {o, bucket.temps[u]}
    BY <1>1, <2>1 DEF Buckets
  <2> QED BY <1>1, <2>2, <2>3, <2>4, ServerFrame DEF ServerTyped
<1>4. CASE Expire
  <2>1. PICK s \in DOMAIN bucket.sessions : bucket' = [bucket EXCEPT !.sessions[s].state = "gone"]
    BY <1>4 DEF Expire
  <2>2. late' = late /\ bucket'.temps = bucket.temps /\ bucket.sessions \in Seq(Sessions)
    BY <1>1, <1>4, <2>1 DEF Expire, Buckets
  <2>3. bucket'.sessions = [bucket.sessions EXCEPT ![s].state = "gone"]
    BY <1>1, <2>1 DEF Buckets
  <2>4. /\ Len(bucket'.sessions) = Len(bucket.sessions)
        /\ \A t \in 1..Len(bucket.sessions) : /\ bucket'.sessions[t].data = bucket.sessions[t].data
                                              /\ bucket'.sessions[t].total = bucket.sessions[t].total
    <3>1. bucket.sessions[s] \in Sessions
      BY <2>1, <2>2
    <3>2. /\ [bucket.sessions[s] EXCEPT !.state = "gone"].data = bucket.sessions[s].data
          /\ [bucket.sessions[s] EXCEPT !.state = "gone"].total = bucket.sessions[s].total
      BY <3>1 DEF Sessions
    <3> QED BY <2>1, <2>2, <2>3, <3>2
  <2>5. ASSUME NEW r \in late, r.kind = "chunk" PROVE ChunkTyped(r.session, r.offset, r.part)'
    <3>1. r \in Chunks /\ ChunkRight(r)
      BY <2>5, InvIs DEF BucketInv, LateRight, Puts, Composes
    <3>2. r.session \in 1..Len(bucket.sessions)
      BY <1>1, <3>1 DEF Chunks, ChunkRight, Buckets
    <3>3. ChunkTyped(r.session, r.offset, r.part)
      BY <1>1, <2>5 DEF ServerTyped
    <3> QED BY <2>4, <3>2, <3>3 DEF ChunkTyped
  <2> QED BY <1>1, <2>2, <2>4, <2>5 DEF ServerTyped, SessionTyped, TempTyped
<1> QED BY <1>2, <1>3, <1>4

LEMMA TypedHolds == Spec => []TypedInv
<1>1. ASSUME Init PROVE TypedInv
  <2>1. source \in Contents /\ past = <<source>>
    BY <1>1 DEF Init
  <2>2. ServerTyped
    <3>1. bucket.sessions = <<>> /\ late = {} /\ \A u \in Units : bucket.temps[u] = Absent
      BY <1>1 DEF Init
    <3> QED BY <3>1, AbsentTyped DEF ServerTyped
  <2>3. ThreadTyped
    <3>1. pc = "idle" /\ try = 0 /\ slices = Blank /\ stream = Idle
      BY <1>1 DEF Init
    <3> QED BY <3>1, TriesAre, ContentsMake DEF ThreadTyped, Places, Blank, NoRow, Idle, NoStream
  <2> QED BY <2>1, <2>2, <2>3 DEF TypedInv
<1>2. ASSUME Inv, TypedInv, [Next]_vars PROVE TypedInv'
  <2>1. ThreadTyped /\ ServerTyped /\ past \in Seq(Contents)
    BY <1>2 DEF TypedInv
  <2>2. CASE MainStep
    <3>1. past' = past
      BY <2>2 DEF MainStep, Stat, Attempt, Caught, SkipRule, Record, ClearSlices, Put, CheckPut, Plan, Join, Compose,
                  CheckCompose, Sweep, Stamp, Outside, file
    <3> QED BY <1>2, <2>1, <2>2, <3>1, ThreadMain, ServerMain DEF TypedInv
  <2>3. ASSUME NEW u \in Units, Upload(u) \/ SessionLost(u) PROVE TypedInv'
    <3>1. past' = past
      BY <2>3 DEF Upload, Query, Open, StopStream, Unfinished, Truncated, Send, VerifyStream, SessionLost,
                  StreamStep, file
    <3> QED BY <1>2, <2>1, <2>3, <3>1, TypedUpload DEF TypedInv
  <2>4. CASE LookupLost \/ ClearFails \/ Crash
    <3>1. UNCHANGED <<bucket, late>> /\ past' = past
      BY <2>4 DEF LookupLost, ClearFails, Crash, file
    <3>2. ThreadTyped'
      BY <2>1, <2>4, TypedFails, TypedLeaves DEF LookupLost, ClearFails, Crash, rows
    <3> QED BY <1>2, <2>1, <3>1, <3>2, ServerStays DEF TypedInv
  <2>5. CASE ExecuteLate \/ Foreign \/ Expire
    <3>1. past' = past /\ UNCHANGED <<pc, try, stream, slices>>
      BY <2>5 DEF ExecuteLate, Foreign, Expire, file, rows, run
    <3> QED BY <1>2, <2>1, <2>5, <3>1, TypedWorld DEF TypedInv, ThreadTyped
  <2>6. CASE Begin \/ RequestStop \/ UNCHANGED vars
    <3>1. past' = past /\ UNCHANGED <<try, stream, slices, bucket, late>> /\ pc' \in {pc, "stat"}
      BY <2>6 DEF Begin, RequestStop, vars, file, rows, run
    <3> QED BY <1>2, <2>1, <3>1, ServerStays DEF TypedInv, ThreadTyped, Places
  <2>7. CASE Edit
    <3>1. PICK c \in Contents : past' = Append(past, c)
      BY <2>7 DEF Edit
    <3>2. UNCHANGED <<pc, try, stream, slices, bucket, late>>
      BY <2>7 DEF Edit, rows
    <3>3. past' \in Seq(Contents)
      BY <2>1, <3>1
    <3> QED BY <1>2, <2>1, <3>2, <3>3, ServerStays DEF TypedInv, ThreadTyped
  <2> QED BY <1>2, <2>2, <2>3, <2>4, <2>5, <2>6, <2>7 DEF Next
<1> QED BY <1>1, <1>2, InvHolds, PTL DEF Spec

\* The source and every content it had, the row, the checksums of its slices and of
\* the temporary objects, where the attempt and its uploads stand, and the number of
\* attempts are what they can be, and an upload that sends or verifies has its session
\* in its row; for every number of edits, attempts and parts, in any number of runs
\* (engine/runner.py:256-345, gcs/uploader.py:189-377).
THEOREM UploadStaysTyped == Spec => []TypeOK
<1>1. ASSUME Inv, TypedInv PROVE TypeOK
  <2>1. source \in Contents /\ \A m \in DOMAIN past : past[m] \in Contents
    BY <1>1, SourceTyped DEF TypedInv
  <2>2. bucket.temps \in
          [Units -> [gen: Nat, data: Checksums, by: {"nobody", "job", "other"}, hash: Checksums]]
    <3>1. bucket.temps \in [Units -> Objects]
      BY <1>1, InvIs DEF Buckets
    <3>2. ASSUME NEW u \in Units
          PROVE  bucket.temps[u] \in
                   [gen: Nat, data: Checksums, by: {"nobody", "job", "other"}, hash: Checksums]
      <4>1. TempTyped(bucket.temps[u]) /\ bucket.temps[u] \in Objects
        BY <1>1, <3>1 DEF TypedInv, ServerTyped
      <4> QED BY <4>1 DEF TempTyped, Objects
    <3> QED BY <3>1, <3>2
  <2>3. row.state \in FileStates /\ row.category \in Categories /\ row.size \in 0..MaxSize
        /\ row.seen \in DOMAIN past
    BY <1>1, InvIs, GivenIs DEF Rows
  <2>4. slices \in [Units -> [uri: 0..Len(bucket.sessions), crc: Checksums]]
    <3>1. slices \in [Units -> [uri: Nat, crc: Data]] /\ \A u \in Units : SliceRight(u)
      BY <1>1, InvIs DEF ProgramInv, SlicesInv
    <3>2. Len(bucket.sessions) \in Nat
      BY <1>1, InvIs DEF Buckets
    <3>3. ASSUME NEW u \in Units PROVE slices[u] \in [uri: 0..Len(bucket.sessions), crc: Checksums]
      <4>1. slices[u] \in [uri: Nat, crc: Data] /\ slices[u].uri <= Len(bucket.sessions)
            /\ slices[u].crc \in Checksums
        BY <1>1, <3>1 DEF SliceRight, TypedInv, ThreadTyped
      <4> QED BY <3>2, <4>1
    <3> QED BY <3>1, <3>3
  <2>5. pc \in Places /\ try \in 0..MaxAttempts
    BY <1>1 DEF TypedInv, ThreadTyped
  <2>6. ASSUME NEW u \in Units
        PROVE  stream[u].at \in StreamPlaces /\ (stream[u].at \in {"send", "verify"} => slices[u].uri > 0)
    <3>1. stream[u] \in Streams /\ StreamRight(u, stream[u])
      BY <1>1, InvIs DEF ProgramInv, StreamInv
    <3> QED BY <3>1 DEF Streams, StreamRight
  <2> QED BY <2>1, <2>2, <2>3, <2>4, <2>5, <2>6 DEF TypeOK, Places, StreamPlaces
<1> QED BY <1>1, InvHolds, TypedHolds, PTL

---------------------------------------------------------------------------
(* A slice that was uploaded is not sent again *)

\* What a stream remembers that its slice was looked up to be is not what the row
\* has, as long as it may still open a session: else it would have ended at once.
Differs(s, crc) == s.at \in {"query", "open"} /\ crc # None => s.meta.data # crc
LookedInv == \A u \in Units : Differs(stream[u], slices[u].crc)

\* A step that starts no stream, and gives no slice of one that may open a session a
\* checksum, keeps it.
LEMMA LookedFrame ==
  ASSUME LookedInv,
         \A u \in Units :
           \/ stream'[u] = stream[u] /\ slices'[u].crc \in {None, slices[u].crc}
           \/ stream'[u].at \notin {"query", "open"}
           \/ /\ stream[u].at = "query" /\ stream'[u].meta = stream[u].meta
              /\ slices'[u].crc = slices[u].crc
  PROVE  LookedInv'
<1> SUFFICES ASSUME NEW u \in Units PROVE Differs(stream'[u], slices'[u].crc)
  BY DEF LookedInv, Differs
<1>1. Differs(stream[u], slices[u].crc)
  BY DEF LookedInv
<1> QED BY <1>1 DEF Differs

LEMMA LookedIdle == ASSUME stream' = Idle PROVE LookedInv'
BY ShapesAre DEF LookedInv, Differs

LEMMA LookedStill == ASSUME LookedInv, stream' = stream, slices' = slices PROVE LookedInv'
BY DEF LookedInv, Differs

\* One stream goes on, and its slice with it; the others stay.
LEMMA LookedMoves ==
  ASSUME Inv, LookedInv, NEW u \in Units, NEW new, Becomes(u, new),
         \A v \in Units \ {u} : slices'[v] = slices[v],
         \/ new.at \notin {"query", "open"}
         \/ stream[u].at = "query" /\ new.meta = stream[u].meta /\ slices'[u].crc = slices[u].crc
  PROVE  LookedInv'
<1>1. stream \in [Units -> Streams]
  BY InvIs DEF ProgramInv, StreamInv
<1>2. stream' = [stream EXCEPT ![u] = new]
  BY DEF Becomes
<1>3. stream'[u] = new /\ \A v \in Units \ {u} : stream'[v] = stream[v]
  BY <1>1, <1>2
<1> QED BY <1>3, LookedFrame

\* The two places that start streams: the only upload of a file, which looks nothing
\* up, and the slices of a plan, each looked up.
LEMMA LookedStarts ==
  ASSUME NEW u, NEW o PROVE [Start(u) EXCEPT !.meta = o].meta = o /\ Start(u).meta = Absent
BY DEF Start, NoStream

LEMMA KeepsLookedSkipRule == ASSUME Inv, LookedInv, SkipRule PROVE LookedInv'
<1>1. CASE stream' = Idle
  BY <1>1, LookedIdle
<1>2. CASE stream' = [Idle EXCEPT ![0] = Start(0)] /\ slices' = slices
  <2>1. 0 \in Units /\ Idle \in [Units -> Streams]
    BY ConstantsAre, ShapesAre DEF Units
  <2>2. stream'[0] = Start(0) /\ \A u \in Units \ {0} : stream'[u] = Idle[u]
    BY <1>2, <2>1
  <2>3. Start(0).meta.data = None
    BY LookedStarts DEF Absent
  <2>4. ASSUME NEW u \in Units PROVE Differs(stream'[u], slices'[u].crc)
    <3>1. CASE u = 0
      BY <1>2, <2>2, <2>3, <3>1 DEF Differs
    <3>2. CASE u # 0
      BY <2>2, <3>2, ShapesAre DEF Differs
    <3> QED BY <3>1, <3>2
  <2> QED BY <2>4 DEF LookedInv, Differs
<1>3. CASE stream' = stream /\ slices' = slices
  BY <1>3, LookedStill
<1> QED BY <1>1, <1>2, <1>3 DEF SkipRule, Fail, MarkDelivered, Settle, rows

LEMMA KeepsLookedPlan == ASSUME Inv, LookedInv, Plan PROVE LookedInv'
<1>1. slices' = slices
  BY DEF Plan, rows
<1>2. CASE Leave
  BY <1>2, LookedIdle DEF Leave
<1>3. CASE stream' = [u \in Units |->
             IF u \notin Used THEN NoStream
             ELSE IF Reusable(u)
             THEN [NoStream EXCEPT !.at = "done", !.hashed = slices[u].crc, !.meta = bucket.temps[u]]
             ELSE [Start(u) EXCEPT !.meta = LookedUp(u)]]
  <2>1. ASSUME NEW u \in Units PROVE Differs(stream'[u], slices'[u].crc)
    <3>1. CASE u \notin Used
      BY <1>3, <3>1, ShapesAre DEF Differs
    <3>2. CASE u \in Used /\ Reusable(u)
      BY <1>3, <3>2 DEF Differs, NoStream
    <3>3. CASE u \in Used /\ ~Reusable(u)
      <4>1. stream'[u].meta = LookedUp(u)
        BY <1>3, <3>3, LookedStarts
      <4> QED BY <1>1, <3>3, <4>1 DEF Differs, LookedUp, Reusable
    <3> QED BY <3>1, <3>2, <3>3
  <2> QED BY <2>1 DEF LookedInv, Differs
<1> QED BY <1>2, <1>3 DEF Plan

LEMMA KeepsLookedMain == ASSUME Inv, LookedInv, MainStep PROVE LookedInv'
<1>1. CASE Stat
  BY <1>1, LookedStill, LookedIdle DEF Stat, MarkChanged, Settle, Leave, rows
<1>2. CASE Attempt
  BY <1>2, LookedStill, LookedIdle DEF Attempt, Leave, rows
<1>3. CASE Caught
  <2>1. stream = Idle
    BY <1>3, InvIs DEF Caught, AttemptInv, Quiet
  <2> QED BY <1>3, <2>1, LookedIdle DEF Caught, Leave
<1>4. CASE Record \/ ClearSlices
  <2>1. CASE Record
    BY <2>1, LookedStill DEF Record, MarkDelivered, Settle
  <2>2. CASE ClearSlices
    BY <2>2, LookedIdle, InvIs DEF ClearSlices, Leave, AttemptInv, Quiet
  <2> QED BY <1>4, <2>1, <2>2
<1>5. CASE Put \/ Compose
  BY <1>5, LookedStill, LookedIdle DEF Put, Compose, Request, Fail, rows
<1>6. CASE CheckPut \/ CheckCompose
  BY <1>6, LookedStill, LookedIdle DEF CheckPut, CheckCompose, Fail, rows
<1>7. CASE Join
  BY <1>7, LookedStill, LookedIdle DEF Join, Leave, Fail, rows
<1>8. CASE Sweep \/ Stamp
  BY <1>8, LookedStill, LookedIdle DEF Sweep, Stamp, Fail, rows
<1> QED BY <1>1, <1>2, <1>3, <1>4, <1>5, <1>6, <1>7, <1>8, KeepsLookedSkipRule, KeepsLookedPlan DEF MainStep

LEMMA KeepsLookedUpload ==
  ASSUME Inv, LookedInv, NEW u \in Units, Upload(u) \/ SessionLost(u) PROVE LookedInv'
<1>1. stream \in [Units -> Streams] /\ slices \in [Units -> [uri: Nat, crc: Data]]
  BY InvIs DEF ProgramInv, StreamInv, SlicesInv
<1>2. stream[u] \in Streams
  BY <1>1
<1>3. ASSUME NEW c, Fails(u, c), slices' = slices PROVE LookedInv'
  <2>1. [stream[u] EXCEPT !.at = "failed", !.err = c].at = "failed"
    BY <1>2 DEF Streams
  <2> QED BY <1>3, <2>1, LookedMoves DEF Fails
<1>4. CASE Query(u)
  <2>1. \A v \in Units \ {u} : slices'[v] = slices[v]
    BY <1>1, <1>4 DEF Query
  <2>2. CASE Becomes(u, [stream[u] EXCEPT !.at = "open"]) /\ slices' = slices
    <3>1. [stream[u] EXCEPT !.at = "open"].meta = stream[u].meta
      BY <1>2 DEF Streams
    <3> QED BY <1>4, <2>1, <2>2, <3>1, LookedMoves DEF Query
  <2>3. CASE Becomes(u, [stream[u] EXCEPT !.at = "found", !.meta = Session(u).meta])
    <3>1. [stream[u] EXCEPT !.at = "found", !.meta = Session(u).meta].at = "found"
      BY <1>2 DEF Streams
    <3> QED BY <2>1, <2>3, <3>1, LookedMoves
  <2>4. CASE Becomes(u, [stream[u] EXCEPT !.at = "send", !.hashed = Part(u, Committed(u))])
    <3>1. [stream[u] EXCEPT !.at = "send", !.hashed = Part(u, Committed(u))].at = "send"
      BY <1>2 DEF Streams
    <3> QED BY <2>1, <2>4, <3>1, LookedMoves
  <2>5. CASE slices' = slices /\ \E c : Fails(u, c)
    BY <1>3, <2>5
  <2> QED BY <1>4, <2>2, <2>3, <2>4, <2>5 DEF Query
<1>5. CASE Open(u)
  <2>1. \A v \in Units \ {u} : slices'[v] = slices[v]
    BY <1>1, <1>5 DEF Open
  <2>2. [stream[u] EXCEPT !.at = "send", !.hashed = <<>>].at = "send"
    BY <1>2 DEF Streams
  <2> QED BY <1>5, <2>1, <2>2, LookedMoves DEF Open
<1>6. CASE SessionLost(u) \/ Unfinished(u) \/ Truncated(u)
  BY <1>3, <1>6 DEF SessionLost, Unfinished, Truncated
<1>7. CASE StopStream(u)
  <2>1. [stream[u] EXCEPT !.at = "stopped"].at = "stopped"
    BY <1>2 DEF Streams
  <2> QED BY <1>7, <2>1, LookedMoves DEF StopStream
<1>8. CASE Send(u)
  <2> DEFINE n == Len(stream[u].hashed)
             sent == [stream[u] EXCEPT !.hashed = Append(@, source[Offset(u) + n + 1])]
  <2>1. slices' = slices /\ stream[u].at = "send"
    BY <1>8 DEF Send
  <2>2. sent.at = "send"
    BY <1>2, <2>1 DEF Streams
  <2>3. ASSUME NEW m PROVE [sent EXCEPT !.at = "verify", !.meta = m].at = "verify"
    BY <1>2 DEF Streams
  <2> HIDE DEF sent, n
  <2>4. \/ Becomes(u, sent) \/ \E c : Fails(u, c)
        \/ \E m : Becomes(u, [sent EXCEPT !.at = "verify", !.meta = m])
    BY <1>8 DEF Send, sent, n
  <2> QED BY <1>3, <2>1, <2>2, <2>3, <2>4, LookedMoves
<1>9. CASE VerifyStream(u)
  <2>1. \A v \in Units \ {u} : slices'[v] = slices[v]
    BY <1>1, <1>9 DEF VerifyStream
  <2>2. [stream[u] EXCEPT !.at = "done"].at = "done"
    BY <1>2 DEF Streams
  <2> QED BY <1>3, <1>9, <2>1, <2>2, LookedMoves DEF VerifyStream
<1> QED BY <1>4, <1>5, <1>6, <1>7, <1>8, <1>9 DEF Upload

LEMMA LookedHolds == Spec => []LookedInv
<1>1. Init => LookedInv
  BY ShapesAre DEF Init, LookedInv, Differs
<1>2. ASSUME Inv, LookedInv, [Next]_vars PROVE LookedInv'
  <2>1. CASE UNCHANGED <<stream, slices>>
    BY <1>2, <2>1, LookedStill
  <2>2. CASE Begin \/ ExecuteLate \/ Edit \/ Foreign \/ Expire \/ RequestStop \/ UNCHANGED vars
    BY <2>1, <2>2 DEF Begin, ExecuteLate, Edit, Foreign, Expire, RequestStop, vars, rows, run
  <2>3. CASE LookupLost \/ ClearFails \/ Crash
    BY <2>3, LookedIdle DEF LookupLost, ClearFails, Crash, Fail, Leave
  <2> QED BY <1>2, <2>2, <2>3, KeepsLookedMain, KeepsLookedUpload DEF Next
<1> QED BY <1>1, <1>2, InvHolds, PTL DEF Spec

\* Where a row loses the checksum of an uploaded slice.
LEMMA ChecksumLost ==
  ASSUME Inv, TypedInv, LookedInv, Next, NEW u \in Units, slices[u].crc # None, slices'[u].crc = None
  PROVE  \/ row'.state \in Delivered \cup {"changed"}
         \/ row.category = "mismatch"
         \/ stream[u].at = "open" /\ stream[u].meta.data # slices[u].crc
<1>1. slices \in [Units -> [uri: Nat, crc: Data]] /\ row \in Rows
  BY InvIs DEF ProgramInv, SlicesInv
<1>2. slices' # slices
  OBVIOUS
<1>3. CASE ClearSlices
  <2>1. row'.state = row.state
    BY <1>1, <1>3 DEF ClearSlices, Rows
  <2>2. pc = "clear slices" => row.state \in Delivered \cup {"changed"}
    BY InvIs DEF AttemptInv
  <2> QED BY <1>3, <2>1, <2>2 DEF ClearSlices, Uncleared
<1>4. ~(Stat \/ Caught \/ SkipRule \/ Record \/ ClearFails)
  BY <1>2 DEF Stat, MarkChanged, MarkDelivered, Settle, Caught, SkipRule, Record, ClearFails, Fail, rows
<1>8. CASE Attempt \/ Put \/ CheckPut \/ Plan \/ Join \/ Compose \/ CheckCompose \/ Sweep \/ Stamp
  BY <1>2, <1>8 DEF Attempt, Put, CheckPut, Plan, Join, Compose, CheckCompose, Sweep, Stamp,
                    Request, Fail, rows
<1>9. ASSUME NEW v \in Units, Upload(v) \/ SessionLost(v)
      PROVE  stream[u].at = "open" /\ stream[u].meta.data # slices[u].crc
  <2>1. ~(StopStream(v) \/ Unfinished(v) \/ Truncated(v) \/ Send(v) \/ SessionLost(v))
    BY <1>2 DEF StopStream, Unfinished, Truncated, Send, SessionLost
  <2>2. CASE Open(v)
    <3>1. u = v
      BY <1>1, <2>2 DEF Open
    <3> QED BY <2>2, <3>1 DEF Open, LookedInv, Differs
  <2>3. CASE Query(v)
    <3>1. slices' = [slices EXCEPT ![v].crc = Session(v).meta.data]
      BY <1>2, <2>3 DEF Query
    <3>2. Session(v).meta.data = Part(v, IF options.method = "sliced" THEN Length(v) ELSE Len(source))
      BY <1>2, <2>3 DEF Query
    <3>3. Session(v).meta.data \in Contents
      <4>1. Length(v) \in Nat /\ Len(source) \in Nat
        BY <2>3, UploadIs, InvIs, GivenIs DEF Query
      <4> QED BY <3>2, <4>1, PartTyped
    <3>4. slices'[u].crc \in {slices[u].crc, Session(v).meta.data}
      BY <1>1, <3>1
    <3> QED BY <3>3, <3>4, ContentsMake
  <2>4. CASE VerifyStream(v)
    <3>1. slices' = [slices EXCEPT ![v].crc = stream[v].hashed]
      BY <1>2, <2>4 DEF VerifyStream
    <3>2. stream[v].hashed \in Contents
      BY DEF TypedInv, ThreadTyped
    <3>3. slices'[u].crc \in {slices[u].crc, stream[v].hashed}
      BY <1>1, <3>1
    <3> QED BY <3>2, <3>3, ContentsMake
  <2> QED BY <1>9, <2>1, <2>2, <2>3, <2>4 DEF Upload
<1>10. CASE Begin \/ LookupLost \/ ExecuteLate \/ Edit \/ Foreign \/ Expire \/ Crash \/ RequestStop
  BY <1>2, <1>10 DEF Begin, LookupLost, Fail, ExecuteLate, Edit, Foreign, Expire, Crash, RequestStop, rows
<1> QED BY <1>3, <1>4, <1>8, <1>9, <1>10 DEF Next, MainStep

\* An uploaded slice is sent once: its row keeps its checksum until the file is
\* settled, changes, or fails its verification, or the attempt looked for the
\* temporary object and found it gone or replaced, in whatever order the slices,
\* late chunks, other writers and crashes come (gcs/uploader.py:414-421, 446-448).
THEOREM UploadedSlicesAreKept == Spec => UploadedSliceIsKept
<1> DEFINE A == \A u \in Units :
                  slices[u].crc # None /\ slices'[u].crc = None
                    => \/ row'.state \in Delivered \cup {"changed"}
                       \/ row.category = "mismatch"
                       \/ stream[u].at = "open" /\ stream[u].meta.data # slices[u].crc
<1>1. Inv /\ TypedInv /\ LookedInv /\ [Next]_vars => [A]_vars
  BY ChecksumLost
<1>2. Spec => [](Inv /\ TypedInv /\ LookedInv) /\ [][Next]_vars
  BY InvHolds, TypedHolds, LookedHolds, PTL DEF Spec
<1> QED BY <1>1, <1>2, PTL DEF UploadedSliceIsKept

---------------------------------------------------------------------------
(* The plan of a file's slices: shares that cover it *)

\* b shares of a, rounded up, cover a.
LEMMA CeilCovers ==
  ASSUME NEW a \in Nat, NEW b \in Nat \ {0}
  PROVE  /\ CeilDiv(a, b) \in Nat
         /\ a <= b * CeilDiv(a, b)
         /\ a > 0 => CeilDiv(a, b) > 0
<1> DEFINE q == (a + b - 1) \div b
<1>1. q \in Int /\ b * q <= a + b - 1 /\ a + b - 1 < b * q + b
  BY Z3 DEF q
<1>2. QED
  BY <1>1, SMT DEF CeilDiv

\* A common positive factor can be dropped.
LEMMA DropFactor ==
  ASSUME NEW x \in Nat, NEW y \in Nat, NEW F \in Nat \ {0}, x * F < y * F
  PROVE  x < y
BY Z3

\* With F a lower bound of the share, fewer than c multiples of F lie below s.
LEMMA FewMultiples ==
  ASSUME NEW s \in Nat, NEW c \in Nat \ {0}, NEW q \in Nat, NEW F \in Nat \ {0},
         s <= c * q, q <= F, NEW k \in Nat, k * F < s
  PROVE  k < c
<1>1. c * q <= c * F
  BY Z3
<1>2. k * F < c * F
  BY <1>1, Z3
<1>3. QED
  BY <1>2, DropFactor

\* What the slices of a file that is not empty are cut to is a positive size.
LEMMA FullPositive ==
  ASSUME PlanTypeOK, size > 0
  PROVE  /\ Full \in Nat \ {0}
         /\ plan = "slices" => CeilDiv(size, policy.max_components) <= Full
<1> USE PlanAssumption DEF PlanTypeOK
<1>1. CASE plan = "slices"
  <2>1. size \in Nat /\ policy.max_components \in Nat \ {0} /\ policy.min_slice \in Int
    BY DEF SizePolicies
  <2> DEFINE q == CeilDiv(size, policy.max_components)
  <2>2. q \in Nat /\ q > 0
    BY <2>1, CeilCovers
  <2>3. Full = Larger(policy.min_slice, q)
    BY <1>1 DEF Full, SliceSize
  <2> HIDE DEF q
  <2>4. QED
    BY <2>1, <2>2, <2>3, SMT DEF Larger, q
<1>2. CASE plan = "ranges"
  BY <1>2, SMT DEF Full
<1>3. QED
  BY <1>1, <1>2

---------------------------------------------------------------------------
(* The plan: every slice is where its index says *)

InPlace(i) ==
  /\ cuts[i].index = i - 1
  /\ cuts[i].offset = (i - 1) * Full
  /\ cuts[i].length = Smaller(Full, size - (i - 1) * Full)
  /\ cuts[i].offset < size
Reached == offset = Smaller(Len(cuts) * Full, size)
PlanInv ==
  /\ PlanTypeOK
  /\ size = 0 => offset = 0 /\ cuts = Empty
  /\ size > 0 => Reached /\ \A i \in 1..Len(cuts) : InPlace(i)

LEMMA InitInv == PlanInit => PlanInv
<1> SUFFICES ASSUME PlanInit PROVE PlanInv
  OBVIOUS
<1> USE PlanAssumption DEF PlanInit
<1>1. PlanTypeOK
  <2>1. cuts \in Seq(Slice)
    <3>1. [index |-> 0, offset |-> 0, length |-> 0] \in Slice
      BY DEF Slice
    <3>2. <<[index |-> 0, offset |-> 0, length |-> 0]>> \in Seq(Slice) /\ <<>> \in Seq(Slice)
      BY <3>1
    <3>3. QED
      BY <3>2 DEF Empty
  <2>2. QED
    BY <2>1 DEF PlanTypeOK
<1>2. ASSUME size > 0 PROVE Reached /\ \A i \in 1..Len(cuts) : InPlace(i)
  <2>1. cuts = <<>>
    BY <1>2 DEF Empty
  <2>2. Full \in Nat
    BY <1>1, <1>2, FullPositive
  <2>3. QED
    BY <1>2, <2>1, <2>2, SMT DEF Reached, Smaller
<1>3. QED
  BY <1>1, <1>2 DEF PlanInv

LEMMA StepInv == PlanInv /\ [PlanNext]_plan_vars => PlanInv'
<1> SUFFICES ASSUME PlanInv, [PlanNext]_plan_vars PROVE PlanInv'
  OBVIOUS
<1>1. CASE UNCHANGED plan_vars
  BY <1>1 DEF plan_vars, arguments, PlanInv, PlanTypeOK, Reached, InPlace, Empty, Full
<1>2. CASE Cut
  <2> DEFINE n == Len(cuts)
             s == [index |-> n, offset |-> offset, length |-> CutLength]
  <2>1. /\ size \in Nat /\ offset \in Nat /\ n \in Nat /\ size > 0
        /\ cuts \in Seq(Slice) /\ PlanTypeOK
    BY <1>2, PlanAssumption DEF PlanInv, PlanTypeOK, Cut
  <2>2. Full \in Nat \ {0}
    BY <2>1, FullPositive
  <2>3. CutLength \in Nat \ {0} /\ CutLength = Smaller(Full, size - offset)
    BY <1>2, <2>1, <2>2, SMT DEF Cut, CutLength, Smaller
  <2>4. offset = n * Full
    <3>1. n * Full \in Nat
      BY <2>1, <2>2, Z3
    <3>2. Reached /\ offset < size
      BY <1>2, <2>1 DEF PlanInv, Cut
    <3>3. QED
      BY <3>1, <3>2, <2>1, SMT DEF Reached, Smaller
  <2>5. cuts' = Append(cuts, s) /\ offset' = offset + CutLength /\ UNCHANGED arguments
    BY <1>2 DEF Cut
  <2>6. UNCHANGED <<size, policy, plan, range_bytes, Full>>
    BY <2>5 DEF arguments, Full
  <2>7. s \in Slice
    BY <2>1, <2>3 DEF Slice
  <2>8. /\ cuts' \in Seq(Slice) /\ Len(cuts') = n + 1
        /\ cuts'[n + 1] = s
        /\ \A i \in 1..n : cuts'[i] = cuts[i]
    BY <2>1, <2>5, <2>7
  <2>9. PlanTypeOK'
    BY <2>1, <2>3, <2>5, <2>6, <2>8 DEF PlanTypeOK
  <2>10. Reached'
    <3>1. (n + 1) * Full = offset + Full
      BY <2>1, <2>2, <2>4, Z3
    <3>2. offset' = Smaller(offset + Full, size)
      BY <1>2, <2>1, <2>2, <2>3, <2>5, SMT DEF Smaller, Cut
    <3>3. QED
      BY <3>1, <3>2, <2>6, <2>8 DEF Reached
  <2>11. PICK k \in Nat : k = n
    BY <2>1
  <2>12. ASSUME NEW i \in 1..k PROVE InPlace(i)'
    <3>1. InPlace(i)
      BY <2>1, <2>11 DEF PlanInv
    <3>2. QED
      BY <3>1, <2>6, <2>8, <2>11 DEF InPlace
  <2>13. InPlace(k + 1)'
    <3>1. cuts'[k + 1] = s /\ s.index = k /\ s.offset = offset /\ s.length = CutLength
      BY <2>8, <2>11
    <3>2. (k + 1) - 1 = k
      BY <2>11, SMT
    <3>3. offset < size
      BY <1>2 DEF Cut
    <3>4. ((k + 1) - 1) * Full = offset
      BY <3>2, <2>4, <2>11
    <3>5. QED
      BY <3>1, <3>2, <3>3, <3>4, <2>3, <2>6 DEF InPlace
  <2>14. \A i \in 1..Len(cuts') : InPlace(i)'
    <3>1. SUFFICES ASSUME NEW i \in 1..Len(cuts') PROVE InPlace(i)'
      OBVIOUS
    <3>2. i \in 1..k \/ i = k + 1
      BY <2>8, <2>11, SMT
    <3>3. QED
      BY <3>2, <2>12, <2>13
  <2>15. QED
    BY <2>1, <2>6, <2>9, <2>10, <2>14, SMT DEF PlanInv
<1>3. QED
  BY <1>1, <1>2 DEF PlanNext

THEOREM Invariance == PlanSpec => []PlanInv
BY InitInv, StepInv, PTL DEF PlanSpec

---------------------------------------------------------------------------
(* What the plan promises *)

\* Every reachable state of the loops is well typed.
THEOREM TypeCorrect == PlanSpec => []PlanTypeOK
<1>1. PlanInv => PlanTypeOK
  BY DEF PlanInv
<1>2. QED
  BY <1>1, Invariance, PTL

\* No file is cut into more slices than one compose call takes, whatever its
\* size and the policy (core/slicing.py:3-4, 83).
THEOREM FewEnoughSlices == PlanSpec => []AtMostMaxComponents
<1>1. ASSUME PlanInv PROVE AtMostMaxComponents
  <2> SUFFICES ASSUME plan = "slices" PROVE Len(cuts) <= policy.max_components
    BY DEF AtMostMaxComponents
  <2> DEFINE n == Len(cuts)
             c == policy.max_components
  <2>1. n \in Nat /\ c \in Nat \ {0} /\ size \in Nat /\ PlanTypeOK
    BY <1>1, PlanAssumption DEF PlanInv, PlanTypeOK, SizePolicies
  <2>2. CASE size = 0
    <3>1. n = 1
      BY <1>1, <2>2 DEF PlanInv, Empty
    <3>2. QED
      BY <2>1, <3>1, SMT
  <2>3. CASE size > 0 /\ n > 0
    <3>1. (n - 1) * Full < size
      <4>1. n \in 1..Len(cuts)
        BY <2>1, <2>3, SMT
      <4>2. InPlace(n)
        BY <4>1, <1>1, <2>3 DEF PlanInv
      <4>3. QED
        BY <4>2 DEF InPlace
    <3>2. /\ Full \in Nat \ {0}
          /\ CeilDiv(size, c) <= Full
      BY <2>1, <2>3, FullPositive
    <3>3. CeilDiv(size, c) \in Nat /\ size <= c * CeilDiv(size, c)
      BY <2>1, CeilCovers
    <3>4. n - 1 \in Nat
      BY <2>1, <2>3, SMT
    <3> HIDE DEF n, c
    <3>5. n - 1 < c
      BY <2>1, <3>1, <3>2, <3>3, <3>4, FewMultiples
    <3>6. QED
      BY <3>5, <2>1, SMT DEF n, c
  <2>4. QED
    BY <2>1, <2>2, <2>3, SMT
<1>2. QED
  BY <1>1, Invariance, PTL

\* The slices follow each other from byte 0 without a gap or an overlap
\* (core/slicing.py:85-93, gcs/downloader.py:63-70).
THEOREM SlicesContiguous == PlanSpec => []Contiguous
<1>1. ASSUME PlanInv PROVE Contiguous
  <2> DEFINE n == Len(cuts)
  <2>1. /\ n \in Nat /\ size \in Nat /\ offset \in Nat /\ PlanTypeOK /\ cuts \in Seq(Slice)
    BY <1>1, PlanAssumption DEF PlanInv, PlanTypeOK
  <2>2. CASE size = 0
    BY <1>1, <2>2 DEF PlanInv, Empty, Contiguous
  <2>3. CASE size > 0
    <3>1. Full \in Nat \ {0}
      BY <2>1, <2>3, FullPositive
    <3>2. \A i \in 1..n : InPlace(i)
      BY <1>1, <2>3 DEF PlanInv
    <3>3. ASSUME NEW i \in 1..n
          PROVE  /\ cuts[i].offset = (i - 1) * Full /\ cuts[i].offset \in Nat
                 /\ cuts[i].length \in Nat \ {0}
                 /\ cuts[i].offset + cuts[i].length = Smaller(i * Full, size)
                 /\ cuts[i].index = i - 1
      <4>1. InPlace(i)
        BY <3>2
      <4> DEFINE m == (i - 1) * Full
      <4>2. m \in Nat /\ i * Full = m + Full
        BY <3>1, Z3
      <4>3. m < size /\ cuts[i].offset = m /\ cuts[i].length = Smaller(Full, size - m)
        BY <4>1 DEF InPlace
      <4> HIDE DEF m
      <4>4. QED
        BY <4>1, <4>2, <4>3, <3>1, <2>1, SMT DEF Smaller, m, InPlace
    <3>4. ASSUME NEW i \in 1..n
          PROVE  cuts[i].offset = (IF i = 1 THEN 0 ELSE cuts[i - 1].offset + cuts[i - 1].length)
      <4>1. CASE i = 1
        <5>1. cuts[i].offset = (i - 1) * Full
          BY <3>3
        <5>2. QED
          BY <4>1, <5>1, <3>1, SMT
      <4>2. CASE i > 1
        <5> DEFINE j == i - 1
        <5>1. j \in 1..n
          BY <4>2, <2>1, SMT
        <5>2. cuts[j].offset + cuts[j].length = Smaller(j * Full, size)
          BY <5>1, <3>3
        <5>3. cuts[i].offset = j * Full /\ j * Full < size
          BY <3>2, <3>3 DEF InPlace
        <5>4. j * Full \in Nat
          BY <5>1, <3>1, Z3
        <5>5. QED
          BY <4>2, <5>2, <5>3, <5>4, <2>1, SMT DEF Smaller
      <4>3. QED
        BY <4>1, <4>2, SMT
    <3>5. Reached
      BY <1>1, <2>3 DEF PlanInv
    <3>6. CASE n = 0
      <4>1. cuts = <<>>
        BY <2>1, <3>6
      <4>2. offset = 0
        BY <3>5, <3>6, <3>1, <2>1, SMT DEF Reached, Smaller
      <4>3. QED
        BY <4>1, <4>2, <2>1, SMT DEF Contiguous
    <3>7. CASE n > 0
      <4>1. n \in 1..n /\ cuts # <<>>
        BY <2>1, <3>7, SMT
      <4>2. offset = cuts[n].offset + cuts[n].length
        BY <4>1, <3>3, <3>5 DEF Reached
      <4>3. offset <= size
        <5>1. n * Full \in Nat
          BY <2>1, <3>1, Z3
        <5>2. QED
          BY <5>1, <3>5, <2>1, SMT DEF Reached, Smaller
      <4>4. \A i \in 1..n : cuts[i].length > 0
        BY <3>3
      <4>5. \A i \in 1..n : cuts[i].index = i - 1
        BY <3>3
      <4>6. QED
        BY <3>4, <4>1, <4>2, <4>3, <4>4, <4>5 DEF Contiguous
    <3>8. QED
      BY <3>6, <3>7, <2>1, SMT
  <2>4. QED
    BY <2>1, <2>2, <2>3, SMT
<1>2. QED
  BY <1>1, Invariance, PTL

\* n parts of size F, the last of which begins below s and none of which ends behind
\* it but the last, are s divided by F, rounded up.
LEMMA CeilCounts ==
  ASSUME NEW s \in Nat, NEW F \in Nat \ {0}, NEW n \in Nat, (n - 1) * F < s, s <= n * F
  PROVE  CeilDiv(s, F) = n
<1> DEFINE q == (s + F - 1) \div F
<1>1. q \in Int /\ F * q <= s + F - 1 /\ s + F - 1 < F * q + F
  BY Z3 DEF q
<1> HIDE DEF q
<1>2. F * (q + 1) = F * q + F /\ F * n = n * F /\ F * (n - 1) = (n - 1) * F /\ F * n = F * (n - 1) + F
  BY <1>1, Z3
<1>3. n * F \in Int /\ (n - 1) * F \in Int /\ F * q \in Int
  BY <1>1, Z3
<1>4. F * n < F * (q + 1)
  BY <1>1, <1>2, <1>3, SMT
<1>5. F * q < F * (n + 1)
  <2>1. F * (n + 1) = F * n + F
    BY Z3
  <2>2. QED
    BY <2>1, <1>1, <1>2, <1>3, SMT
<1>6. n < q + 1
  <2>1. q + 1 > 0
    BY <1>1, Z3
  <2>2. QED
    BY <1>1, <1>4, Z3
<1>7. q < n + 1
  BY <1>1, <1>5, Z3
<1>8. q = n
  BY <1>1, <1>6, <1>7, SMT
<1>9. QED
  BY <1>8 DEF CeilDiv, q

\* The loop of plan_slices cuts what the closed form of module Slicing says
\* (core/slicing.py:76-94), which the model of the uploads reckons with.
THEOREM ClosedFormHolds == PlanSpec => []ClosedForm
<1>1. ASSUME PlanInv PROVE ClosedForm
  <2> SUFFICES ASSUME plan = "slices"
               PROVE  /\ \A i \in 1..Len(cuts) :
                           /\ cuts[i].offset = SliceOffset(policy, size, i - 1)
                           /\ cuts[i].length = SliceLength(policy, size, i - 1)
                      /\ offset = size => Len(cuts) = SliceCount(policy, size)
    BY DEF ClosedForm
  <2> DEFINE n == Len(cuts)
  <2>1. n \in Nat /\ size \in Nat /\ PlanTypeOK /\ cuts \in Seq(Slice)
    BY <1>1, PlanAssumption DEF PlanInv, PlanTypeOK
  <2>2. CASE size = 0
    <3>1. cuts = <<[index |-> 0, offset |-> 0, length |-> 0]>>
      BY <1>1, <2>2 DEF PlanInv, Empty
    <3>2. QED
      BY <2>2, <3>1 DEF SliceOffset, SliceLength, SliceCount
  <2>3. CASE size > 0
    <3>1. Full \in Nat \ {0} /\ Full = SliceSize(policy, size)
      BY <2>1, <2>3, FullPositive DEF Full
    <3>2. ASSUME NEW i \in 1..n
          PROVE  /\ cuts[i].offset = SliceOffset(policy, size, i - 1)
                 /\ cuts[i].length = SliceLength(policy, size, i - 1)
      <4>1. InPlace(i)
        BY <1>1, <2>3 DEF PlanInv
      <4>2. size # 0
        BY <2>1, <2>3, SMT
      <4>3. QED
        BY <4>1, <4>2, <3>1 DEF InPlace, SliceOffset, SliceLength
    <3>3. ASSUME offset = size PROVE n = SliceCount(policy, size)
      <4>1. Reached
        BY <1>1, <2>3 DEF PlanInv
      <4>2. n > 0
        BY <4>1, <3>3, <3>1, <2>1, <2>3, SMT DEF Reached, Smaller
      <4>3. n \in 1..Len(cuts)
        BY <4>2, <2>1, SMT
      <4>4. (n - 1) * Full < size
        <5>1. InPlace(n)
          BY <4>3, <1>1, <2>3 DEF PlanInv
        <5>2. QED
          BY <5>1 DEF InPlace
      <4>5. size <= n * Full
        <5>1. n * Full \in Nat
          BY <2>1, <3>1, Z3
        <5>2. QED
          BY <5>1, <4>1, <3>3, <2>1, SMT DEF Reached, Smaller
      <4> HIDE DEF n
      <4>6. CeilDiv(size, Full) = n
        BY <4>4, <4>5, <2>1, <3>1, CeilCounts
      <4>7. QED
        BY <4>6, <3>1, <2>1, <2>3, SMT DEF SliceCount
    <3>4. QED
      BY <3>2, <3>3
  <2>4. QED
    BY <2>1, <2>2, <2>3, SMT
<1>2. QED
  BY <1>1, Invariance, PTL

\* The slices fit, for every size of a file, every policy and every range size.
THEOREM SlicesFitAlways == PlanSpec => []SlicesFit
<1>1. Contiguous /\ AtMostMaxComponents /\ ClosedForm => SlicesFit
  BY DEF SlicesFit
<1>2. QED
  BY <1>1, SlicesContiguous, FewEnoughSlices, ClosedFormHolds, PTL
=============================================================================
