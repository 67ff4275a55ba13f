--------------------------- MODULE AdmissionProofs ---------------------------
(***************************************************************************)
(* The admission of a request, for any cluster, any policies, any request  *)
(* and any calendar.                                                       *)
(***************************************************************************)
EXTENDS Admission, DataLemmas

-----------------------------------------------------------------------------
(***************************************************************************)
(* The names of a list in order.                                           *)
(***************************************************************************)
\* How many of the names that are chosen come before n, and up to it.
Before(names, chosen, n) == Cardinality({i \in chosen : names[i] < n})
UpTo(names, chosen, n)   == Cardinality({i \in chosen : names[i] <= n})

\* The places of a list where a member of S is.
PlacesOf(names, S) == {i \in DOMAIN names : names[i] \in S}

\* The places of some names in a list: how many there are.
LEMMA PlacesAreFinite ==
  ASSUME NEW T, NEW names \in Seq(T), NEW S
  PROVE  /\ PlacesOf(names, S) \in SUBSET (1 .. Len(names))
         /\ IsFiniteSet(PlacesOf(names, S))
         /\ Cardinality(PlacesOf(names, S)) \in Nat
         /\ Cardinality(PlacesOf(names, S)) = Count(names, S)
         /\ \A i \in PlacesOf(names, S) : names[i] \in T
<1>1. PlacesOf(names, S) \in SUBSET (1 .. Len(names)) /\ Len(names) \in Nat
  BY DEF PlacesOf
<1>2. IsFiniteSet(1 .. Len(names))
  BY <1>1, FS_Interval
<1>3. IsFiniteSet(PlacesOf(names, S))
  BY <1>1, <1>2, FS_Subset
<1>4. Cardinality(PlacesOf(names, S)) \in Nat
  BY <1>3, FS_CardinalityType
<1>5. QED
  BY <1>1, <1>3, <1>4 DEF PlacesOf, Count

\* The names between two are counted by the difference.
LEMMA RanksAddUp ==
  ASSUME NEW names, NEW chosen, IsFiniteSet(chosen), \A i \in chosen : names[i] \in Nat,
         NEW n \in Nat
  PROVE  /\ Before(names, chosen, n) \in Nat /\ UpTo(names, chosen, n) \in Nat
         /\ Before(names, chosen, n) <= UpTo(names, chosen, n)
         /\ UpTo(names, chosen, n) <= Cardinality(chosen)
         /\ Cardinality({i \in chosen : names[i] = n})
              = UpTo(names, chosen, n) - Before(names, chosen, n)
         /\ \A m \in Nat : m < n => UpTo(names, chosen, m) <= Before(names, chosen, n)
<1> DEFINE L == {i \in chosen : names[i] < n}
           U == {i \in chosen : names[i] <= n}
           E == {i \in chosen : names[i] = n}
<1>1. L \in SUBSET chosen /\ U \in SUBSET chosen /\ E \in SUBSET chosen /\ L \in SUBSET U
  OBVIOUS
<1>2. /\ IsFiniteSet(L) /\ IsFiniteSet(U) /\ IsFiniteSet(E)
      /\ Cardinality(U) <= Cardinality(chosen)
  BY <1>1, FS_Subset
<1>3. Cardinality(L) \in Nat /\ Cardinality(U) \in Nat /\ Cardinality(E) \in Nat
  BY <1>2, FS_CardinalityType
<1>4. U = L \cup E /\ L \cap E = {}
  OBVIOUS
<1>5. Cardinality(U) = Cardinality(L) + Cardinality(E)
  <2>1. Cardinality(L \cup E) = Cardinality(L) + Cardinality(E) - Cardinality({})
    BY <1>2, <1>4, FS_Union
  <2> HIDE DEF L, U, E
  <2>2. QED
    BY <1>3, <1>4, <2>1, FS_EmptySet
<1>6. ASSUME NEW m \in Nat, m < n PROVE UpTo(names, chosen, m) <= Cardinality(L)
  <2>1. {i \in chosen : names[i] <= m} \in SUBSET L
    BY <1>6
  <2>2. QED
    BY <1>2, <2>1, FS_Subset DEF UpTo
<1> HIDE DEF L, U, E
<1>7. Cardinality(L) <= Cardinality(U) /\ Cardinality(E) = Cardinality(U) - Cardinality(L)
  BY <1>3, <1>5
<1>8. QED
  BY <1>2, <1>3, <1>6, <1>7 DEF L, U, E, Before, UpTo

\* Each rank belongs to one name.
LEMMA RankHasName ==
  ASSUME NEW names, NEW chosen, IsFiniteSet(chosen), \A i \in chosen : names[i] \in Nat,
         NEW k \in 1 .. Cardinality(chosen)
  PROVE  /\ \E n \in {names[i] : i \in chosen} :
              Before(names, chosen, n) < k /\ k <= UpTo(names, chosen, n)
         /\ \A m, n \in Nat :
              /\ Before(names, chosen, n) < k /\ k <= UpTo(names, chosen, n)
              /\ Before(names, chosen, m) < k /\ k <= UpTo(names, chosen, m)
              => m = n
<1>0. Cardinality(chosen) \in Nat
  BY FS_CardinalityType
<1>a. \A n \in Nat :
        /\ Before(names, chosen, n) \in Nat /\ UpTo(names, chosen, n) \in Nat
        /\ \A m \in Nat : m < n => UpTo(names, chosen, m) <= Before(names, chosen, n)
  BY RanksAddUp
<1>b. k \in Nat
  BY <1>0
<1> DEFINE Late == {n \in Nat : k <= UpTo(names, chosen, n)}
<1>1. Late # {}
  <2>1. chosen # {}
    BY <1>0, FS_EmptySet
  <2> DEFINE All == {names[i] : i \in chosen}
  <2>2. All \in SUBSET Int /\ All # {}
    BY <2>1
  <2>3. IsFiniteSet(All)
    <3>1. [i \in chosen |-> names[i]] \in Surjection(chosen, All)
      BY DEF Surjection
    <3>2. QED
      BY <3>1, FS_Surjection
  <2> HIDE DEF All
  <2>4. Max(All) \in All /\ \A n \in All : Max(All) >= n
    BY <2>2, <2>3, FiniteExtremes
  <2>5. Max(All) \in Nat /\ \A i \in chosen : names[i] <= Max(All)
    BY <2>4 DEF All
  <2>6. {i \in chosen : names[i] <= Max(All)} = chosen
    BY <2>5
  <2>7. UpTo(names, chosen, Max(All)) = Cardinality(chosen)
    BY <2>6 DEF UpTo
  <2>8. QED
    BY <1>0, <2>5, <2>7
<1>2. PICK n \in Late : \A m \in Late : n <= m
  BY <1>1, LeastNatural
<1> HIDE DEF Late
<1>3. n \in Nat /\ k <= UpTo(names, chosen, n)
  BY <1>2 DEF Late
<1>4. Before(names, chosen, n) < k
  <2> SUFFICES ASSUME k <= Before(names, chosen, n) PROVE FALSE
    BY <1>3, <1>a, <1>b
  <2> DEFINE L == {i \in chosen : names[i] < n}
             Low == {names[i] : i \in L}
  <2>1. IsFiniteSet(L)
    BY FS_Subset
  <2>2. L # {}
    BY FS_EmptySet DEF Before
  <2>3. Low \in SUBSET Int /\ Low # {}
    BY <2>2
  <2>4. IsFiniteSet(Low)
    <3>1. [i \in L |-> names[i]] \in Surjection(L, Low)
      BY DEF Surjection
    <3>2. QED
      BY <2>1, <3>1, FS_Surjection
  <2> HIDE DEF Low
  <2>5. Max(Low) \in Low /\ \A m \in Low : Max(Low) >= m
    BY <2>3, <2>4, FiniteExtremes
  <2>6. Max(Low) \in Nat /\ Max(Low) < n
    BY <2>5 DEF Low
  <2>7. \A i \in L : names[i] <= Max(Low)
    BY <2>5 DEF Low
  <2>8. L = {i \in chosen : names[i] <= Max(Low)}
    BY <1>3, <2>6, <2>7
  <2>9. UpTo(names, chosen, Max(Low)) = Before(names, chosen, n)
    BY <2>8 DEF UpTo, Before
  <2>10. Max(Low) \in Late
    BY <2>6, <2>9 DEF Late
  <2>11. QED
    BY <1>2, <1>3, <2>6, <2>10
<1>5. n \in {names[i] : i \in chosen}
  <2> SUFFICES ASSUME \A i \in chosen : names[i] # n PROVE FALSE
    OBVIOUS
  <2>1. {i \in chosen : names[i] = n} = {}
    OBVIOUS
  <2>2. UpTo(names, chosen, n) - Before(names, chosen, n) = 0
    BY <1>3, <2>1, RanksAddUp, FS_EmptySet
  <2>3. QED
    BY <1>3, <1>4, <1>a, <1>b, <2>2
<1>6. ASSUME NEW a \in Nat, NEW b \in Nat, a < b,
             Before(names, chosen, a) < k, k <= UpTo(names, chosen, a),
             Before(names, chosen, b) < k, k <= UpTo(names, chosen, b)
      PROVE  FALSE
  BY <1>6, <1>a, <1>b
<1>7. \A a, b \in Nat :
        /\ Before(names, chosen, b) < k /\ k <= UpTo(names, chosen, b)
        /\ Before(names, chosen, a) < k /\ k <= UpTo(names, chosen, a)
        => a = b
  <2> SUFFICES ASSUME NEW a \in Nat, NEW b \in Nat,
                      Before(names, chosen, b) < k, k <= UpTo(names, chosen, b),
                      Before(names, chosen, a) < k, k <= UpTo(names, chosen, a), a # b
               PROVE FALSE
    OBVIOUS
  <2>1. CASE a < b
    BY <1>6, <2>1
  <2>2. CASE b < a
    BY <1>6, <2>2
  <2>3. QED
    BY <2>1, <2>2
<1>8. QED
  BY <1>3, <1>4, <1>5, <1>7

-----------------------------------------------------------------------------
\* The k-th name in order is the one of that rank.
LEMMA SortedInRanks ==
  ASSUME NEW names \in Seq(Nat), NEW S
  PROVE  /\ SortedIn(names, S) \in Seq(Nat)
         /\ Len(SortedIn(names, S)) = Cardinality(PlacesOf(names, S))
         /\ \A k \in 1 .. Cardinality(PlacesOf(names, S)) :
              LET n == SortedIn(names, S)[k]
              IN  /\ n \in {names[i] : i \in PlacesOf(names, S)}
                  /\ Before(names, PlacesOf(names, S), n) < k
                  /\ k <= UpTo(names, PlacesOf(names, S), n)
<1> DEFINE P == PlacesOf(names, S)
           R(k, n) == Before(names, P, n) < k /\ k <= UpTo(names, P, n)
           r == [k \in 1 .. Cardinality(P) |-> CHOOSE n \in {names[i] : i \in P} : R(k, n)]
<1>1. SortedIn(names, S) = r
  BY DEF SortedIn, PlacesOf, Before, UpTo
<1>2. IsFiniteSet(P) /\ Cardinality(P) \in Nat /\ \A i \in P : names[i] \in Nat
  BY PlacesAreFinite
<1>3. \A k \in 1 .. Cardinality(P) : \E n \in {names[i] : i \in P} : R(k, n)
  BY <1>2, RankHasName
<1> HIDE DEF P, R
<1>4. \A k \in 1 .. Cardinality(P) : r[k] \in {names[i] : i \in P} /\ R(k, r[k])
  BY <1>3
<1>5. {names[i] : i \in P} \subseteq Nat
  BY <1>2
<1>6. r \in Seq(Nat) /\ Len(r) = Cardinality(P)
  <2>1. r \in [1 .. Cardinality(P) -> Nat]
    BY <1>4, <1>5
  <2> HIDE DEF r
  <2>2. QED
    BY <1>2, <2>1
<1>7. QED
  BY <1>1, <1>4, <1>6 DEF P, R

\* In order, and each name that is chosen as often as it is named.
LEMMA SortedInOrders ==
  ASSUME NEW names \in Seq(Nat), NEW S
  PROVE  /\ Ascending(SortedIn(names, S))
         /\ \A n \in Nat : Cardinality(PlacesOf(SortedIn(names, S), {n}))
                             = IF n \in S THEN Count(names, {n}) ELSE 0
<1> DEFINE P == PlacesOf(names, S)
           r == SortedIn(names, S)
<1>1. IsFiniteSet(P) /\ Cardinality(P) \in Nat /\ \A i \in P : names[i] \in Nat
  BY PlacesAreFinite
<1>2. r \in Seq(Nat) /\ Len(r) = Cardinality(P) /\ DOMAIN r = 1 .. Cardinality(P)
  BY SortedInRanks
<1>3. \A k \in DOMAIN r : /\ r[k] \in {names[i] : i \in P}
                          /\ Before(names, P, r[k]) < k /\ k <= UpTo(names, P, r[k])
  BY <1>2, SortedInRanks
<1> HIDE DEF r
<1>4. \A n \in Nat : /\ Before(names, P, n) \in Nat /\ UpTo(names, P, n) \in Nat
                     /\ UpTo(names, P, n) <= Cardinality(P)
                     /\ \A m \in Nat : m < n => UpTo(names, P, m) <= Before(names, P, n)
  BY <1>1, RanksAddUp
<1>5. Ascending(r)
  <2> SUFFICES ASSUME NEW i \in DOMAIN r, NEW j \in DOMAIN r, i < j, r[j] < r[i] PROVE FALSE
    BY <1>2 DEF Ascending
  <2>1. r[i] \in Nat /\ r[j] \in Nat
    BY <1>2
  <2>2. UpTo(names, P, r[j]) <= Before(names, P, r[i])
    BY <1>4, <2>1
  <2>3. Before(names, P, r[i]) < i /\ j <= UpTo(names, P, r[j])
    BY <1>3
  <2>4. Before(names, P, r[i]) \in Nat /\ UpTo(names, P, r[j]) \in Nat
    BY <1>4, <2>1
  <2>5. i \in Nat /\ j \in Nat
    BY <1>2
  <2> HIDE DEF P
  <2>6. QED
    BY <2>2, <2>3, <2>4, <2>5
<1>6. ASSUME NEW n \in Nat
      PROVE  Cardinality(PlacesOf(r, {n})) = IF n \in S THEN Count(names, {n}) ELSE 0
  <2>1. CASE n \notin S
    <3>1. PlacesOf(r, {n}) = {}
      BY <1>3, <2>1 DEF PlacesOf
    <3>2. QED
      BY <2>1, <3>1, FS_EmptySet
  <2>2. CASE n \in S
    <3> DEFINE E == {i \in P : names[i] = n}
               lo == Before(names, P, n)
               hi == UpTo(names, P, n)
    <3>1. E = {i \in DOMAIN names : names[i] \in {n}}
      BY <2>2 DEF PlacesOf
    <3>2. Cardinality(E) = Count(names, {n})
      BY <3>1 DEF Count
    <3>3. Cardinality(E) = hi - lo /\ lo <= hi
      BY <1>1, RanksAddUp
    <3>4. lo \in Nat /\ hi \in Nat /\ hi <= Cardinality(P)
      BY <1>4
    <3>5. PlacesOf(r, {n}) \subseteq lo + 1 .. hi
      <4>1. ASSUME NEW k \in DOMAIN r, r[k] = n PROVE k \in lo + 1 .. hi
        BY <1>2, <1>3, <3>4, <4>1
      <4>2. QED
        BY <4>1 DEF PlacesOf
    <3>6. ASSUME NEW k \in lo + 1 .. hi PROVE k \in PlacesOf(r, {n})
      <4>1. k \in 1 .. Cardinality(P) /\ lo < k /\ k <= hi
        BY <1>1, <3>4
      <4>2. /\ r[k] \in Nat /\ Before(names, P, r[k]) < k /\ k <= UpTo(names, P, r[k])
        BY <1>2, <1>3, <4>1
      <4>3. r[k] = n
        BY <1>1, <4>1, <4>2, RankHasName
      <4>4. QED
        BY <1>2, <4>1, <4>3 DEF PlacesOf
    <3>7. PlacesOf(r, {n}) = lo + 1 .. hi
      BY <3>5, <3>6
    <3> HIDE DEF E, lo, hi
    <3>8. Cardinality(lo + 1 .. hi) = IF lo + 1 > hi THEN 0 ELSE hi - (lo + 1) + 1
      BY <3>4, FS_Interval
    <3>9. QED
      BY <2>2, <3>2, <3>3, <3>4, <3>7, <3>8
  <2>3. QED
    BY <2>1, <2>2
<1>7. QED
  BY <1>5, <1>6 DEF r

-----------------------------------------------------------------------------
(***************************************************************************)
(* Batches of a size.                                                      *)
(***************************************************************************)
\* How many names the batches before the b-th one have, and how many batches there are.
Offset(b, size)     == (b - 1) * size
Chunks(names, size) == (Len(names) + size - 1) \div size

\* Where the batch b begins in the list.
LEMMA Offsets ==
  ASSUME NEW size \in Nat \ {0}, NEW b \in Int
  PROVE  /\ Offset(b, size) \in Int /\ (b >= 1 => Offset(b, size) >= 0)
         /\ Offset(b + 1, size) \in Int /\ Offset(b + 1, size) = Offset(b, size) + size
BY DEF Offset

\* Later batches begin later.
LEMMA OffsetOrder ==
  ASSUME NEW size \in Nat \ {0}, NEW b \in Int, NEW c \in Int
  PROVE  /\ b <= c => Offset(b, size) <= Offset(c, size)
         /\ Offset(b, size) < Offset(c, size) => b < c
BY DEF Offset

\* How many nodes the first b batches hold.
LEMMA OffsetIs ==
  ASSUME NEW size \in Nat \ {0}, NEW b \in Int
  PROVE  Offset(b + 1, size) = size * b
BY DEF Offset

\* The last batch is the first that reaches the end of the list.
LEMMA ChunkCount ==
  ASSUME NEW T, NEW names \in Seq(T), NEW size \in Nat \ {0}
  PROVE  /\ Chunks(names, size) \in Nat
         /\ Offset(Chunks(names, size), size) < Len(names)
         /\ Len(names) <= Offset(Chunks(names, size) + 1, size)
<1> DEFINE count == Chunks(names, size)
<1>1. Len(names) \in Nat
  OBVIOUS
<1>2. count \in Nat /\ count * size <= Len(names) + size - 1 /\ Len(names) <= count * size
  BY <1>1, Ceiling DEF Chunks
<1> HIDE DEF count
<1>3. Offset(count, size) \in Int /\ Offset(count + 1, size) = Offset(count, size) + size
  <2>1. count \in Int
    BY <1>2
  <2>2. QED
    BY <2>1, Offsets
<1>4. Offset(count + 1, size) = count * size
  BY <1>2 DEF Offset
<1>5. QED
  BY <1>1, <1>2, <1>3, <1>4 DEF count

\* The b-th batch has the names from its offset on, and a full batch of them unless it
\* is the last.
LEMMA ChunkBatch ==
  ASSUME NEW T, NEW names \in Seq(T), NEW size \in Nat \ {0},
         NEW b \in 1 .. Chunks(names, size)
  PROVE  LET batch == Chunk(names, size)[b]
         IN  /\ batch \in Seq(T) /\ Len(batch) \in 1 .. size
             /\ Len(batch) = IF Offset(b + 1, size) <= Len(names) THEN size
                             ELSE Len(names) - Offset(b, size)
             /\ \A i \in 1 .. Len(batch) :
                  /\ Offset(b, size) + i \in 1 .. Len(names)
                  /\ batch[i] = names[Offset(b, size) + i]
<1> DEFINE lo == Offset(b, size)
           hi == Offset(b + 1, size)
           last == Min({hi, Len(names)})
           batch == Chunk(names, size)[b]
<1>1. Len(names) \in Nat /\ Chunks(names, size) \in Nat /\ b \in Nat /\ b >= 1
  BY ChunkCount
<1>2. lo \in Nat /\ hi = lo + size
  BY <1>1, Offsets
<1>3. lo <= Offset(Chunks(names, size), size)
  <2>1. b \in Int /\ Chunks(names, size) \in Int /\ b <= Chunks(names, size)
    BY <1>1
  <2>2. QED
    BY <2>1, OffsetOrder
<1>4. Offset(Chunks(names, size), size) \in Int /\ Offset(Chunks(names, size), size) < Len(names)
  BY <1>1, Offsets, ChunkCount
<1>5. batch = SubSeq(names, lo + 1, last)
  <2>1. batch = SubSeq(names, (b - 1) * size + 1, Min({b * size, Len(names)}))
    BY DEF Chunk, Chunks
  <2>2. hi = b * size
    BY <1>1 DEF Offset
  <2>3. QED
    BY <2>1, <2>2 DEF Offset
<1> HIDE DEF lo, hi, batch
<1>6. lo < Len(names)
  BY <1>1, <1>2, <1>3, <1>4
<1>7. last = IF hi <= Len(names) THEN hi ELSE Len(names)
  BY <1>1, <1>2, OfTwo
<1> HIDE DEF last
<1>8. last \in Nat /\ lo < last /\ last <= Len(names) /\ last - lo <= size
  BY <1>1, <1>2, <1>6, <1>7
<1>9. /\ batch \in Seq(T) /\ Len(batch) = last - lo
      /\ \A i \in 1 .. last - lo : batch[i] = names[lo + i]
  BY <1>2, <1>5, <1>8
<1>10. last - lo = IF hi <= Len(names) THEN size ELSE Len(names) - lo
  BY <1>1, <1>2, <1>7
<1>11. \A i \in 1 .. last - lo : lo + i \in 1 .. Len(names)
  BY <1>1, <1>2, <1>8
<1>12. Len(batch) \in 1 .. size
  BY <1>2, <1>8, <1>9
<1>13. QED
  BY <1>9, <1>10, <1>11, <1>12 DEF lo, hi, batch

BatchIs(T, names, size, b, batch) ==
  /\ batch \in Seq(T) /\ Len(batch) \in 1 .. size
  /\ Len(batch) = IF Offset(b + 1, size) <= Len(names) THEN size
                  ELSE Len(names) - Offset(b, size)
  /\ \A i \in 1 .. Len(batch) : /\ Offset(b, size) + i \in 1 .. Len(names)
                                /\ batch[i] = names[Offset(b, size) + i]

\* What a batch holds of the list, by place.
LEMMA BatchFull ==
  ASSUME NEW T, NEW names \in Seq(T), NEW size \in Nat \ {0},
         NEW b \in 1 .. Chunks(names, size)
  PROVE  BatchIs(T, names, size, b, Chunk(names, size)[b])
BY ChunkBatch DEF BatchIs

\* A list in batches is a list of lists.
LEMMA ChunkTypes ==
  ASSUME NEW T, NEW names \in Seq(T), NEW size \in Nat \ {0}
  PROVE  /\ Chunk(names, size) \in Seq(Seq(T))
         /\ DOMAIN Chunk(names, size) = 1 .. Chunks(names, size)
<1>1. Chunks(names, size) \in Nat
  BY ChunkCount
<1>2. DOMAIN Chunk(names, size) = 1 .. Chunks(names, size)
  BY DEF Chunk, Chunks
<1>3. Chunk(names, size) = [b \in 1 .. Chunks(names, size) |-> Chunk(names, size)[b]]
  BY DEF Chunk, Chunks
<1>4. Chunk(names, size) \in [1 .. Chunks(names, size) -> Seq(T)]
  BY <1>3, ChunkBatch
<1>5. QED
  BY <1>1, <1>2, <1>4

\* Each place of the list is one place of one batch.
LEMMA ChunkSharesOut ==
  ASSUME NEW T, NEW names \in Seq(T), NEW size \in Nat \ {0}, NEW n
  PROVE  Cardinality(Places(Chunk(names, size), n)) = Count(names, {n})
<1> DEFINE count == Chunks(names, size)
           batches == Chunk(names, size)
           From == PlacesOf(names, {n})
           To == Places(batches, n)
           f == [p \in To |-> Offset(p[1], size) + p[2]]
<1>1. count \in Nat /\ Len(names) \in Nat /\ Len(names) <= Offset(count + 1, size)
  BY ChunkCount
<1>2. DOMAIN batches = 1 .. count
  BY ChunkTypes
<1>3. ASSUME NEW b \in 1 .. count
      PROVE  /\ batches[b] \in Seq(T) /\ Len(batches[b]) \in 1 .. size
             /\ Len(batches[b]) = IF Offset(b + 1, size) <= Len(names) THEN size
                                  ELSE Len(names) - Offset(b, size)
             /\ \A i \in 1 .. Len(batches[b]) : /\ Offset(b, size) + i \in 1 .. Len(names)
                                                /\ batches[b][i] = names[Offset(b, size) + i]
  BY ChunkBatch
<1>4. \A b \in 1 .. count : \A i \in 1 .. Len(batches[b]) :
        Offset(b, size) + i \in 1 .. Len(names) /\ batches[b][i] = names[Offset(b, size) + i]
  BY <1>3
<1> HIDE DEF count, batches
<1>6. \A p : p \in To <=> /\ p = <<p[1], p[2]>> /\ p[1] \in 1 .. count
                          /\ p[2] \in 1 .. Len(batches[p[1]]) /\ batches[p[1]][p[2]] = n
  <2>1. \A b \in 1 .. count : DOMAIN batches[b] = 1 .. Len(batches[b])
    BY <1>3
  <2>2. QED
    BY <1>2, <2>1 DEF Places
<1>7. \A p \in To : f[p] \in From
  <2> SUFFICES ASSUME NEW p \in To PROVE Offset(p[1], size) + p[2] \in From
    OBVIOUS
  <2>1. p[1] \in 1 .. count /\ p[2] \in 1 .. Len(batches[p[1]]) /\ batches[p[1]][p[2]] = n
    BY <1>6
  <2>2. Offset(p[1], size) + p[2] \in 1 .. Len(names) /\ names[Offset(p[1], size) + p[2]] = n
    BY <1>4, <2>1
  <2>3. QED
    BY <2>2 DEF PlacesOf
<1>8. ASSUME NEW p \in To, NEW q \in To, f[p] = f[q] PROVE p = q
  <2>1. /\ p[1] \in 1 .. count /\ q[1] \in 1 .. count
        /\ p[2] \in 1 .. Len(batches[p[1]]) /\ q[2] \in 1 .. Len(batches[q[1]])
        /\ p = <<p[1], p[2]>> /\ q = <<q[1], q[2]>>
    BY <1>6
  <2>2. /\ p[1] \in Int /\ q[1] \in Int /\ p[2] \in Int /\ q[2] \in Int
        /\ p[2] - 1 \in 0 .. size - 1 /\ q[2] - 1 \in 0 .. size - 1
    <3>1. \A b \in 1 .. count : b \in Int /\ Len(batches[b]) \in 1 .. size
      BY <1>1, <1>3
    <3>2. QED
      BY <2>1, <3>1
  <2>3. Offset(p[1], size) + p[2] = Offset(q[1], size) + q[2]
    BY <1>8
  <2> DEFINE x == p[1] - 1
             y == q[1] - 1
             u == p[2] - 1
             v == q[2] - 1
  <2>4. x \in Int /\ y \in Int /\ p[1] = x + 1 /\ q[1] = y + 1
    BY <2>2
  <2>u. u \in 0 .. size - 1 /\ v \in 0 .. size - 1 /\ p[2] = u + 1 /\ q[2] = v + 1
    BY <2>2
  <2> HIDE DEF x, y, u, v
  <2>5. Offset(p[1], size) = size * x /\ Offset(q[1], size) = size * y
    BY <2>4, OffsetIs
  <2>6. size * x + u = size * y + v
    <3>1. size * x \in Int /\ size * y \in Int
      BY <2>4
    <3>2. QED
      BY <2>3, <2>4, <2>5, <2>u, <3>1
  <2>7. x = y /\ u = v
    BY <2>4, <2>6, <2>u, PartUnique
  <2>8. QED
    BY <2>1, <2>2, <2>4, <2>7, <2>u
<1>9. ASSUME NEW i \in From PROVE \E p \in To : f[p] = i
  <2>1. i \in 1 .. Len(names) /\ names[i] = n
    BY DEF PlacesOf
  <2> DEFINE q == (i - 1) \div size
             r == (i - 1) % size
  <2>a. i \in Int /\ i - 1 \in Int
    BY <2>1
  <2>2. q \in Int /\ r \in 0 .. size - 1 /\ i - 1 = size * q + r
    BY <2>a, Division
  <2> HIDE DEF q, r
  <2>3. q >= 0
    BY <1>1, <2>1, <2>2
  <2>4. /\ Offset(q + 1, size) \in Int /\ Offset(q + 1, size) = size * q
        /\ Offset(q + 1 + 1, size) = Offset(q + 1, size) + size
    <3>1. q + 1 \in Int /\ q + 1 - 1 = q
      BY <2>2
    <3>2. Offset(q + 1, size) = size * q
      BY <2>2, OffsetIs
    <3>3. QED
      BY <3>1, <3>2, Offsets
  <2>b. Offset(q + 1, size) + (r + 1) = i
    BY <2>a, <2>2, <2>4
  <2>c. count + 1 \in Int /\ Offset(count + 1, size) \in Int
    BY <1>1, Offsets
  <2>5. Offset(q + 1, size) < Offset(count + 1, size)
    <3>1. Offset(q + 1, size) < i /\ i <= Len(names)
      BY <1>1, <2>1, <2>2, <2>4, <2>b
    <3>2. QED
      BY <1>1, <2>a, <2>4, <2>c, <3>1
  <2>6. q + 1 \in 1 .. count
    <3>1. q + 1 < count + 1
      <4>1. q + 1 \in Int
        BY <2>2
      <4>2. QED
        BY <2>5, <2>c, <4>1, OffsetOrder
    <3>2. QED
      BY <1>1, <2>2, <2>3, <3>1
  <2>7. r + 1 \in 1 .. Len(batches[q + 1])
    <3>2. CASE Offset(q + 1 + 1, size) <= Len(names)
      BY <1>3, <2>2, <2>6, <3>2
    <3>3. CASE ~(Offset(q + 1 + 1, size) <= Len(names))
      <4>1. Len(batches[q + 1]) = Len(names) - Offset(q + 1, size)
        BY <1>3, <2>6, <3>3
      <4>2. QED
        BY <1>1, <2>1, <2>2, <2>4, <2>b, <4>1
    <3>4. QED
      BY <3>2, <3>3
  <2>9. batches[q + 1][r + 1] = n
    BY <1>4, <2>1, <2>6, <2>7, <2>b
  <2>10. <<q + 1, r + 1>> \in To
    BY <1>6, <2>6, <2>7, <2>9
  <2>11. f[<<q + 1, r + 1>>] = i
    BY <2>b, <2>10
  <2>12. QED
    BY <2>10, <2>11
<1> HIDE DEF To, f
<1>10. f \in Bijection(To, From)
  <2>1. f \in [To -> From]
    BY <1>7 DEF f
  <2>2. IsInjective(f)
    BY <1>8, <2>1 DEF IsInjective
  <2>3. QED
    BY <1>9, <2>1, <2>2 DEF Bijection, Injection, Surjection
<1>11. IsFiniteSet(From) /\ Cardinality(From) = Count(names, {n})
  BY PlacesAreFinite
<1>12. IsFiniteSet(To)
  BY <1>10, <1>11, FS_Injection DEF Bijection
<1>13. Cardinality(From) = Cardinality(To)
  BY <1>10, <1>12, FS_Bijection DEF ExistsBijection
<1>14. QED
  BY <1>11, <1>13 DEF To, batches

\* The batches are in the order of the list, and only the last may be smaller.
LEMMA ChunkInOrder ==
  ASSUME NEW T, NEW names \in Seq(T), NEW size \in Nat \ {0}, T \subseteq Nat,
         Ascending(names)
  PROVE  LET batches == Chunk(names, size)
         IN  /\ \A b \in DOMAIN batches : Ascending(batches[b])
             /\ \A b, c \in DOMAIN batches : b < c =>
                  /\ Len(batches[b]) >= Len(batches[c])
                  /\ \A m \in ToSet(batches[b]), n \in ToSet(batches[c]) : m <= n
<1> DEFINE count == Chunks(names, size)
           batches == Chunk(names, size)
<1>1. count \in Nat /\ Len(names) \in Nat /\ Offset(count, size) < Len(names)
  BY ChunkCount
<1>2. DOMAIN batches = 1 .. count
  BY ChunkTypes
<1>3. ASSUME NEW b \in 1 .. count
      PROVE  /\ batches[b] \in Seq(T) /\ Len(batches[b]) \in 1 .. size
             /\ Len(batches[b]) = IF Offset(b + 1, size) <= Len(names) THEN size
                                  ELSE Len(names) - Offset(b, size)
             /\ \A i \in 1 .. Len(batches[b]) : /\ Offset(b, size) + i \in 1 .. Len(names)
                                                /\ batches[b][i] = names[Offset(b, size) + i]
  <2>1. BatchIs(T, names, size, b, batches[b])
    BY BatchFull
  <2> HIDE DEF batches
  <2>2. QED
    BY <2>1 DEF BatchIs
<1>4. \A b \in 1 .. count : \A i \in 1 .. Len(batches[b]) :
        Offset(b, size) + i \in 1 .. Len(names) /\ batches[b][i] = names[Offset(b, size) + i]
  BY <1>3
<1>6. \A b, c \in Int : b <= c => Offset(b, size) <= Offset(c, size)
  BY OffsetOrder
<1> HIDE DEF count, batches
<1>7. \A b \in 1 .. count : DOMAIN batches[b] = 1 .. Len(batches[b])
  BY <1>3
<1>8. \A i, j \in 1 .. Len(names) : i < j => names[i] <= names[j]
  BY DEF Ascending
<1>9. ASSUME NEW b \in 1 .. count PROVE Ascending(batches[b])
  <2> SUFFICES ASSUME NEW i \in 1 .. Len(batches[b]), NEW j \in 1 .. Len(batches[b]), i < j
               PROVE  batches[b][i] <= batches[b][j]
    BY <1>7 DEF Ascending
  <2>1. /\ Offset(b, size) + i \in 1 .. Len(names) /\ Offset(b, size) + j \in 1 .. Len(names)
        /\ batches[b][i] = names[Offset(b, size) + i] /\ batches[b][j] = names[Offset(b, size) + j]
    BY <1>4
  <2>2. Offset(b, size) \in Int /\ i \in Int /\ j \in Int
    BY <1>1, <1>3, Offsets
  <2>3. Offset(b, size) + i < Offset(b, size) + j
    BY <2>2
  <2>4. QED
    BY <1>8, <2>1, <2>3
<1>10. ASSUME NEW b \in 1 .. count, NEW c \in 1 .. count, b < c
       PROVE  /\ Len(batches[b]) >= Len(batches[c])
              /\ \A m \in ToSet(batches[b]), n \in ToSet(batches[c]) : m <= n
  <2>1. b \in Int /\ c \in Int /\ b + 1 <= c /\ c <= count
    BY <1>1, <1>10
  <2>2. Offset(b + 1, size) <= Offset(c, size) /\ Offset(c, size) <= Offset(count, size)
    BY <1>1, <1>6, <2>1
  <2>3. /\ Offset(b, size) \in Int /\ Offset(b + 1, size) = Offset(b, size) + size
        /\ Offset(c, size) \in Int /\ Offset(count, size) \in Int
    <3>1. b \in Int /\ c \in Int /\ count \in Int
      BY <1>1, <2>1
    <3>2. QED
      BY <3>1, Offsets
  <2>4. Offset(b + 1, size) <= Len(names)
    BY <1>1, <2>2, <2>3
  <2>5. Len(batches[b]) = size /\ Len(batches[c]) <= size /\ Len(batches[c]) \in Nat
    BY <1>3, <2>4
  <2>6. ASSUME NEW i \in 1 .. Len(batches[b]), NEW j \in 1 .. Len(batches[c])
        PROVE  batches[b][i] <= batches[c][j]
    <3>1. /\ Offset(b, size) + i \in 1 .. Len(names) /\ Offset(c, size) + j \in 1 .. Len(names)
          /\ batches[b][i] = names[Offset(b, size) + i]
          /\ batches[c][j] = names[Offset(c, size) + j]
      BY <1>4
    <3>2. i <= size /\ i \in Nat /\ j \in Nat /\ j >= 1
      BY <2>5
    <3>3. Offset(b, size) + i < Offset(c, size) + j
      BY <2>2, <2>3, <3>2
    <3>4. QED
      BY <1>8, <3>1, <3>3
  <2>7. \A m \in ToSet(batches[b]), n \in ToSet(batches[c]) : m <= n
    BY <1>7, <2>6 DEF ToSet
  <2>8. QED
    BY <2>5, <2>7
<1>11. QED
  BY <1>2, <1>9, <1>10 DEF batches

-----------------------------------------------------------------------------
(***************************************************************************)
(* Batches by group.                                                       *)
(***************************************************************************)
\* What is put in order are names of the list, all that are chosen.
LEMMA SortedInTypes ==
  ASSUME NEW T \in SUBSET Nat, NEW names \in Seq(T), NEW S
  PROVE  /\ SortedIn(names, S) \in Seq(T)
         /\ Len(SortedIn(names, S)) = Count(names, S)
         /\ ToSet(SortedIn(names, S)) = ToSet(names) \cap S
<1> DEFINE r == SortedIn(names, S)
           P == PlacesOf(names, S)
<1>0. names \in Seq(Nat)
  BY SeqGrows
<1>1. Cardinality(P) \in Nat /\ Cardinality(P) = Count(names, S)
  BY PlacesAreFinite
<1>2. r \in Seq(Nat) /\ Len(r) = Cardinality(P)
  BY <1>0, SortedInRanks
<1>3. \A k \in 1 .. Cardinality(P) : r[k] \in {names[i] : i \in P}
  BY <1>0, SortedInRanks
<1>4. \A i \in P : i \in DOMAIN names /\ names[i] \in T /\ names[i] \in S
  BY DEF PlacesOf
<1> HIDE DEF r, P
<1>5. r \in Seq(T)
  <2>1. r \in [1 .. Cardinality(P) -> T]
    BY <1>1, <1>2, <1>3, <1>4
  <2>2. QED
    BY <1>1, <2>1
<1>6. ToSet(r) \subseteq ToSet(names) \cap S
  BY <1>1, <1>2, <1>3, <1>4 DEF ToSet
<1>7. ASSUME NEW i \in DOMAIN names, names[i] \in S PROVE names[i] \in ToSet(r)
  <2> DEFINE n == names[i]
             E == {j \in DOMAIN names : names[j] \in {n}}
  <2>1. n \in Nat /\ i \in E
    BY <1>0, ToSetOf
  <2>2. IsFiniteSet(E) /\ Cardinality(E) = Count(names, {n})
    BY PlacesAreFinite DEF PlacesOf
  <2>3. Cardinality(E) # 0
    BY <2>1, <2>2, FS_EmptySet
  <2> HIDE DEF n, E
  <2>4. Cardinality(PlacesOf(r, {n})) # 0
    BY <1>0, <1>7, <2>1, <2>2, <2>3, SortedInOrders DEF r, n
  <2>5. PlacesOf(r, {n}) # {}
    BY <2>4, FS_EmptySet
  <2>6. QED
    BY <2>5 DEF PlacesOf, ToSet, n
<1>8. ToSet(names) \cap S \subseteq ToSet(r)
  BY <1>7 DEF ToSet
<1>9. QED
  BY <1>1, <1>2, <1>5, <1>6, <1>8 DEF r

\* The members of a set in order: each once.
LEMMA SortedSet ==
  ASSUME NEW K \in SUBSET Nat, IsFiniteSet(K)
  PROVE  LET s == SortedNames(SetToSeq(K))
         IN  /\ s \in Seq(K) /\ ToSet(s) = K /\ Ascending(s) /\ IsInjective(s)
             /\ \A n \in Nat : Count(s, {n}) = IF n \in K THEN 1 ELSE 0
<1> DEFINE l == SetToSeq(K)
           s == SortedIn(l, K)
<1>1. l \in Seq(K) /\ IsInjective(l) /\ ToSet(l) = K
  BY SetToSeqLists
<1>2. SortedNames(l) = s
  BY <1>1 DEF SortedNames
<1> HIDE DEF l, s
<1>3. s \in Seq(K) /\ ToSet(s) = K
  <2>1. s \in Seq(K) /\ ToSet(s) = ToSet(l) \cap K
    BY <1>1, SortedInTypes DEF s
  <2>2. QED
    BY <1>1, <2>1
<1>4. l \in Seq(Nat)
  BY <1>1, SeqGrows
<1>5. ASSUME NEW n \in K PROVE Count(l, {n}) = 1
  <2>1. PICK i \in DOMAIN l : l[i] = n
    BY <1>1 DEF ToSet
  <2>2. {j \in DOMAIN l : l[j] \in {n}} = {i}
    BY <1>1, <2>1 DEF IsInjective
  <2>3. QED
    BY <2>2, FS_Singleton DEF Count
<1>6. /\ Ascending(s)
      /\ \A n \in Nat : Cardinality(PlacesOf(s, {n})) = IF n \in K THEN Count(l, {n}) ELSE 0
  BY <1>4, SortedInOrders DEF s
<1>7. \A n \in Nat : Cardinality(PlacesOf(s, {n})) = IF n \in K THEN 1 ELSE 0
  BY <1>5, <1>6
<1>8. ASSUME NEW i \in DOMAIN s, NEW j \in DOMAIN s, s[i] = s[j] PROVE i = j
  <2>1. s[i] \in K
    BY <1>3
  <2>2. IsFiniteSet(PlacesOf(s, {s[i]})) /\ Cardinality(PlacesOf(s, {s[i]})) = 1
    BY <1>3, <1>7, <2>1, PlacesAreFinite
  <2>3. PICK x : PlacesOf(s, {s[i]}) = {x}
    BY <2>2, FS_Singleton
  <2>4. i \in PlacesOf(s, {s[i]}) /\ j \in PlacesOf(s, {s[i]})
    BY <1>8 DEF PlacesOf
  <2>5. QED
    BY <2>3, <2>4
<1>9. \A n \in Nat : Count(s, {n}) = Cardinality(PlacesOf(s, {n}))
  BY DEF Count, PlacesOf
<1>10. QED
  BY <1>2, <1>3, <1>6, <1>7, <1>8, <1>9 DEF IsInjective, l

\* The keys of a group's batches, and its members.
KeysOf(nodes, key)  == {key[n] : n \in ToSet(nodes)}
KeysIn(nodes, key)  == SortedNames(SetToSeq(KeysOf(nodes, key)))
With(nodes, key, k) == {n \in ToSet(nodes) : key[n] = k}

\* Nodes stand for names in their order, so they are numbers.
LEMMA NodesAreNumbers == Node \in SUBSET Nat /\ IsFiniteSet(Node)
BY NodeAssumption

\* The keys of the groups: each zone, or pool, that the nodes are in, once.
LEMMA GroupKeys ==
  ASSUME NEW nodes \in Seq(Node), NEW key \in [Node -> Nat]
  PROVE  /\ KeysIn(nodes, key) \in Seq(KeysOf(nodes, key)) /\ IsInjective(KeysIn(nodes, key))
         /\ ToSet(KeysIn(nodes, key)) = KeysOf(nodes, key)
         /\ DOMAIN Group(nodes, key) = DOMAIN KeysIn(nodes, key)
<1>1. KeysOf(nodes, key) \in SUBSET Nat
  BY DEF KeysOf, ToSet
<1>2. IsFiniteSet(KeysOf(nodes, key))
  <2>1. IsFiniteSet(ToSet(nodes))
    BY NodesAreNumbers, ToSetOf, FS_Subset
  <2>2. QED
    BY <2>1, FiniteImage DEF KeysOf
<1>3. QED
  BY <1>1, <1>2, SortedSet DEF KeysIn, Group, KeysOf

\* A group holds the nodes with its key, in order, each as often as the list does.
LEMMA GroupBatch ==
  ASSUME NEW nodes \in Seq(Node), NEW key \in [Node -> Nat], NEW b \in DOMAIN Group(nodes, key)
  PROVE  LET batch == Group(nodes, key)[b]
             k == KeysIn(nodes, key)[b]
         IN  /\ batch \in Seq(Node) /\ batch # <<>> /\ Ascending(batch)
             /\ ToSet(batch) = With(nodes, key, k) /\ k \in KeysOf(nodes, key)
             /\ \A n \in Node : Cardinality(PlacesOf(batch, {n}))
                                  = IF n \in With(nodes, key, k) THEN Count(nodes, {n}) ELSE 0
<1> DEFINE k == KeysIn(nodes, key)[b]
           W == With(nodes, key, k)
           batch == Group(nodes, key)[b]
<1>1. batch = SortedIn(nodes, W)
  BY DEF Group, KeysIn, KeysOf, With
<1>2. k \in KeysOf(nodes, key)
  BY GroupKeys
<1> HIDE DEF batch, k
<1>3. W \subseteq ToSet(nodes) /\ W # {}
  BY <1>2 DEF KeysOf, With
<1> HIDE DEF W
<1>4. Node \in SUBSET Nat /\ nodes \in Seq(Nat)
  BY NodesAreNumbers, SeqGrows
<1>5. batch \in Seq(Node) /\ ToSet(batch) = W
  <2>1. batch \in Seq(Node) /\ ToSet(batch) = ToSet(nodes) \cap W
    BY <1>1, <1>4, SortedInTypes
  <2>2. QED
    BY <1>3, <2>1
<1>6. batch # <<>>
  BY <1>3, <1>5 DEF ToSet
<1>7. /\ Ascending(batch)
      /\ \A n \in Nat : Cardinality(PlacesOf(batch, {n}))
                          = IF n \in W THEN Count(nodes, {n}) ELSE 0
  BY <1>1, <1>4, SortedInOrders
<1>8. QED
  BY <1>2, <1>4, <1>5, <1>6, <1>7 DEF batch, k, W

\* Each place of the list is one place of one batch, that of its group.
LEMMA GroupSharesOut ==
  ASSUME NEW nodes \in Seq(Node), NEW key \in [Node -> Nat]
  PROVE  /\ Group(nodes, key) \in Seq(Seq(Node))
         /\ OneBatchEach(key, Group(nodes, key))
         /\ \A n \in Node : Cardinality(Places(Group(nodes, key), n)) = Count(nodes, {n})
<1> DEFINE batches == Group(nodes, key)
           keys == KeysIn(nodes, key)
<1>1. /\ keys \in Seq(KeysOf(nodes, key)) /\ IsInjective(keys)
      /\ ToSet(keys) = KeysOf(nodes, key) /\ DOMAIN batches = DOMAIN keys
  BY GroupKeys
<1>2. ASSUME NEW b \in DOMAIN batches
      PROVE  /\ batches[b] \in Seq(Node) /\ ToSet(batches[b]) = With(nodes, key, keys[b])
             /\ \A n \in Node : Cardinality(PlacesOf(batches[b], {n}))
                  = IF n \in With(nodes, key, keys[b]) THEN Count(nodes, {n}) ELSE 0
  BY GroupBatch
<1>3. batches \in Seq(Seq(Node))
  <2>1. batches \in [1 .. Len(keys) -> Seq(Node)] /\ Len(keys) \in Nat
    <3>1. Len(keys) \in Nat /\ DOMAIN batches = 1 .. Len(keys)
      BY <1>1
    <3>2. batches = [b \in DOMAIN batches |-> batches[b]]
      BY DEF Group
    <3> HIDE DEF batches, keys
    <3>3. QED
      BY <1>2, <3>1, <3>2
  <2> HIDE DEF batches, keys
  <2>2. QED
    BY <2>1
<1> HIDE DEF batches, keys
<1>4. OneBatchEach(key, batches)
  <2> SUFFICES ASSUME NEW b \in DOMAIN batches, NEW c \in DOMAIN batches,
                      NEW m \in ToSet(batches[b]), NEW n \in ToSet(batches[c])
               PROVE  key[m] = key[n] <=> b = c
    BY DEF OneBatchEach
  <2>1. key[m] = keys[b] /\ key[n] = keys[c]
    BY <1>2 DEF With
  <2>2. QED
    BY <1>1, <2>1 DEF IsInjective
<1>5. ASSUME NEW n \in Node PROVE Cardinality(Places(batches, n)) = Count(nodes, {n})
  <2>1. \A b \in DOMAIN batches :
          {i \in DOMAIN batches[b] : batches[b][i] = n} = PlacesOf(batches[b], {n})
    BY DEF PlacesOf
  <2>2. CASE n \notin ToSet(nodes)
    <3>1. \A b \in DOMAIN batches : PlacesOf(batches[b], {n}) = {}
      BY <1>2, <2>2 DEF With, PlacesOf, ToSet
    <3>2. Places(batches, n) = {}
      BY <2>1, <3>1 DEF Places
    <3>3. {i \in DOMAIN nodes : nodes[i] \in {n}} = {}
      BY <2>2 DEF ToSet
    <3>4. QED
      BY <3>2, <3>3 DEF Count
  <2>3. CASE n \in ToSet(nodes)
    <3>1. key[n] \in KeysOf(nodes, key)
      BY <2>3 DEF KeysOf
    <3>2. PICK b \in DOMAIN batches : keys[b] = key[n]
      BY <1>1, <3>1 DEF ToSet
    <3>3. \A c \in DOMAIN batches : c # b => PlacesOf(batches[c], {n}) = {}
      <4> SUFFICES ASSUME NEW c \in DOMAIN batches, NEW i \in DOMAIN batches[c],
                          batches[c][i] = n
                   PROVE  c = b
        BY DEF PlacesOf
      <4>1. n \in ToSet(batches[c])
        BY DEF ToSet
      <4>2. n \in With(nodes, key, keys[c])
        BY <1>2, <4>1
      <4>3. key[n] = keys[c]
        BY <4>2 DEF With
      <4>4. QED
        BY <1>1, <3>2, <4>3 DEF IsInjective
    <3>4. Places(batches, n) = {b} \X PlacesOf(batches[b], {n})
      <4>1. ASSUME NEW p, p \in Places(batches, n) PROVE p \in {b} \X PlacesOf(batches[b], {n})
        <5>1. PICK c \in DOMAIN batches :
                p \in {c} \X {i \in DOMAIN batches[c] : batches[c][i] = n}
          BY <4>1 DEF Places
        <5>2. p \in {c} \X PlacesOf(batches[c], {n})
          BY <2>1, <5>1
        <5>3. c = b
          BY <3>3, <5>2
        <5>4. QED
          BY <5>2, <5>3
      <4>2. ASSUME NEW p, p \in {b} \X PlacesOf(batches[b], {n}) PROVE p \in Places(batches, n)
        <5>1. p \in {b} \X {i \in DOMAIN batches[b] : batches[b][i] = n}
          BY <2>1, <4>2
        <5>2. QED
          BY <5>1 DEF Places
      <4>3. QED
        BY <4>1, <4>2
    <3>5. n \in With(nodes, key, keys[b])
      BY <2>3, <3>2 DEF With
    <3>6. Cardinality(PlacesOf(batches[b], {n})) = Count(nodes, {n})
      BY <1>2, <3>5
    <3>7. IsFiniteSet(PlacesOf(batches[b], {n})) /\ Cardinality(PlacesOf(batches[b], {n})) \in Nat
      BY <1>2, PlacesAreFinite
    <3>a. IsFiniteSet({b}) /\ Cardinality({b}) = 1
      BY FS_Singleton
    <3>8. Cardinality({b} \X PlacesOf(batches[b], {n}))
            = 1 * Cardinality(PlacesOf(batches[b], {n}))
      BY <3>7, <3>a, FS_Product
    <3>9. QED
      BY <3>4, <3>6, <3>7, <3>8
  <2>4. QED
    BY <2>2, <2>3
<1>6. QED
  BY <1>3, <1>4, <1>5 DEF batches

-----------------------------------------------------------------------------
(***************************************************************************)
(* The policy, the target and the plan of a request.                       *)
(***************************************************************************)
\* The state as far as the target and the plan are made from it.
Inputs ==
  /\ request \in RequestRecord /\ objects \in [DOMAIN objects -> PolicyRecord]
  /\ existing \subseteq Node /\ cordoned \subseteq existing

\* Whatever the request names, a policy is found for it.
LEMMA PolicyIs ==
  ASSUME Inputs
  PROVE  Policy \in PolicyRecord
<1>1. DefaultSpec \in PolicyRecord
  BY DEF DefaultSpec, PolicyRecord
<1>2. ASSUME NEW spec \in PolicyRecord PROVE WithDefaults(spec) \in PolicyRecord
  BY <1>2 DEF WithDefaults, DefaultSpec, PolicyRecord
<1>3. ASSUME NEW p \in DOMAIN objects PROVE objects[p] \in PolicyRecord
  BY DEF Inputs
<1>4. QED
  BY <1>1, <1>2, <1>3 DEF Policy, Resolve

\* Some node may always be worked on.
LEMMA ConcurrencyIs ==
  ASSUME NEW policy \in PolicyRecord, NEW requested \in Int
  PROVE  Concurrency(policy, requested) \in Nat \ {0}
<1>1. policy.maxConcurrentDrains \in Int
  BY DEF PolicyRecord
<1>2. Max({requested, 1}) \in Nat \ {0}
  <2>1. Max({requested, 1}) = IF requested >= 1 THEN requested ELSE 1
    BY OfTwo
  <2>2. QED
    BY <2>1
<1>3. Min({Max({requested, 1}), policy.maxConcurrentDrains})
        = IF Max({requested, 1}) <= policy.maxConcurrentDrains THEN Max({requested, 1})
          ELSE policy.maxConcurrentDrains
  BY <1>1, <1>2, OfTwo
<1>4. QED
  BY <1>1, <1>2, <1>3 DEF Concurrency

\* The target is the named nodes that exist, each once and in order.
LEMMA TargetIs ==
  ASSUME Inputs
  PROVE  /\ Target \in Seq(Node) /\ Ascending(Target)
         /\ ToSet(Target) = existing \cap ToSet(request.names)
<1>1. request.names \in Seq(Nat)
  BY DEF Inputs, RequestRecord
<1>2. existing \in SUBSET Nat /\ existing \subseteq Node /\ IsFiniteSet(existing)
  BY NodesAreNumbers, FS_Subset DEF Inputs
<1>3. CASE request.type = "Node"
  <2>1. Target = SortedIn(request.names, existing)
    BY <1>3 DEF Target
  <2>2. Target \in Seq(Nat) /\ ToSet(Target) = ToSet(request.names) \cap existing
    BY <1>1, <2>1, SortedInTypes
  <2>3. Ascending(Target)
    BY <1>1, <2>1, SortedInOrders
  <2>4. Target \in Seq(Node)
    <3>1. \A i \in 1 .. Len(Target) : Target[i] \in Node
      BY <1>2, <2>2, ToSetOf
    <3>2. Target \in [1 .. Len(Target) -> Node] /\ Len(Target) \in Nat
      BY <2>2, <3>1
    <3>3. QED
      BY <3>2
  <2>5. QED
    BY <2>2, <2>3, <2>4
<1>4. CASE request.type # "Node"
  <2> DEFINE K == existing \cap ToSet(request.names)
  <2>1. Target = SortedNames(SetToSeq(K))
    BY <1>4 DEF Target
  <2>2. K \in SUBSET Nat /\ IsFiniteSet(K) /\ K \subseteq Node
    BY <1>2, FS_Subset
  <2> HIDE DEF K
  <2>3. Target \in Seq(K) /\ ToSet(Target) = K /\ Ascending(Target)
    BY <2>1, <2>2, SortedSet
  <2>4. Target \in Seq(Node)
    BY <2>2, <2>3, SeqGrows
  <2>5. QED
    BY <2>3, <2>4 DEF K
<1>5. QED
  BY <1>3, <1>4

\* The batches of a strategy share out the nodes they are made of.
SharesOut(nodes, batches) ==
  /\ batches \in Seq(Seq(Node))
  /\ \A n \in Node : Cardinality(Places(batches, n)) = Count(nodes, {n})
  /\ \A b \in DOMAIN batches : batches[b] # <<>> /\ Ascending(batches[b])

InOrder(batches, size) ==
  /\ \A b \in DOMAIN batches : Len(batches[b]) \in 1 .. size
  /\ \A b, c \in DOMAIN batches : b < c =>
       /\ Len(batches[b]) >= Len(batches[c])
       /\ \A m \in ToSet(batches[b]), n \in ToSet(batches[c]) : m <= n

\* Batches of one size share the nodes out, in order.
LEMMA ChunksShareOut ==
  ASSUME NEW nodes \in Seq(Node), NEW size \in Nat \ {0}
  PROVE  /\ SharesOut(nodes, Chunk(SortedNames(nodes), size))
         /\ InOrder(Chunk(SortedNames(nodes), size), size)
<1> DEFINE s == SortedIn(nodes, ToSet(nodes))
           batches == Chunk(s, size)
<1>1. SortedNames(nodes) = s
  BY DEF SortedNames
<1>2. nodes \in Seq(Nat) /\ Node \in SUBSET Nat
  BY NodesAreNumbers, SeqGrows
<1>3. s \in Seq(Node)
  BY <1>2, SortedInTypes
<1>4. /\ Ascending(s)
      /\ \A n \in Nat : Cardinality(PlacesOf(s, {n}))
                          = IF n \in ToSet(nodes) THEN Count(nodes, {n}) ELSE 0
  BY <1>2, SortedInOrders
<1>5. ASSUME NEW n \in Node PROVE Count(s, {n}) = Count(nodes, {n})
  <2>1. Count(s, {n}) = Cardinality(PlacesOf(s, {n}))
    BY DEF Count, PlacesOf
  <2>2. CASE n \in ToSet(nodes)
    BY <1>2, <1>4, <2>1, <2>2
  <2>3. CASE n \notin ToSet(nodes)
    <3>1. {i \in DOMAIN nodes : nodes[i] \in {n}} = {}
      BY <2>3 DEF ToSet
    <3>2. Count(nodes, {n}) = 0
      BY <3>1, FS_EmptySet DEF Count
    <3>3. QED
      BY <1>2, <1>4, <2>1, <2>3, <3>2
  <2>4. QED
    BY <2>2, <2>3
<1> HIDE DEF s
<1>6. batches \in Seq(Seq(Node)) /\ DOMAIN batches = 1 .. Chunks(s, size)
  BY <1>3, ChunkTypes
<1>7. \A b \in DOMAIN batches : Len(batches[b]) \in 1 .. size
  BY <1>3, <1>6, ChunkBatch
<1>8. \A n \in Node : Cardinality(Places(batches, n)) = Count(nodes, {n})
  BY <1>3, <1>5, ChunkSharesOut
<1>9. /\ \A b \in DOMAIN batches : Ascending(batches[b])
      /\ \A b, c \in DOMAIN batches : b < c =>
           /\ Len(batches[b]) >= Len(batches[c])
           /\ \A m \in ToSet(batches[b]), n \in ToSet(batches[c]) : m <= n
  BY <1>2, <1>3, <1>4, ChunkInOrder
<1> HIDE DEF batches
<1>10. \A b \in DOMAIN batches : batches[b] # <<>>
  BY <1>7
<1>11. QED
  BY <1>1, <1>6, <1>7, <1>8, <1>9, <1>10 DEF SharesOut, InOrder, batches

\* Groups by zone or pool share the nodes out.
LEMMA GroupsShareOut ==
  ASSUME NEW nodes \in Seq(Node), NEW key \in [Node -> Nat]
  PROVE  SharesOut(nodes, Group(nodes, key)) /\ OneBatchEach(key, Group(nodes, key))
<1>1. \A b \in DOMAIN Group(nodes, key) :
        Group(nodes, key)[b] # <<>> /\ Ascending(Group(nodes, key)[b])
  BY GroupBatch
<1>2. QED
  BY <1>1, GroupSharesOut DEF SharesOut

\* So does the plan, by whatever strategy it is made.
LEMMA BatchesShareOut ==
  ASSUME Inputs
  PROVE  /\ SharesOut(Target, Batches)
         /\ request.strategy = "Serial" => InOrder(Batches, 1)
         /\ request.strategy = "Batched" =>
              InOrder(Batches, BatchSize(request.batchSize,
                                         Concurrency(Policy, request.maxConcurrent)))
         /\ request.strategy = "ByZone" => OneBatchEach(Zone, Batches)
         /\ request.strategy = "ByPool" => OneBatchEach(Pool, Batches)
<1> DEFINE c == Concurrency(Policy, request.maxConcurrent)
           size == BatchSize(request.batchSize, c)
<1>1. Target \in Seq(Node)
  BY TargetIs
<1>2. /\ request.strategy \in Strategy /\ request.batchSize \in Int
      /\ request.maxConcurrent \in Int
  BY DEF Inputs, RequestRecord
<1>3. c \in Nat \ {0}
  BY <1>2, PolicyIs, ConcurrencyIs
<1>4. size \in Nat \ {0}
  BY <1>2, <1>3 DEF BatchSize
<1>5. Zone \in [Node -> Nat] /\ Pool \in [Node -> Nat]
  BY NodeAssumption
<1>6. Batches = BuildBatches(request.strategy, Target, request.batchSize, c, Zone, Pool)
  BY DEF Batches
<1> HIDE DEF c
<1>7. CASE request.strategy = "Serial"
  <2>1. Batches = Chunk(SortedNames(Target), 1)
    BY <1>6, <1>7 DEF BuildBatches
  <2>2. SharesOut(Target, Batches) /\ InOrder(Batches, 1)
    BY <1>1, <2>1, ChunksShareOut
  <2>3. QED
    BY <1>7, <2>2
<1>8. CASE request.strategy = "Batched"
  <2>1. Batches = Chunk(SortedNames(Target), size)
    BY <1>6, <1>8 DEF BuildBatches
  <2>2. SharesOut(Target, Batches) /\ InOrder(Batches, size)
    BY <1>1, <1>4, <2>1, ChunksShareOut
  <2>3. QED
    BY <1>8, <2>2 DEF c
<1>9. CASE request.strategy = "ByZone"
  <2>1. Batches = Group(Target, Zone)
    BY <1>6, <1>9 DEF BuildBatches
  <2>2. SharesOut(Target, Batches) /\ OneBatchEach(Zone, Batches)
    BY <1>1, <1>5, <2>1, GroupsShareOut
  <2>3. QED
    BY <1>9, <2>2
<1>10. CASE request.strategy = "ByPool"
  <2>1. Batches = Group(Target, Pool)
    BY <1>6, <1>10 DEF BuildBatches
  <2>2. SharesOut(Target, Batches) /\ OneBatchEach(Pool, Batches)
    BY <1>1, <1>5, <2>1, GroupsShareOut
  <2>3. QED
    BY <1>10, <2>2
<1>11. QED
  BY <1>2, <1>7, <1>8, <1>9, <1>10 DEF Strategy

-----------------------------------------------------------------------------
(***************************************************************************)
(* The reachable states.                                                   *)
(***************************************************************************)
\* What the policy controller reported of a policy is true of it.
ReportedTrue == \A p \in DOMAIN objects : report[p] = "Valid" => PolicyValid(objects[p])

AdmissionInv == TypeOK /\ ReportedTrue

\* What the checks are given has the types they rest on.
LEMMA TypedInputs == TypeOK => Inputs
BY RequestAssumption DEF TypeOK, Inputs

\* The invariant holds when nothing has been checked yet.
LEMMA InitInv == Init => AdmissionInv
<1> SUFFICES ASSUME Init PROVE AdmissionInv
  OBVIOUS
<1>1. Year \in Nat
  BY CalendarAssumption DEF Year
<1>2. now \in Nat /\ changes \in 0 .. MaxChanges
  BY <1>1, TimeAssumption DEF Init
<1>3. objects \in [DOMAIN objects -> PolicyRecord]
  BY PolicyAssumption DEF Init
<1>4. existing \subseteq Node /\ cordoned \subseteq existing
  BY NodeAssumption DEF Init
<1>5. plan \in Seq(Seq(Node))
  BY DEF Init
<1>6. ReportedTrue
  BY DEF Init, ReportedTrue
<1>7. QED
  BY <1>2, <1>3, <1>4, <1>5, <1>6 DEF Init, AdmissionInv, TypeOK

\* A window's verdict is one of three.
LEMMA OpenIs == Open \in {"open", "closed", "error"}
<1>1. \A windows : AnyOpen(windows, now) \in {"open", "closed", "error"}
  BY DEF AnyOpen
<1>2. QED
  BY <1>1 DEF Open, WindowsOpen

\* A pass of the controller changes the phase, and the plan to the batches of the target.
LEMMA PassIs ==
  ASSUME Controller
  PROVE  /\ Pass /\ plan' \in {plan, Batches}
         /\ phase' \in {"Validating", "Planned", "Executing", "Blocked", "Completed", "Failed"}
<1>1. CASE Unresolved
  BY <1>1 DEF Unresolved
<1>2. CASE Validate
  BY <1>2, Zenon DEF Validate
<1>3. CASE Revalidate
  BY <1>3 DEF Revalidate
<1>4. CASE Start
  <2>1. phase' \in {"Completed", "Failed", "Planned", "Executing"}
    <3>1. CASE Target = <<>>
      BY <1>4, <3>1 DEF Start
    <3>2. CASE Target # <<>>
      BY <1>4, <3>2, OpenIs DEF Start
    <3>3. QED
      BY <3>1, <3>2
  <2>2. QED
    BY <1>4, <2>1 DEF Start
<1>5. QED
  BY <1>1, <1>2, <1>3, <1>4 DEF Controller

\* Every step keeps the invariant.
LEMMA StepInv ==
  ASSUME AdmissionInv, Next
  PROVE  AdmissionInv'
<1>1. /\ request \in Requests /\ objects \in [DOMAIN objects -> PolicyRecord]
      /\ report \in [DOMAIN objects -> {"Unknown", "Valid", "Invalid"}]
      /\ phase \in {"Pending", "Validating", "Planned", "Executing", "Blocked",
                    "Completed", "Failed"}
      /\ plan \in Seq(Seq(Node)) /\ existing \subseteq Node /\ cordoned \subseteq existing
      /\ now \in Nat /\ changes \in 0 .. MaxChanges /\ MaxChanges \in Nat
  BY TimeAssumption DEF AdmissionInv, TypeOK
<1>2. ReportedTrue
  BY DEF AdmissionInv
<1>3. CASE Controller
  <2>1. Batches \in Seq(Seq(Node))
    BY TypedInputs, BatchesShareOut DEF AdmissionInv, SharesOut
  <2>2. plan' \in Seq(Seq(Node))
    BY <1>1, <1>3, <2>1, PassIs
  <2>3. Pass /\ phase' \in {"Validating", "Planned", "Executing", "Blocked", "Completed", "Failed"}
    BY <1>3, PassIs
  <2>4. ReportedTrue'
    BY <1>2, <2>3 DEF Pass, ReportedTrue, PolicyValid, WindowsParse
  <2>5. QED
    BY <1>1, <2>2, <2>3, <2>4 DEF Pass, AdmissionInv, TypeOK
<1>4. CASE Tick
  <2>1. ReportedTrue'
    BY <1>2, <1>4 DEF Tick, ReportedTrue, PolicyValid, WindowsParse
  <2>2. now' \in Nat
    BY <1>1, <1>4 DEF Tick
  <2>3. QED
    BY <1>1, <1>4, <2>1, <2>2 DEF Tick, AdmissionInv, TypeOK
<1>5. ASSUME NEW n \in Node, Toggle(n) PROVE AdmissionInv'
  <2>1. ReportedTrue'
    BY <1>2, <1>5 DEF Toggle, ReportedTrue, PolicyValid, WindowsParse
  <2>2. cordoned' \subseteq existing' /\ changes' \in 0 .. MaxChanges
    BY <1>1, <1>5 DEF Toggle
  <2>3. QED
    BY <1>1, <1>5, <2>1, <2>2 DEF Toggle, AdmissionInv, TypeOK
<1>6. ASSUME NEW n \in Node, JoinOrLeave(n) PROVE AdmissionInv'
  <2>1. ReportedTrue'
    BY <1>2, <1>6 DEF JoinOrLeave, ReportedTrue, PolicyValid, WindowsParse
  <2>2. /\ existing' \subseteq Node /\ cordoned' \subseteq existing'
        /\ changes' \in 0 .. MaxChanges
    BY <1>1, <1>6 DEF JoinOrLeave
  <2>3. QED
    BY <1>1, <1>6, <2>1, <2>2 DEF JoinOrLeave, AdmissionInv, TypeOK
<1>7. ASSUME NEW p \in DOMAIN objects, EditPolicy(p) PROVE AdmissionInv'
  <2>1. PICK w \in WindowEdits : objects' = [objects EXCEPT ![p].windows = w]
    BY <1>7 DEF EditPolicy
  <2>2. /\ UNCHANGED <<request, phase, plan, existing, cordoned, now>>
        /\ report' = [report EXCEPT ![p] = "Unknown"]
        /\ changes < MaxChanges /\ changes' = changes + 1
    BY <1>7 DEF EditPolicy
  <2>3. w \in Seq(WindowRecord)
    BY PolicyAssumption
  <2>4. [objects[p] EXCEPT !.windows = w] \in PolicyRecord
    BY <1>1, <2>3 DEF PolicyRecord
  <2>5. DOMAIN objects' = DOMAIN objects /\ objects' \in [DOMAIN objects -> PolicyRecord]
    BY <1>1, <2>1, <2>4
  <2>6. ReportedTrue'
    <3>1. \A q \in DOMAIN objects : q # p => objects'[q] = objects[q] /\ report'[q] = report[q]
      BY <1>1, <2>1, <2>2
    <3>2. report'[p] = "Unknown"
      BY <1>1, <2>2
    <3>3. QED
      BY <1>2, <2>5, <3>1, <3>2 DEF ReportedTrue, PolicyValid, WindowsParse
  <2>7. /\ changes' \in 0 .. MaxChanges
        /\ report' \in [DOMAIN objects' -> {"Unknown", "Valid", "Invalid"}]
    BY <1>1, <2>2, <2>5
  <2>8. QED
    BY <1>1, <2>2, <2>5, <2>6, <2>7 DEF AdmissionInv, TypeOK
<1>8. ASSUME NEW p \in DOMAIN objects, Report(p) PROVE AdmissionInv'
  <2>1. /\ UNCHANGED <<request, objects, phase, plan, existing, cordoned, now, changes>>
        /\ report' = [report EXCEPT ![p] = IF PolicyValid(objects[p]) THEN "Valid" ELSE "Invalid"]
    BY <1>8 DEF Report
  <2>2. ReportedTrue'
    <3>1. \A q \in DOMAIN objects : q # p => report'[q] = report[q]
      BY <1>1, <2>1
    <3>2. report'[p] = "Valid" => PolicyValid(objects[p])
      BY <1>1, <2>1
    <3>3. QED
      BY <1>2, <2>1, <3>1, <3>2 DEF ReportedTrue, PolicyValid, WindowsParse
  <2>3. report' \in [DOMAIN objects' -> {"Unknown", "Valid", "Invalid"}]
    BY <1>1, <2>1
  <2>4. QED
    BY <1>1, <2>1, <2>2, <2>3 DEF AdmissionInv, TypeOK
<1>9. QED
  BY <1>3, <1>4, <1>5, <1>6, <1>7, <1>8 DEF Next

\* In every reachable state the reports are true of the policies they name.
THEOREM AdmissionCorrect == Spec => []AdmissionInv
<1>1. Init => AdmissionInv
  BY InitInv
<1>2. AdmissionInv /\ [Next]_vars => AdmissionInv'
  <2>1. CASE Next
    BY <2>1, StepInv
  <2>2. CASE UNCHANGED vars
    BY <2>2 DEF vars, AdmissionInv, TypeOK, ReportedTrue, PolicyValid, WindowsParse
  <2>3. QED
    BY <2>1, <2>2
<1>3. QED
  BY <1>1, <1>2, PTL DEF Spec

\* The plan is batches of nodes, and only nodes there are can be cordoned, whatever
\* joins, leaves, is cordoned or edited (TypeOK).
THEOREM AdmissionTypeCorrect == Spec => []TypeOK
<1>1. AdmissionInv => TypeOK
  BY DEF AdmissionInv
<1>2. QED
  BY <1>1, AdmissionCorrect, PTL

-----------------------------------------------------------------------------
(***************************************************************************)
(* The plan.                                                               *)
(***************************************************************************)
\* Every plan shares out the target it was made of: each node as often as it is
\* named, no batch empty or larger than the strategy says, neighbours in order, one
\* group to a batch and one batch to a group (BuildBatches).
THEOREM PlansShareOut == Spec => PlanSharesOutTarget
<1> DEFINE
      Good ==
        /\ \A n \in Node : Cardinality(Places(plan', n)) = Count(Target, {n})
        /\ \A b \in DOMAIN plan' : plan'[b] # <<>> /\ Ascending(plan'[b])
        /\ request.strategy = "Serial" => \A b \in DOMAIN plan' : Len(plan'[b]) = 1
        /\ request.strategy \in {"Serial", "Batched"} =>
             \A b, c \in DOMAIN plan' : b < c =>
               /\ Len(plan'[b]) >= Len(plan'[c])
               /\ \A m \in ToSet(plan'[b]), n \in ToSet(plan'[c]) : m <= n
        /\ request.strategy = "Batched" /\ request.batchSize >= 1 =>
             \A b \in DOMAIN plan' : Len(plan'[b]) <= request.batchSize
        /\ request.strategy = "ByZone" => OneBatchEach(Zone, plan')
        /\ request.strategy = "ByPool" => OneBatchEach(Pool, plan')
<1>1. AdmissionInv /\ [Next]_vars => [plan' # plan => Good]_vars
  <2> SUFFICES ASSUME AdmissionInv, Next, plan' # plan PROVE Good
    BY DEF vars
  <2>1. Controller
    BY DEF Next, Tick, Toggle, JoinOrLeave, EditPolicy, Report
  <2>2. plan' = Batches
    BY <2>1, PassIs
  <2>3. Inputs
    BY TypedInputs DEF AdmissionInv
  <2>4. /\ SharesOut(Target, plan')
        /\ request.strategy = "Serial" => InOrder(plan', 1)
        /\ request.strategy = "Batched" =>
             InOrder(plan', BatchSize(request.batchSize,
                                      Concurrency(Policy, request.maxConcurrent)))
        /\ request.strategy = "ByZone" => OneBatchEach(Zone, plan')
        /\ request.strategy = "ByPool" => OneBatchEach(Pool, plan')
    BY <2>2, <2>3, BatchesShareOut
  <2>5. request.strategy = "Batched" /\ request.batchSize >= 1 =>
          InOrder(plan', request.batchSize) /\ request.batchSize \in Int
    BY <2>3, <2>4 DEF BatchSize, Inputs, RequestRecord
  <2>6. request.strategy = "Serial" => \A b \in DOMAIN plan' : Len(plan'[b]) = 1
    BY <2>4 DEF InOrder
  <2>7. request.strategy = "Batched" /\ request.batchSize >= 1 =>
          \A b \in DOMAIN plan' : Len(plan'[b]) <= request.batchSize
    BY <2>5 DEF InOrder
  <2>8. request.strategy \in {"Serial", "Batched"} =>
          \A b, c \in DOMAIN plan' : b < c =>
            /\ Len(plan'[b]) >= Len(plan'[c])
            /\ \A m \in ToSet(plan'[b]), n \in ToSet(plan'[c]) : m <= n
    BY <2>4 DEF InOrder
  <2>9. /\ \A n \in Node : Cardinality(Places(plan', n)) = Count(Target, {n})
        /\ \A b \in DOMAIN plan' : plan'[b] # <<>> /\ Ascending(plan'[b])
    BY <2>4 DEF SharesOut
  <2>10. QED
    BY <2>4, <2>6, <2>7, <2>8, <2>9
<1>2. QED
  BY <1>1, AdmissionCorrect, PTL DEF Spec, PlanSharesOutTarget

-----------------------------------------------------------------------------
(***************************************************************************)
(* The windows.                                                            *)
(***************************************************************************)
LEMMA Lengths == MinuteLen \in Nat \ {0} /\ Year \div MinuteLen >= 1
<1> DEFINE rest == HourLen * DayLen * MonthLen * YearLen
<1>1. MinuteLen \in Nat \ {0}
  BY CalendarAssumption
<1>2. /\ HourLen \in Nat \ {0} /\ DayLen \in Nat \ {0} /\ MonthLen \in Nat \ {0}
      /\ YearLen \in Nat \ {0}
  BY CalendarAssumption
<1>3. HourLen * DayLen \in Nat \ {0}
  BY <1>2
<1>4. HourLen * DayLen * MonthLen \in Nat \ {0}
  BY <1>2, <1>3
<1>5. rest \in Nat \ {0}
  BY <1>2, <1>4
<1>6. Year = MinuteLen * rest + 0
  BY <1>1, <1>2 DEF Year
<1> HIDE DEF rest
<1>7. Year \in Int /\ 0 \in 0 .. MinuteLen - 1
  BY <1>1, <1>5, <1>6
<1>8. Year \div MinuteLen = rest
  BY <1>1, <1>5, <1>6, <1>7, DivisionUnique
<1>9. QED
  BY <1>1, <1>5, <1>8

\* The minute a second is in is the greatest multiple of a minute up to it.
LEMMA TruncatedIs ==
  ASSUME NEW t \in Int
  PROVE  /\ t \div MinuteLen \in Int /\ Truncated(t) = MinuteLen * (t \div MinuteLen)
         /\ Truncated(t) \in Int /\ Truncated(t) <= t /\ t < Truncated(t) + MinuteLen
<1> DEFINE q == t \div MinuteLen
           r == t % MinuteLen
<1>1. q \in Int /\ r \in 0 .. MinuteLen - 1 /\ t = MinuteLen * q + r
  BY Lengths, Division
<1>2. Truncated(t) = t - r
  BY DEF Truncated
<1> HIDE DEF q, r
<1>3. MinuteLen * q \in Int
  BY <1>1, Lengths
<1>4. QED
  BY <1>1, <1>2, <1>3, Lengths DEF q

\* Multiples of a minute are whole minutes.
LEMMA WholeMinutes ==
  ASSUME NEW x \in Int
  PROVE  MinuteLen * x \in Int /\ (MinuteLen * x) % MinuteLen = 0
<1>1. MinuteLen * x \in Int /\ MinuteLen * x = MinuteLen * x + 0 /\ 0 \in 0 .. MinuteLen - 1
  BY Lengths
<1>2. QED
  BY <1>1, Lengths, DivisionUnique

\* At n, what opened at t has not closed.
OpenedFor(w, t, n) == t % MinuteLen = 0 /\ Matches(w.cron, t) /\ t <= n /\ n < t + w.duration

\* Looking back over the minutes finds the openings that have not run out.
LEMMA LookBack ==
  ASSUME NEW n \in Int, NEW w, w.duration \in Int, w.duration > 0
  PROVE  IsOpen(w, n) <=> \E t \in (n - w.duration) .. n : OpenedFor(w, t, n)
<1> DEFINE M == MinuteLen
           dur == w.duration
           q == n \div M
           At(i) == Truncated(n) - i * M
<1>0. M \in Nat \ {0} /\ dur \in Nat \ {0}
  BY Lengths
<1>1. q \in Int /\ Truncated(n) = M * q /\ Truncated(n) \in Int /\ Truncated(n) <= n
      /\ n < Truncated(n) + M
  BY TruncatedIs
<1>2. ASSUME NEW i \in 0 .. Steps(w), Matches(w.cron, At(i)), At(i) + dur > n
      PROVE  \E t \in (n - dur) .. n : OpenedFor(w, t, n)
  <2>1. i \in Int /\ i >= 0
    BY <1>0, Division DEF Steps
  <2>2. At(i) = M * (q - i) /\ q - i \in Int
    BY <1>0, <1>1, <2>1
  <2>3. At(i) \in Int /\ At(i) % M = 0
    BY <2>2, WholeMinutes
  <2>4. i * M >= 0 /\ i * M \in Int
    BY <1>0, <2>1
  <2>5. At(i) <= n
    BY <1>1, <2>4
  <2> HIDE DEF At
  <2>6. At(i) \in (n - dur) .. n
    BY <1>0, <1>2, <2>3, <2>5
  <2>7. OpenedFor(w, At(i), n)
    BY <1>0, <1>2, <2>3, <2>5 DEF OpenedFor
  <2>8. QED
    BY <2>6, <2>7
<1>3. ASSUME NEW t \in (n - dur) .. n, OpenedFor(w, t, n)
      PROVE  \E i \in 0 .. Steps(w) : Matches(w.cron, At(i)) /\ At(i) + dur > n
  <2> DEFINE x == t \div M
             i == q - x
             d == dur \div M
  <2>1. t \in Int /\ t % M = 0 /\ t <= n /\ n < t + dur
    BY <1>0, <1>3 DEF OpenedFor
  <2>2. x \in Int /\ t = M * x
    BY <1>0, <2>1, Division
  <2>3. d \in Int /\ dur % M \in 0 .. M - 1 /\ dur = M * d + (dur % M)
    BY <1>0, Division
  <2>4. Steps(w) = d + 1
    BY DEF Steps
  <2> HIDE DEF x, d
  <2>5. i \in Int /\ At(i) = t
    <3>1. i \in Int /\ i * M = M * q - M * x
      BY <1>0, <1>1, <2>2
    <3>2. M * q \in Int /\ M * x \in Int
      BY <1>0, <1>1, <2>2
    <3> HIDE DEF i
    <3>3. QED
      BY <1>1, <2>2, <3>1, <3>2
  <2>6. M * i = M * q - t
    BY <1>0, <1>1, <2>2
  <2>7. M * i > -M
    BY <1>0, <1>1, <2>1, <2>6
  <2> HIDE DEF i
  <2>8. i >= 0
    BY <1>0, <2>5, <2>7
  <2>9. M * i < M * d + M
    BY <1>0, <1>1, <2>1, <2>3, <2>5, <2>6
  <2>10. i < d + 1
    BY <1>0, <2>3, <2>5, <2>9
  <2>11. i \in 0 .. Steps(w)
    BY <2>3, <2>4, <2>5, <2>8, <2>10
  <2>12. Matches(w.cron, At(i)) /\ At(i) + dur > n
    BY <1>0, <1>3, <2>1, <2>5 DEF OpenedFor
  <2>13. QED
    BY <2>11, <2>12
<1>4. IsOpen(w, n) <=> \E i \in 0 .. Steps(w) : Matches(w.cron, At(i)) /\ At(i) + dur > n
  BY DEF IsOpen
<1>5. QED
  BY <1>2, <1>3, <1>4

\* A window that opens with the next second opens when NextOpen says.
LEMMA LookAhead ==
  ASSUME NEW n \in Int, NEW w, w.duration \in Int, w.duration > 0,
         ~IsOpen(w, n), IsOpen(w, n + 1)
  PROVE  n + 1 = NextOpen(w, n)
<1> DEFINE M == MinuteLen
           q == n \div M
           openings == {t \in Upcoming(n) : Matches(w.cron, t)}
<1>0. M \in Nat \ {0} /\ Year \div M >= 1 /\ n + 1 \in Int
  BY Lengths
<1>1. PICK t \in (n + 1 - w.duration) .. (n + 1) : OpenedFor(w, t, n + 1)
  BY <1>0, LookBack
<1>2. t \in Int /\ t % M = 0 /\ Matches(w.cron, t) /\ t <= n + 1 /\ n + 1 < t + w.duration
  BY <1>0, <1>1 DEF OpenedFor
<1>3. t = n + 1
  <2> SUFFICES ASSUME t <= n PROVE FALSE
    BY <1>2
  <2>1. n < t + w.duration
    BY <1>2
  <2>2. OpenedFor(w, t, n) /\ t \in (n - w.duration) .. n
    BY <1>2, <2>1 DEF OpenedFor
  <2>3. QED
    BY <2>2, LookBack
<1>4. /\ q \in Int /\ Truncated(n) = M * q /\ Truncated(n) \in Int /\ Truncated(n) <= n
      /\ n < Truncated(n) + M
  BY TruncatedIs
<1>5. Truncated(n) + 1 * M = n + 1
  <2> DEFINE x == t \div M
  <2>1. x \in Int /\ t = M * x
    BY <1>0, <1>2, Division
  <2> HIDE DEF x, q
  <2>2. M * q < M * x
    BY <1>2, <1>3, <1>4, <2>1
  <2>3. q + 1 <= x
    BY <1>0, <1>4, <2>1, <2>2
  <2>4. M * (q + 1) <= M * x /\ M * (q + 1) = M * q + M
    BY <1>0, <1>4, <2>1, <2>3
  <2>5. M * q + M >= n + 1
    BY <1>0, <1>4
  <2>6. M * q \in Int /\ M * x \in Int
    BY <1>0, <1>4, <2>1
  <2>7. M * q + M = n + 1
    BY <1>0, <1>3, <2>1, <2>4, <2>5, <2>6
  <2>8. QED
    BY <1>0, <1>4, <2>7
<1> HIDE DEF q
<1>6. n + 1 \in openings
  <2>1. Year \div M \in Int
    BY <1>0, CalendarAssumption, Division DEF Year
  <2>2. 1 \in 1 .. (Year \div M)
    BY <1>0, <2>1
  <2>3. n + 1 \in Upcoming(n)
    BY <1>5, <2>2 DEF Upcoming
  <2>4. QED
    BY <1>2, <1>3, <2>3
<1>7. \A u \in openings : u \in Int /\ n + 1 <= u
  <2> SUFFICES ASSUME NEW i \in 1 .. (Year \div M)
               PROVE  Truncated(n) + i * M \in Int /\ n + 1 <= Truncated(n) + i * M
    BY DEF Upcoming
  <2>1. i \in Int /\ i >= 1
    BY <1>0
  <2>2. i * M >= 1 * M /\ i * M \in Int
    BY <1>0, <2>1
  <2>3. QED
    BY <1>0, <1>4, <1>5, <2>2
<1> HIDE DEF openings
<1>8. Min(openings) = n + 1
  BY <1>0, <1>6, <1>7 DEF Min
<1>9. QED
  BY <1>6, <1>8 DEF NextOpen, openings

\* The windows of the policy and of the request are window records.
LEMMA WindowsTyped ==
  ASSUME Inputs
  PROVE  /\ request.own \in Seq(WindowRecord) /\ Policy.windows \in Seq(WindowRecord)
         /\ \A w \in Windows : w.duration \in Int
<1>1. request.own \in Seq(WindowRecord)
  BY DEF Inputs, RequestRecord
<1>2. Policy.windows \in Seq(WindowRecord)
  BY PolicyIs DEF PolicyRecord
<1>3. Windows \subseteq WindowRecord
  BY <1>1, <1>2, ToSetOf DEF Windows
<1>4. \A w \in WindowRecord : w.duration \in Int
  BY DEF WindowRecord
<1>5. QED
  BY <1>1, <1>2, <1>3, <1>4

\* The look back over the minutes finds an opening exactly when there is one that has
\* not run out, whatever the lengths of the calendar and of the window (IsOpen).
THEOREM OpenForItsDuration == Spec => []OpenWithinDuration
<1>1. AdmissionInv => OpenWithinDuration
  <2> SUFFICES ASSUME AdmissionInv, NEW w \in Windows, Valid(w)
               PROVE  IsOpen(w, now) <=> \E t \in (now - w.duration) .. now : OpenedAt(w, t)
    BY DEF OpenWithinDuration
  <2>1. w.duration \in Int /\ w.duration > 0
    BY TypedInputs, WindowsTyped DEF AdmissionInv, Valid
  <2>2. now \in Int
    BY DEF AdmissionInv, TypeOK
  <2>3. QED
    BY <2>1, <2>2, LookBack DEF OpenedAt, OpenedFor
<1>2. QED
  BY <1>1, AdmissionCorrect, PTL

\* A window that is closed opens at the instant NextOpen gave and at no other: looking
\* back and looking ahead read the same minutes (IsOpen, NextOpen).
THEOREM OpensAsAnnounced == Spec => OpensWhenAnnounced
<1>1. AdmissionInv /\ [Next]_vars =>
        [\A w \in {v \in Windows : Valid(v)} :
           ~IsOpen(w, now) /\ IsOpen(w, now)' => now' = NextOpen(w, now)]_vars
  <2> SUFFICES ASSUME AdmissionInv, Next,
                      NEW w \in Windows, Valid(w), ~IsOpen(w, now), IsOpen(w, now')
               PROVE  now' = NextOpen(w, now)
    BY DEF vars
  <2>1. now' # now
    OBVIOUS
  <2>2. Tick
    BY <2>1, PassIs DEF Next, Pass, Toggle, JoinOrLeave, EditPolicy, Report
  <2>3. now' = now + 1 /\ now \in Int
    BY <2>2 DEF Tick, AdmissionInv, TypeOK
  <2>4. w.duration \in Int /\ w.duration > 0
    BY TypedInputs, WindowsTyped DEF AdmissionInv, Valid
  <2>5. QED
    BY <2>3, <2>4, LookAhead
<1>2. QED
  BY <1>1, AdmissionCorrect, PTL DEF Spec, OpensWhenAnnounced

-----------------------------------------------------------------------------
(***************************************************************************)
(* The verdict of a list of windows.                                       *)
(***************************************************************************)
LEMMA VerdictOpen ==
  ASSUME NEW T, NEW windows \in Seq(T), NEW n, windows # <<>>, AnyOpen(windows, n) = "open"
  PROVE  \E w \in ToSet(windows) : Valid(w) /\ IsOpen(w, n)
<1> DEFINE decisive == {i \in DOMAIN windows : ~Valid(windows[i]) \/ IsOpen(windows[i], n)}
<1>1. decisive # {} /\ Valid(windows[Min(decisive)])
  BY DEF AnyOpen
<1>2. Min(decisive) \in decisive
  <2>1. decisive \in SUBSET Nat
    OBVIOUS
  <2> HIDE DEF decisive
  <2>2. QED
    BY <1>1, <2>1, LeastNatural DEF Min
<1>3. QED
  BY <1>1, <1>2 DEF ToSet

\* Windows that all parse are never in error.
LEMMA VerdictOfValid ==
  ASSUME NEW T, NEW windows \in Seq(T), NEW n, \A w \in ToSet(windows) : Valid(w)
  PROVE  AnyOpen(windows, n) # "error"
<1> DEFINE decisive == {i \in DOMAIN windows : ~Valid(windows[i]) \/ IsOpen(windows[i], n)}
<1>1. decisive # {} => Min(decisive) \in decisive
  <2>1. decisive \in SUBSET Nat
    OBVIOUS
  <2> HIDE DEF decisive
  <2>2. QED
    BY <2>1, LeastNatural DEF Min
<1>2. decisive # {} => Valid(windows[Min(decisive)])
  BY <1>1 DEF ToSet
<1>3. QED
  BY <1>2 DEF AnyOpen

\* Execution begins inside the request's own window and inside one of the policy's,
\* where they have any (WindowsOpen).
THEOREM BeginsInside == Spec => BeginsInsideWindows
<1> DEFINE Inside(list) ==
      list # <<>> => \E w \in ToSet(list) :
        Valid(w) /\ \E t \in (now - w.duration) .. now : OpenedAt(w, t)
<1>1. AdmissionInv /\ [Next]_vars =>
        [phase = "Planned" /\ phase' = "Executing" =>
           \A list \in {request.own, Policy.windows} : Inside(list)]_vars
  <2> SUFFICES ASSUME AdmissionInv, Next, phase = "Planned", phase' = "Executing",
                      NEW list \in {request.own, Policy.windows}, list # <<>>
               PROVE  \E w \in ToSet(list) :
                        Valid(w) /\ \E t \in (now - w.duration) .. now : OpenedAt(w, t)
    BY DEF vars
  <2>1. Start
    BY DEF Next, Controller, Unresolved, Validate, Revalidate, Tick, Toggle, JoinOrLeave,
           EditPolicy, Report
  <2>2. Open = "open"
    <3>1. Target # <<>>
      BY <2>1 DEF Start
    <3>2. QED
      BY <2>1, <3>1, OpenIs DEF Start
  <2>3. AnyOpen(request.own, now) = "open" /\ AnyOpen(Policy.windows, now) = "open"
    BY <2>2 DEF Open, WindowsOpen
  <2>4. list \in Seq(WindowRecord) /\ now \in Int
    BY TypedInputs, WindowsTyped DEF AdmissionInv, TypeOK
  <2>5. PICK w \in ToSet(list) : Valid(w) /\ IsOpen(w, now)
    BY <2>3, <2>4, VerdictOpen
  <2>6. w.duration \in Int /\ w.duration > 0
    <3>1. w \in Windows
      BY <2>5 DEF Windows
    <3>2. QED
      BY <2>5, <3>1, TypedInputs, WindowsTyped DEF AdmissionInv, Valid
  <2>7. \E t \in (now - w.duration) .. now : OpenedFor(w, t, now)
    BY <2>4, <2>5, <2>6, LookBack
  <2>8. QED
    BY <2>5, <2>7 DEF OpenedFor, OpenedAt
<1>2. QED
  BY <1>1, AdmissionCorrect, PTL DEF Spec, BeginsInsideWindows

\* A request whose policy is reported valid, and whose own window is, never fails for
\* want of a window that parses (validatePolicySpec, WindowsOpen).
THEOREM ReportKept == Spec => ReportedValidNeverErrs
<1>1. AdmissionInv /\ [Next]_vars =>
        [/\ phase = "Planned" /\ phase' = "Failed" /\ Resolved /\ ~TargetError
         /\ \A w \in ToSet(request.own) : Valid(w)
         => PolicyName \in DOMAIN objects /\ report[PolicyName] # "Valid"]_vars
  <2> SUFFICES ASSUME AdmissionInv, Next, phase = "Planned", phase' = "Failed", Resolved,
                      ~TargetError, \A w \in ToSet(request.own) : Valid(w)
               PROVE  PolicyName \in DOMAIN objects /\ report[PolicyName] # "Valid"
    BY DEF vars
  <2>1. Start
    BY DEF Next, Controller, Unresolved, Resolved, Validate, Revalidate, Tick, Toggle,
           JoinOrLeave, EditPolicy, Report
  <2>2. Open = "error"
    <3>1. Target # <<>>
      BY <2>1 DEF Start
    <3>2. QED
      BY <2>1, <3>1, OpenIs DEF Start
  <2>3. request.own \in Seq(WindowRecord) /\ Policy.windows \in Seq(WindowRecord)
    BY TypedInputs, WindowsTyped DEF AdmissionInv
  <2>4. AnyOpen(request.own, now) # "error"
    BY <2>3, VerdictOfValid
  <2>5. AnyOpen(Policy.windows, now) = "error"
    BY <2>2, <2>4 DEF Open, WindowsOpen
  <2>6. PICK w \in ToSet(Policy.windows) : ~Valid(w)
    BY <2>3, <2>5, VerdictOfValid
  <2>7. PolicyName \in DOMAIN objects
    <3> SUFFICES ASSUME PolicyName \notin DOMAIN objects PROVE FALSE
      OBVIOUS
    <3>1. Policy = WithDefaults(DefaultSpec)
      BY DEF Policy, Resolve, PolicyName
    <3>2. Policy.windows = <<>>
      BY <3>1 DEF WithDefaults, DefaultSpec
    <3>3. QED
      BY <2>6, <3>2 DEF ToSet
  <2>8. Policy.windows = objects[PolicyName].windows
    <3>1. Policy = WithDefaults(objects[PolicyName])
      BY <2>7 DEF Policy, Resolve, PolicyName
    <3>2. objects[PolicyName] \in PolicyRecord
      BY <2>7 DEF AdmissionInv, TypeOK
    <3>3. QED
      BY <3>1, <3>2 DEF WithDefaults, PolicyRecord
  <2>9. report[PolicyName] # "Valid"
    <3> SUFFICES ASSUME report[PolicyName] = "Valid" PROVE FALSE
      OBVIOUS
    <3>1. PolicyValid(objects[PolicyName])
      BY <2>7 DEF AdmissionInv, ReportedTrue
    <3>2. QED
      BY <2>6, <2>8, <3>1 DEF PolicyValid, WindowsParse, ToSet
  <2>10. QED
    BY <2>7, <2>9
<1>2. QED
  BY <1>1, AdmissionCorrect, PTL DEF Spec, ReportedValidNeverErrs

-----------------------------------------------------------------------------
(***************************************************************************)
(* The preflight checks.                                                   *)
(***************************************************************************)
Result == {"Fail", "Warn"}

\* Lists of one result.
LEMMA Statuses ==
  ASSUME NEW n \in Nat
  PROVE  /\ Fails(n) \in Seq(Result) /\ Warns(n) \in Seq(Result) /\ Len(Fails(n)) = n
         /\ HasFail(Fails(n)) <=> n > 0
<1>1. Fails(n) \in [1 .. n -> Result] /\ Warns(n) \in [1 .. n -> Result]
  BY DEF Fails, Warns, Result
<1>2. HasFail(Fails(n)) <=> \E i \in 1 .. n : TRUE
  BY DEF HasFail, ToSet, Fails
<1>3. (\E i \in 1 .. n : TRUE) <=> n > 0
  <2>1. n > 0 => 1 \in 1 .. n
    OBVIOUS
  <2>2. QED
    BY <2>1
<1>4. Fails(n) \in Seq(Result) /\ Warns(n) \in Seq(Result) /\ Len(Fails(n)) = n
  BY <1>1
<1>5. QED
  BY <1>2, <1>3, <1>4

\* No result is a list of results.
LEMMA NoStatus == <<>> \in Seq(Result)
OBVIOUS

\* A failure in either of two lists is one of the lists joined.
LEMMA JoinedFail ==
  ASSUME NEW s \in Seq(Result), NEW t \in Seq(Result)
  PROVE  s \o t \in Seq(Result) /\ (HasFail(s) \/ HasFail(t) => HasFail(s \o t))
BY JoinKeeps DEF HasFail

\* truncate keeps a failure.
LEMMA TruncateKeepsFail ==
  ASSUME NEW results \in Seq(Result), HasFail(results)
  PROVE  HasFail(Truncate(results))
<1> DEFINE f == Count(results, {"Fail"})
           kept == Min({Len(results) - f, Max({0, MaxResults - f})})
<1>1. CASE Len(results) <= MaxResults
  BY <1>1 DEF Truncate
<1>2. CASE ~(Len(results) <= MaxResults)
  <2>1. /\ IsFiniteSet(PlacesOf(results, {"Fail"})) /\ f \in Nat
        /\ f = Cardinality(PlacesOf(results, {"Fail"}))
        /\ PlacesOf(results, {"Fail"}) \in SUBSET (1 .. Len(results))
    BY PlacesAreFinite
  <2>2. f > 0
    <3>1. PlacesOf(results, {"Fail"}) # {}
      BY DEF HasFail, ToSet, PlacesOf
    <3>2. QED
      BY <2>1, <3>1, FS_EmptySet
  <2>3. f <= Len(results)
    <3>1. Len(results) \in Nat /\ IsFiniteSet(1 .. Len(results))
      BY FS_Interval
    <3>2. Cardinality(1 .. Len(results))
            = IF 1 > Len(results) THEN 0 ELSE Len(results) - 1 + 1
      BY <3>1, FS_Interval
    <3>3. QED
      BY <2>1, <3>1, <3>2, FS_Subset
  <2> HIDE DEF f
  <2>4. kept \in Nat
    <3>1. Len(results) - f \in Nat /\ MaxResults - f \in Int
      BY <2>1, <2>3, NodeAssumption
    <3> DEFINE room == MaxResults - f
               rest == Len(results) - f
               most == Max({0, room})
    <3>2. rest \in Nat /\ room \in Int
      BY <3>1
    <3> HIDE DEF room, rest
    <3>3. most = IF 0 >= room THEN 0 ELSE room
      BY <3>2 DEF Max
    <3>4. most \in Nat
      BY <3>2, <3>3
    <3> HIDE DEF most
    <3>5. Min({rest, most}) = IF rest <= most THEN rest ELSE most
      BY <3>2, <3>4, OfTwo
    <3>6. kept = Min({rest, most})
      BY DEF rest, most, room
    <3>7. QED
      BY <3>2, <3>4, <3>5, <3>6
  <2> HIDE DEF kept
  <2>5. Truncate(results) = Fails(f) \o Warns(kept)
    BY <1>2 DEF Truncate, f, kept
  <2>6. QED
    BY <2>1, <2>2, <2>4, <2>5, Statuses, JoinedFail
<1>3. QED
  BY <1>1, <1>2

\* What the checks of a node that fail say of it.
LEMMA NodeChecked ==
  ASSUME NEW n, NEW r, NEW policy, NEW risks \in Nat
  PROVE  /\ CheckNode(n, r, policy, cordoned, risks) \in Seq(Result)
         /\ n \in ControlPlane /\ ControlPlaneBlocked(policy, r.allowControlPlane)
            => HasFail(CheckNode(n, r, policy, cordoned, risks))
         /\ n \in policy.reserved => HasFail(CheckNode(n, r, policy, cordoned, risks))
<1> DEFINE p == If(n \in cordoned, Warns(1))
           q == If(n \in ControlPlane /\ ControlPlaneBlocked(policy, r.allowControlPlane), Fails(1))
           s == If(n \in policy.reserved, Fails(1))
           t == Warns(risks)
<1>1. /\ Warns(1) \in Seq(Result) /\ Fails(1) \in Seq(Result) /\ HasFail(Fails(1))
      /\ t \in Seq(Result)
  BY Statuses
<1>2. p \in Seq(Result)
  BY <1>1, NoStatus DEF If
<1>3. /\ q \in Seq(Result)
      /\ n \in ControlPlane /\ ControlPlaneBlocked(policy, r.allowControlPlane) => HasFail(q)
  BY <1>1, NoStatus DEF If
<1>4. s \in Seq(Result) /\ (n \in policy.reserved => HasFail(s))
  BY <1>1, NoStatus DEF If
<1>5. CheckNode(n, r, policy, cordoned, risks) = ((p \o q) \o s) \o t
  BY DEF CheckNode
<1> HIDE DEF p, q, s, t
<1>6. p \o q \in Seq(Result) /\ (HasFail(q) => HasFail(p \o q))
  BY <1>2, <1>3, JoinedFail
<1>7. /\ (p \o q) \o s \in Seq(Result)
      /\ HasFail(q) \/ HasFail(s) => HasFail((p \o q) \o s)
  BY <1>4, <1>6, JoinedFail
<1>8. /\ ((p \o q) \o s) \o t \in Seq(Result)
      /\ HasFail(q) \/ HasFail(s) => HasFail(((p \o q) \o s) \o t)
  BY <1>1, <1>7, JoinedFail
<1>9. QED
  BY <1>3, <1>4, <1>5, <1>8

\* What the check of a replacement that does not fail says of the nodes.
LEMMA ReplacementChecked ==
  ASSUME NEW nodes \in Seq(Node), NEW r, NEW policy
  PROVE  /\ CheckReplacement(r, policy, nodes) \in Seq(Result)
         /\ r.replace /\ ~HasFail(CheckReplacement(r, policy, nodes)) =>
              policy.allowReplacement /\ ToSet(nodes) \subseteq HasMachine \cup AtVersion
<1> DEFINE part(i) == IF nodes[i] \in AtVersion THEN Warns(1)
                      ELSE If(nodes[i] \notin HasMachine, Fails(1))
           parts == [i \in DOMAIN nodes |-> part(i)]
<1>1. Warns(1) \in Seq(Result) /\ Fails(1) \in Seq(Result) /\ HasFail(Fails(1))
  BY Statuses
<1>2. \A i \in DOMAIN nodes :
        /\ part(i) \in Seq(Result)
        /\ nodes[i] \notin HasMachine \cup AtVersion => HasFail(part(i))
  BY <1>1, NoStatus DEF If
<1>3. \A i \in DOMAIN nodes : parts[i] = part(i)
  OBVIOUS
<1>4. parts \in Seq(Seq(Result)) /\ DOMAIN parts = DOMAIN nodes
  <2>1. parts \in [1 .. Len(nodes) -> Seq(Result)] /\ Len(nodes) \in Nat
    BY <1>2
  <2> HIDE DEF parts
  <2>2. QED
    BY <2>1
<1>5. CheckReplacement(r, policy, nodes) =
        IF ~r.replace THEN <<>> ELSE IF ~policy.allowReplacement THEN Fails(1)
        ELSE FlattenSeq(parts)
  BY DEF CheckReplacement
<1> HIDE DEF parts, part
<1>6. /\ FlattenSeq(parts) \in Seq(Result)
      /\ \A i \in DOMAIN nodes : ToSet(parts[i]) \subseteq ToSet(FlattenSeq(parts))
  BY <1>4, FlattenKeeps
<1>7. ~HasFail(FlattenSeq(parts)) => ToSet(nodes) \subseteq HasMachine \cup AtVersion
  BY <1>2, <1>3, <1>6 DEF HasFail, ToSet
<1>8. QED
  BY <1>1, <1>5, <1>6, <1>7, NoStatus

\* What the checks of a request r say when none fails.
Sound(r, policy, nodes, missing) ==
  /\ missing = 0
  /\ \A n \in ToSet(nodes) :
       /\ ~(n \in ControlPlane /\ ControlPlaneBlocked(policy, r.allowControlPlane))
       /\ n \notin policy.reserved
  /\ UnavailabilityCapped(policy) =>
       ~(Peak(r, policy, nodes, cordoned) > MaxUnavailable(policy, Len(nodes)))
  /\ r.replace =>
       policy.allowReplacement /\ ToSet(nodes) \subseteq HasMachine \cup AtVersion

\* The results of the checks: if none is a failure, the nodes may be worked on.
LEMMA Checked ==
  ASSUME NEW nodes \in Seq(Node), NEW r, NEW policy, NEW missing \in Nat, NEW risks \in Nat,
         NEW headroom, NEW open
  PROVE  LET results == Checks(r, policy, nodes, missing, cordoned, risks, headroom, open)
         IN  results \in Seq(Result) /\ (~HasFail(results) => Sound(r, policy, nodes, missing))
<1> DEFINE parts == [i \in DOMAIN nodes |-> CheckNode(nodes[i], r, policy, cordoned, risks)]
           a == Fails(missing)
           b == FlattenSeq(parts)
           c == If(policy.minHeadroom > 0 /\ headroom < policy.minHeadroom, Fails(1))
           d == CheckUnavailability(r, policy, nodes, cordoned)
           e == If(open # "open", Warns(1))
           f == CheckReplacement(r, policy, nodes)
<1>1. Warns(1) \in Seq(Result) /\ Fails(1) \in Seq(Result) /\ HasFail(Fails(1))
  BY Statuses
<1>2. parts \in Seq(Seq(Result)) /\ DOMAIN parts = DOMAIN nodes
  <2>1. \A i \in DOMAIN nodes : CheckNode(nodes[i], r, policy, cordoned, risks) \in Seq(Result)
    BY NodeChecked
  <2>2. parts \in [1 .. Len(nodes) -> Seq(Result)] /\ Len(nodes) \in Nat
    BY <2>1
  <2> HIDE DEF parts
  <2>3. QED
    BY <2>2
<1>3. a \in Seq(Result) /\ (HasFail(a) <=> missing > 0)
  BY Statuses
<1>4. b \in Seq(Result) /\ \A i \in DOMAIN nodes : ToSet(parts[i]) \subseteq ToSet(b)
  <2> HIDE DEF parts
  <2>1. QED
    BY <1>2, FlattenKeeps
<1>5. c \in Seq(Result) /\ e \in Seq(Result)
  BY <1>1, NoStatus DEF If
<1>6. /\ d \in Seq(Result)
      /\ UnavailabilityCapped(policy)
           /\ Peak(r, policy, nodes, cordoned) > MaxUnavailable(policy, Len(nodes)) => HasFail(d)
  BY <1>1, NoStatus DEF If, CheckUnavailability
<1>7. f \in Seq(Result)
  BY ReplacementChecked
<1>8. Checks(r, policy, nodes, missing, cordoned, risks, headroom, open)
        = ((((a \o b) \o c) \o d) \o e) \o f
  BY DEF Checks
<1>9. \A i \in DOMAIN nodes : parts[i] = CheckNode(nodes[i], r, policy, cordoned, risks)
  OBVIOUS
<1> HIDE DEF parts, a, b, c, d, e, f
<1>10. a \o b \in Seq(Result) /\ (HasFail(a) \/ HasFail(b) => HasFail(a \o b))
  BY <1>3, <1>4, JoinedFail
<1>11. (a \o b) \o c \in Seq(Result) /\ (HasFail(a \o b) => HasFail((a \o b) \o c))
  BY <1>5, <1>10, JoinedFail
<1> DEFINE abc == (a \o b) \o c
<1> HIDE DEF abc
<1>12. abc \o d \in Seq(Result) /\ (HasFail(abc) \/ HasFail(d) => HasFail(abc \o d))
  BY <1>6, <1>11, JoinedFail DEF abc
<1>13. (abc \o d) \o e \in Seq(Result) /\ (HasFail(abc \o d) => HasFail((abc \o d) \o e))
  BY <1>5, <1>12, JoinedFail
<1>14. /\ ((abc \o d) \o e) \o f \in Seq(Result)
       /\ HasFail((abc \o d) \o e) \/ HasFail(f) => HasFail(((abc \o d) \o e) \o f)
  BY <1>7, <1>13, JoinedFail
<1> DEFINE results == ((abc \o d) \o e) \o f
<1>15. HasFail(a) \/ HasFail(b) \/ HasFail(d) \/ HasFail(f) => HasFail(results)
  BY <1>10, <1>11, <1>12, <1>13, <1>14 DEF abc
<1> HIDE DEF results
<1>16. ~HasFail(results) => missing = 0
  BY <1>3, <1>15
<1>17. ASSUME NEW n \in ToSet(nodes), ~HasFail(results)
       PROVE  /\ ~(n \in ControlPlane /\ ControlPlaneBlocked(policy, r.allowControlPlane))
              /\ n \notin policy.reserved
  <2>1. PICK i \in DOMAIN nodes : nodes[i] = n
    BY DEF ToSet
  <2>2. ~HasFail(CheckNode(n, r, policy, cordoned, risks))
    BY <1>4, <1>9, <1>15, <1>17, <2>1 DEF HasFail
  <2>3. QED
    BY <2>2, NodeChecked
<1>18. ~HasFail(results) /\ r.replace =>
         policy.allowReplacement /\ ToSet(nodes) \subseteq HasMachine \cup AtVersion
  BY <1>15, ReplacementChecked DEF f
<1>19. ~HasFail(results) => Sound(r, policy, nodes, missing)
  BY <1>6, <1>15, <1>16, <1>17, <1>18 DEF Sound
<1>20. Checks(r, policy, nodes, missing, cordoned, risks, headroom, open) = results
  BY <1>8 DEF results, abc
<1>21. QED
  BY <1>14, <1>19, <1>20 DEF results

\* A pass that plans a request for the first time found no failure.
LEMMA PlannedWasChecked ==
  ASSUME AdmissionInv, Next, phase # "Planned", phase' = "Planned"
  PROVE  /\ Target \in Seq(Node) /\ Missing = 0 /\ \A n \in ToSet(Target) : Vetted(n)
         /\ UnavailabilityCapped(Policy) =>
              ~(Peak(request, Policy, Target, cordoned) > MaxUnavailable(Policy, Len(Target)))
<1>1. Inputs
  BY TypedInputs DEF AdmissionInv
<1>2. Validate
  BY DEF Next, Controller, Unresolved, Revalidate, Start, Tick, Toggle, JoinOrLeave,
         EditPolicy, Report
<1>3. Target \in Seq(Node)
  BY <1>1, TargetIs
<1>4. Missing \in Nat
  <2>1. CASE request.type = "Node"
    <3>1. request.names \in Seq(Nat)
      BY <1>1 DEF Inputs, RequestRecord
    <3>2. existing \in SUBSET Nat
      BY <1>1, NodesAreNumbers DEF Inputs
    <3>3. Len(Target) = Count(request.names, existing)
      BY <2>1, <3>1, SortedInTypes DEF Target
    <3>4. /\ PlacesOf(request.names, existing) \in SUBSET (1 .. Len(request.names))
          /\ Count(request.names, existing) = Cardinality(PlacesOf(request.names, existing))
          /\ Count(request.names, existing) \in Nat
      BY <3>1, PlacesAreFinite
    <3>5. Len(request.names) \in Nat /\ IsFiniteSet(1 .. Len(request.names))
      BY <3>1, FS_Interval
    <3>6. Cardinality(1 .. Len(request.names))
            = IF 1 > Len(request.names) THEN 0 ELSE Len(request.names) - 1 + 1
      BY <3>5, FS_Interval
    <3>7. Count(request.names, existing) <= Cardinality(1 .. Len(request.names))
      BY <3>4, <3>5, FS_Subset
    <3>8. QED
      BY <2>1, <3>3, <3>4, <3>5, <3>6, <3>7 DEF Missing
  <2>2. CASE request.type # "Node"
    BY <2>2 DEF Missing
  <2>3. QED
    BY <2>1, <2>2
<1>5. PICK risks \in 0 .. 1, headroom \in Headrooms :
        ~HasFail(Truncate(Checks(request, Policy, Target, Missing, cordoned,
                                 risks, headroom, Open)))
  BY <1>2 DEF Validate
<1> DEFINE results == Checks(request, Policy, Target, Missing, cordoned, risks, headroom, Open)
<1>6. results \in Seq(Result) /\ (~HasFail(results) => Sound(request, Policy, Target, Missing))
  <2>1. risks \in Nat
    OBVIOUS
  <2>2. QED
    BY <1>3, <1>4, <2>1, Checked
<1> HIDE DEF results
<1>7. ~HasFail(results)
  BY <1>5, <1>6, TruncateKeepsFail DEF results
<1>8. Sound(request, Policy, Target, Missing)
  BY <1>6, <1>7
<1>9. \A n \in ToSet(Target) : Vetted(n)
  BY <1>8 DEF Sound, Vetted, ControlPlaneBlocked
<1>10. QED
  BY <1>3, <1>8, <1>9 DEF Sound

\* Validation lets a request through only if each name it lists is a node and each node
\* may be touched: no failure is lost in a list of any length (truncate).
THEOREM PlannedVetted == Spec => PlannedIsVetted
<1>1. AdmissionInv /\ [Next]_vars =>
        [phase # "Planned" /\ phase' = "Planned" =>
           Missing = 0 /\ \A n \in ToSet(Target) : Vetted(n)]_vars
  BY PlannedWasChecked DEF vars
<1>2. QED
  BY <1>1, AdmissionCorrect, PTL DEF Spec, PlannedIsVetted

-----------------------------------------------------------------------------
(***************************************************************************)
(* The limits.                                                             *)
(***************************************************************************)
\* The limit is no more than each cap that is set, where they allow more than one.
LEMMA LimitIs ==
  ASSUME NEW policy \in PolicyRecord, NEW total \in Nat, NEW count \in Nat,
         NEW peak \in Nat, count > 1, count <= peak, ~(peak > MaxUnavailable(policy, total))
  PROVE  /\ policy.maxUnavailableNodes > 0 => count <= policy.maxUnavailableNodes
         /\ policy.maxUnavailablePercent > 0 =>
              100 * count <= policy.maxUnavailablePercent * total
<1> DEFINE nodes == policy.maxUnavailableNodes
           percent == policy.maxUnavailablePercent
           share(p) == Max({1, (total * p) \div 100})
           caps == {total} \cup {c \in {nodes} : c > 0} \cup {share(p) : p \in {percent} \ {0}}
           m == MaxUnavailable(policy, total)
<1>1. nodes \in Int /\ percent \in Int
  BY DEF PolicyRecord
<1>2. m = Max({1, Min(caps)})
  BY DEF MaxUnavailable
<1>3. /\ total * percent \in Int /\ (total * percent) \div 100 \in Int
      /\ 100 * ((total * percent) \div 100) <= total * percent
  <2>1. total * percent \in Int /\ 100 \in Nat \ {0}
    BY <1>1
  <2> DEFINE x == total * percent
  <2> HIDE DEF x
  <2>2. x \in Int
    BY <2>1 DEF x
  <2>3. x \div 100 \in Int /\ x % 100 \in 0 .. 100 - 1 /\ x = 100 * (x \div 100) + (x % 100)
    BY <2>1, <2>2, Division
  <2>4. 100 * (x \div 100) <= x
    BY <2>2, <2>3
  <2>5. QED
    BY <2>1, <2>3, <2>4 DEF x
<1>4. /\ share(percent) \in Int
      /\ share(percent) = IF 1 >= (total * percent) \div 100 THEN 1
                          ELSE (total * percent) \div 100
  <2> DEFINE x == (total * percent) \div 100
  <2>1. x \in Int
    BY <1>3
  <2> HIDE DEF x
  <2>2. Max({1, x}) = IF 1 >= x THEN 1 ELSE x
    BY <2>1 DEF Max
  <2>3. QED
    BY <2>1, <2>2 DEF x
<1> HIDE DEF nodes, percent, m, share
<1>5. caps \subseteq {total, nodes, share(percent)} /\ total \in caps
  OBVIOUS
<1>6. IsFiniteSet(caps)
  <2>1. IsFiniteSet({total}) /\ IsFiniteSet({nodes}) /\ IsFiniteSet({share(percent)})
    BY FS_Singleton
  <2>2. IsFiniteSet({total} \cup {nodes})
    BY <2>1, FS_Union
  <2>3. IsFiniteSet(({total} \cup {nodes}) \cup {share(percent)})
    BY <2>1, <2>2, FS_Union
  <2>4. caps \in SUBSET (({total} \cup {nodes}) \cup {share(percent)})
    BY <1>5
  <2> HIDE DEF caps
  <2>5. QED
    BY <2>3, <2>4, FS_Subset
<1>7. caps \in SUBSET Int /\ caps # {}
  BY <1>1, <1>4, <1>5
<1>8. nodes > 0 => nodes \in caps
  BY <1>1
<1>9. percent > 0 => share(percent) \in caps
  BY <1>1
<1> HIDE DEF caps
<1>10. Min(caps) \in Int /\ \A c \in caps : Min(caps) <= c
  BY <1>6, <1>7, FiniteExtremes
<1>11. count <= Min(caps)
  <2> DEFINE x == Min(caps)
  <2>1. x \in Int
    BY <1>10
  <2> HIDE DEF x
  <2>2. Max({1, x}) = IF 1 >= x THEN 1 ELSE x
    BY <2>1 DEF Max
  <2>3. m = Max({1, x}) /\ ~(peak > m)
    BY <1>2 DEF x, m
  <2>4. count <= x
    BY <2>1, <2>2, <2>3
  <2>5. QED
    BY <2>4 DEF x
<1>12. nodes > 0 => count <= nodes
  BY <1>1, <1>8, <1>10, <1>11
<1>13. percent > 0 => 100 * count <= percent * total
  <2> SUFFICES ASSUME percent > 0 PROVE 100 * count <= percent * total
    OBVIOUS
  <2>1. count <= share(percent)
    BY <1>4, <1>9, <1>10, <1>11
  <2> DEFINE x == total * percent
             y == x \div 100
  <2>2. count <= y /\ y \in Int /\ 100 * y <= x /\ x \in Int
    BY <1>3, <1>4, <2>1
  <2>3. x = percent * total
    BY <1>1
  <2> HIDE DEF x, y
  <2>4. QED
    BY <2>2, <2>3
<1>14. QED
  BY <1>12, <1>13 DEF nodes, percent

\* A target that names no node twice has each of its nodes in one place.
LEMMA CountOf ==
  ASSUME NEW nodes \in Seq(Node), IsInjective(nodes), NEW S
  PROVE  /\ IsFiniteSet(ToSet(nodes) \cap S)
         /\ Count(nodes, S) = Cardinality(ToSet(nodes) \cap S) /\ Count(nodes, S) \in Nat
<1> DEFINE P == PlacesOf(nodes, S)
           f == [i \in P |-> nodes[i]]
<1>1. IsFiniteSet(P) /\ Cardinality(P) = Count(nodes, S) /\ Cardinality(P) \in Nat
  BY PlacesAreFinite
<1>2. \A x : x \in ToSet(nodes) \cap S <=> \E i \in P : nodes[i] = x
  BY DEF PlacesOf, ToSet
<1>3. \A i, j \in P : nodes[i] = nodes[j] => i = j
  BY DEF PlacesOf, IsInjective
<1> HIDE DEF P
<1>4. f \in Bijection(P, ToSet(nodes) \cap S)
  <2>1. f \in [P -> ToSet(nodes) \cap S]
    BY <1>2
  <2>2. IsInjective(f)
    BY <1>3 DEF IsInjective
  <2>3. \A x \in ToSet(nodes) \cap S : \E i \in P : f[i] = x
    BY <1>2
  <2> HIDE DEF f
  <2>4. QED
    BY <2>1, <2>2, <2>3 DEF Bijection, Injection, Surjection
<1>5. QED
  BY <1>1, <1>4, FS_Bijection DEF ExistsBijection

\* What a request may hold cordoned at one time, with what is cordoned already, is at
\* most the peak that the checks measure.
LEMMA HeldIsBelowPeak ==
  ASSUME Inputs, Target \in Seq(Node), IsInjective(Target),
         NEW held \in SUBSET (ToSet(Target) \ cordoned),
         ~(request.uncordonAfter
             /\ Cardinality(held) > Concurrency(Policy, request.maxConcurrent))
  PROVE  /\ Cardinality(held) \in Nat /\ Count(Target, cordoned) \in Nat
         /\ Peak(request, Policy, Target, cordoned) \in Nat
         /\ Cardinality(held) + Count(Target, cordoned)
              <= Peak(request, Policy, Target, cordoned)
<1> DEFINE add == Count(Target, Node \ cordoned)
           c == Concurrency(Policy, request.maxConcurrent)
           h == Cardinality(held)
           already == Count(Target, cordoned)
<1>1. c \in Nat
  BY PolicyIs, ConcurrencyIs DEF Inputs, RequestRecord
<1>2. already \in Nat
  BY CountOf
<1>3. add \in Nat /\ h \in Nat /\ h <= add
  <2>1. /\ IsFiniteSet(ToSet(Target) \cap (Node \ cordoned)) /\ add \in Nat
        /\ add = Cardinality(ToSet(Target) \cap (Node \ cordoned))
    BY CountOf
  <2>2. held \in SUBSET (ToSet(Target) \cap (Node \ cordoned))
    BY ToSetOf
  <2>3. IsFiniteSet(held) /\ h <= add
    BY <2>1, <2>2, FS_Subset
  <2>4. QED
    BY <2>1, <2>3, FS_CardinalityType
<1>4. Peak(request, Policy, Target, cordoned)
        = already + (IF request.uncordonAfter THEN Min({add, c}) ELSE add)
  BY DEF Peak
<1>5. ~(request.uncordonAfter /\ h > c)
  OBVIOUS
<1> HIDE DEF add, c, h, already
<1>6. Min({add, c}) = IF add <= c THEN add ELSE c
  BY <1>1, <1>3, OfTwo
<1>7. QED
  BY <1>1, <1>2, <1>3, <1>4, <1>5, <1>6 DEF h, already

\* When a request is let through, no choice of nodes that it may hold cordoned at one
\* time, with those cordoned already, exceeds the policy's limits, for any limits, any
\* number of nodes and any concurrency (CheckUnavailability).
THEOREM PlannedLimited == Spec => PlannedWithinLimit
<1> DEFINE Fits(held) ==
      \/ /\ request.uncordonAfter
         /\ Cardinality(held) > Concurrency(Policy, request.maxConcurrent)
      \/ held = {}
      \/ WithinLimit(Cardinality(held) + Count(Target, cordoned))
<1>1. AdmissionInv /\ [Next]_vars =>
        [phase # "Planned" /\ phase' = "Planned" /\ IsInjective(Target) =>
           \A held \in SUBSET (ToSet(Target) \ cordoned) : Fits(held)]_vars
  <2> SUFFICES ASSUME AdmissionInv, Next, phase # "Planned", phase' = "Planned",
                      IsInjective(Target), NEW held \in SUBSET (ToSet(Target) \ cordoned),
                      ~(request.uncordonAfter
                        /\ Cardinality(held) > Concurrency(Policy, request.maxConcurrent))
               PROVE  WithinLimit(Cardinality(held) + Count(Target, cordoned))
    BY DEF vars
  <2> DEFINE count == Cardinality(held) + Count(Target, cordoned)
             total == Len(Target)
             peak == Peak(request, Policy, Target, cordoned)
  <2>1. Inputs
    BY TypedInputs DEF AdmissionInv
  <2>2. /\ Target \in Seq(Node)
        /\ UnavailabilityCapped(Policy) => ~(peak > MaxUnavailable(Policy, total))
    BY PlannedWasChecked
  <2>3. Policy \in PolicyRecord /\ total \in Nat
    BY <2>1, <2>2, PolicyIs
  <2>4. count \in Nat /\ peak \in Nat /\ count <= peak
    BY <2>1, <2>2, HeldIsBelowPeak
  <2> HIDE DEF count, peak, total
  <2>5. CASE ~UnavailabilityCapped(Policy)
    BY <2>5 DEF WithinLimit, UnavailabilityCapped, count
  <2>6. CASE UnavailabilityCapped(Policy) /\ count > 1
    <3>1. /\ Policy.maxUnavailableNodes > 0 => count <= Policy.maxUnavailableNodes
          /\ Policy.maxUnavailablePercent > 0 =>
               100 * count <= Policy.maxUnavailablePercent * total
      BY <2>2, <2>3, <2>4, <2>6, LimitIs
    <3>2. QED
      BY <3>1 DEF WithinLimit, count, total
  <2>7. CASE ~(count > 1)
    BY <2>4, <2>7 DEF WithinLimit, count
  <2>8. QED
    BY <2>5, <2>6, <2>7
<1>2. QED
  BY <1>1, AdmissionCorrect, PTL DEF Spec, PlannedWithinLimit

=============================================================================
