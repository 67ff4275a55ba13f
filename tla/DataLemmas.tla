------------------------------ MODULE DataLemmas ------------------------------
(***************************************************************************)
(* Numbers, finite sets and sequences: what the proofs about the           *)
(* dashboard's lists and the admission of a request need to know of them.  *)
(***************************************************************************)
EXTENDS Integers, SequencesExt, FiniteSetTheorems, WellFoundedInduction, TLAPS

\* A set of numbers that is not empty has a least one.
LEMMA LeastNatural ==
  ASSUME NEW S \in SUBSET Nat, S # {}
  PROVE  \E m \in S : \A k \in S : m <= k
<1>1. \E m \in S : \A k \in S : <<k, m>> \notin OpToRel(<, Nat)
  BY NatLessThanWellFounded, WFMin, Zenon
<1>2. \E m \in S : \A k \in S : ~(k < m)
  BY <1>1 DEF OpToRel
<1>3. QED
  BY <1>2

\* Induction over the numbers, said of a set.
LEMMA Induction ==
  ASSUME NEW S, 0 \in S, \A n \in Nat : n \in S => n + 1 \in S
  PROVE  Nat \subseteq S
<1> SUFFICES ASSUME Nat \ S # {} PROVE FALSE
  OBVIOUS
<1>1. PICK m \in Nat \ S : \A k \in Nat \ S : m <= k
  BY LeastNatural
<1>2. m # 0 /\ m - 1 \in Nat
  BY <1>1
<1>3. m - 1 \in S
  BY <1>1, <1>2
<1>4. QED
  BY <1>1, <1>2, <1>3

\* A finite set of numbers that is not empty has a least and a greatest one.
LEMMA FiniteExtremes ==
  ASSUME NEW S \in SUBSET Int, S # {}, IsFiniteSet(S)
  PROVE  /\ Min(S) \in S /\ \A k \in S : Min(S) <= k
         /\ Max(S) \in S /\ \A k \in S : Max(S) >= k
<1> DEFINE Has(T) == T # {} => (\E m \in T : \A k \in T : m <= k) /\ (\E m \in T : \A k \in T : m >= k)
           Sizes == {n \in Nat : \A T \in SUBSET S : Cardinality(T) = n => Has(T)}
<1>0. \A T \in SUBSET S : IsFiniteSet(T) /\ Cardinality(T) \in Nat
  BY FS_Subset, FS_CardinalityType
<1>1. 0 \in Sizes
  BY <1>0, FS_EmptySet
<1>2. ASSUME NEW n \in Nat, n \in Sizes PROVE n + 1 \in Sizes
  <2> SUFFICES ASSUME NEW T \in SUBSET S, Cardinality(T) = n + 1, T # {} PROVE Has(T)
    OBVIOUS
  <2>1. PICK x \in T : TRUE
    OBVIOUS
  <2>a. IsFiniteSet(T)
    BY <1>0
  <2>b. Cardinality(T \ {x}) = Cardinality(T) - 1
    BY <2>1, <2>a, FS_RemoveElement
  <2>2. T \ {x} \in SUBSET S /\ Cardinality(T \ {x}) = n
    BY <2>b
  <2>3. Has(T \ {x})
    BY <1>2, <2>2
  <2>4. CASE T \ {x} = {}
    BY <2>1, <2>4
  <2>5. CASE T \ {x} # {}
    <3>1. PICK lo \in T \ {x} : \A k \in T \ {x} : lo <= k
      BY <2>3, <2>5
    <3>2. PICK hi \in T \ {x} : \A k \in T \ {x} : hi >= k
      BY <2>3, <2>5
    <3>3. \E m \in T : \A k \in T : m <= k
      BY <2>1, <3>1
    <3>4. \E m \in T : \A k \in T : m >= k
      BY <2>1, <3>2
    <3>5. QED
      BY <3>3, <3>4
  <2>6. QED
    BY <2>4, <2>5
<1> HIDE DEF Sizes
<1>3. Nat \subseteq Sizes
  BY <1>1, <1>2, Induction
<1>4. Has(S)
  BY <1>0, <1>3 DEF Sizes
<1>5. QED
  BY <1>4 DEF Min, Max

\* What a function makes of a finite set is finite.
LEMMA FiniteImage ==
  ASSUME NEW f, NEW S, IsFiniteSet(S)
  PROVE  IsFiniteSet({f[x] : x \in S})
<1>1. [x \in S |-> f[x]] \in Surjection(S, {f[x] : x \in S})
  BY DEF Surjection
<1>2. QED
  BY <1>1, FS_Surjection

\* Division with remainder.
LEMMA Division ==
  ASSUME NEW a \in Int, NEW b \in Nat \ {0}
  PROVE  a \div b \in Int /\ a % b \in 0 .. b - 1 /\ a = b * (a \div b) + (a % b)
OBVIOUS

\* It is the only one.
LEMMA DivisionUnique ==
  ASSUME NEW a \in Int, NEW b \in Nat \ {0}, NEW q \in Int, NEW r \in 0 .. b - 1, a = b * q + r
  PROVE  a \div b = q /\ a % b = r
OBVIOUS

\* A place among equal parts is in one of them.
LEMMA PartUnique ==
  ASSUME NEW b \in Nat \ {0}, NEW x \in Int, NEW y \in Int,
         NEW r \in 0 .. b - 1, NEW t \in 0 .. b - 1, b * x + r = b * y + t
  PROVE  x = y /\ r = t
<1> DEFINE a == b * x + r
<1>1. a \in Int /\ a = b * y + t
  OBVIOUS
<1>2. a \div b = x /\ a % b = r
  BY DivisionUnique
<1>3. a \div b = y /\ a % b = t
  BY <1>1, DivisionUnique
<1>4. QED
  BY <1>2, <1>3

\* What rounding up means.
LEMMA Ceiling ==
  ASSUME NEW n \in Nat, NEW b \in Nat \ {0}
  PROVE  LET c == (n + b - 1) \div b
         IN  c \in Nat /\ c * b <= n + b - 1 /\ n <= c * b
<1>1. n + b - 1 \in Nat
  OBVIOUS
<1> DEFINE m == n + b - 1
           q == m \div b
<1>2. q \in Int /\ m % b \in 0 .. b - 1 /\ m = b * q + (m % b)
  BY <1>1, Division
<1> HIDE DEF m, q
<1>3. q * b <= m /\ m < q * b + b
  BY <1>2
<1>4. q * b = b * q /\ b * q \in Int
  BY <1>2
<1>5. n <= q * b
  BY <1>3, <1>4 DEF m
<1>6. q >= 0
  BY <1>2, <1>5
<1>7. QED
  BY <1>2, <1>3, <1>5, <1>6 DEF m, q

\* A sequence of members of a set is one of members of a larger one.
LEMMA SeqGrows ==
  ASSUME NEW S, NEW T, S \subseteq T, NEW s \in Seq(S)
  PROVE  s \in Seq(T)
<1>1. s \in [1 .. Len(s) -> T] /\ Len(s) \in Nat
  OBVIOUS
<1>2. QED
  BY <1>1

\* The members of a sequence.
LEMMA ToSetOf ==
  ASSUME NEW T, NEW s \in Seq(T)
  PROVE  /\ ToSet(s) \subseteq T /\ DOMAIN s = 1 .. Len(s) /\ Len(s) \in Nat
         /\ \A x : x \in ToSet(s) <=> \E i \in 1 .. Len(s) : s[i] = x
BY DEF ToSet

\* The smaller and the greater of two.
LEMMA OfTwo ==
  ASSUME NEW a \in Int, NEW b \in Int
  PROVE  /\ Min({a, b}) = IF a <= b THEN a ELSE b
         /\ Max({a, b}) = IF a >= b THEN a ELSE b
BY DEF Min, Max

\* The members of a finite set in some order, each of them once.
LEMMA SetToSeqLists ==
  ASSUME NEW S, IsFiniteSet(S)
  PROVE  /\ SetToSeq(S) \in Seq(S) /\ Len(SetToSeq(S)) = Cardinality(S)
         /\ IsInjective(SetToSeq(S)) /\ ToSet(SetToSeq(S)) = S
<1> DEFINE D == 1 .. Cardinality(S)
           s == SetToSeq(S)
<1>1. Cardinality(S) \in Nat /\ Bijection(D, S) # {}
  BY FS_CardinalityType DEF ExistsBijection
<1>2. \E f \in [D -> S] : IsInjective(f)
  BY <1>1 DEF Bijection, Injection
<1>3. s \in [D -> S] /\ IsInjective(s)
  BY <1>2 DEF SetToSeq
<1>4. s \in Injection(D, S)
  BY <1>3 DEF Injection
<1>5. IsFiniteSet(D) /\ Cardinality(D) = Cardinality(S)
  BY <1>1, FS_Interval
<1>6. s \in Surjection(D, S)
  BY <1>4, <1>5, FS_Injection
<1> HIDE DEF s
<1>7. s \in Seq(S) /\ Len(s) = Cardinality(S)
  BY <1>1, <1>3
<1>8. ToSet(s) = S
  BY <1>3, <1>6 DEF Surjection, ToSet
<1>9. QED
  BY <1>3, <1>7, <1>8 DEF s

\* Two sequences joined.
LEMMA JoinKeeps ==
  ASSUME NEW T, NEW s \in Seq(T), NEW t \in Seq(T)
  PROVE  /\ s \o t \in Seq(T)
         /\ ToSet(s) \subseteq ToSet(s \o t) /\ ToSet(t) \subseteq ToSet(s \o t)
<1>1. /\ s \o t \in Seq(T) /\ Len(s \o t) = Len(s) + Len(t)
      /\ \A i \in 1 .. Len(s) : (s \o t)[i] = s[i]
      /\ \A i \in 1 .. Len(t) : (s \o t)[Len(s) + i] = t[i]
  OBVIOUS
<1>2. \A i \in 1 .. Len(s) : i \in 1 .. Len(s) + Len(t)
  OBVIOUS
<1>3. \A i \in 1 .. Len(t) : Len(s) + i \in 1 .. Len(s) + Len(t)
  OBVIOUS
<1>4. \A i \in 1 .. Len(s) : s[i] \in ToSet(s \o t)
  BY <1>1, <1>2, ToSetOf
<1>5. \A i \in 1 .. Len(t) : t[i] \in ToSet(s \o t)
  BY <1>1, <1>3, ToSetOf
<1>6. QED
  BY <1>1, <1>4, <1>5, ToSetOf

\* f is what FlattenSeq joins the first n sequences with.
Joins(seqs, n, f) == f = [i \in 1 .. n |-> IF i = 1 THEN seqs[i] ELSE f[i - 1] \o seqs[i]]

\* The joining of a list is defined, whatever its length.
LEMMA JoinDefined ==
  ASSUME NEW seqs
  PROVE  \A n \in Nat : \E f : Joins(seqs, n, f)
<1> DEFINE S == {n \in Nat : \E f : Joins(seqs, n, f)}
<1>1. 0 \in S
  <2>1. Joins(seqs, 0, [i \in 1 .. 0 |-> 0])
    BY DEF Joins
  <2>2. QED
    BY <2>1
<1>2. ASSUME NEW n \in Nat, n \in S PROVE n + 1 \in S
  <2>1. PICK f : Joins(seqs, n, f)
    BY <1>2
  <2> DEFINE last == IF n + 1 = 1 THEN seqs[n + 1] ELSE f[n] \o seqs[n + 1]
             h == [i \in 1 .. n + 1 |-> IF i = n + 1 THEN last ELSE f[i]]
  <2>2. \A i \in 1 .. n : h[i] = f[i]
    OBVIOUS
  <2>3. h[n + 1] = last
    OBVIOUS
  <2> HIDE DEF last
  <2>4. ASSUME NEW i \in 1 .. n + 1
        PROVE  h[i] = IF i = 1 THEN seqs[i] ELSE h[i - 1] \o seqs[i]
    <3> HIDE DEF h
    <3>1. CASE i = n + 1
      BY <2>2, <2>3, <3>1 DEF last
    <3>2. CASE i # n + 1
      <4>1. i \in 1 .. n /\ (i # 1 => i - 1 \in 1 .. n)
        BY <3>2
      <4>2. QED
        BY <2>1, <2>2, <4>1 DEF Joins
    <3>3. QED
      BY <3>1, <3>2
  <2>5. Joins(seqs, n + 1, h)
    BY <2>4 DEF Joins
  <2>6. QED
    BY <2>5
<1> HIDE DEF S
<1>3. Nat \subseteq S
  BY <1>1, <1>2, Induction
<1>4. QED
  BY <1>3 DEF S

\* What is joined has every member of every part.
LEMMA FlattenKeeps ==
  ASSUME NEW T, NEW seqs \in Seq(Seq(T))
  PROVE  /\ FlattenSeq(seqs) \in Seq(T)
         /\ \A i \in DOMAIN seqs : ToSet(seqs[i]) \subseteq ToSet(FlattenSeq(seqs))
<1>0. /\ Len(seqs) \in Nat /\ DOMAIN seqs = 1 .. Len(seqs)
      /\ \A i \in 1 .. Len(seqs) : seqs[i] \in Seq(T)
  OBVIOUS
<1>1. CASE Len(seqs) = 0
  <2>1. seqs = <<>> /\ FlattenSeq(seqs) = <<>>
    BY <1>1 DEF FlattenSeq
  <2>2. FlattenSeq(seqs) \in Seq(T)
    <3>1. <<>> \in Seq(T)
      OBVIOUS
    <3>2. QED
      BY <2>1, <3>1, Zenon
  <2>3. \A i \in DOMAIN seqs : FALSE
    BY <1>0, <1>1
  <2>4. QED
    BY <2>2, <2>3
<1>2. CASE Len(seqs) # 0
  <2> DEFINE f == CHOOSE g : Joins(seqs, Len(seqs), g)
  <2>1. Len(seqs) \in Nat \ {0}
    BY <1>2
  <2>2. FlattenSeq(seqs) = f[Len(seqs)]
    BY <1>2 DEF FlattenSeq, Joins
  <2>3. Joins(seqs, Len(seqs), f)
    BY <2>1, JoinDefined
  <2> HIDE DEF f
  <2>4. \A i \in 1 .. Len(seqs) : f[i] = IF i = 1 THEN seqs[i] ELSE f[i - 1] \o seqs[i]
    BY <2>3 DEF Joins
  <2> DEFINE Kept(i) == /\ f[i] \in Seq(T)
                        /\ \A j \in 1 .. i : ToSet(seqs[j]) \subseteq ToSet(f[i])
             S == {n \in Nat : n + 1 <= Len(seqs) => Kept(n + 1)}
  <2>5. 0 \in S
    <3>1. f[1] = seqs[1] /\ seqs[1] \in Seq(T)
      BY <2>1, <2>4
    <3>2. QED
      BY <3>1
  <2>6. ASSUME NEW n \in Nat, n \in S PROVE n + 1 \in S
    <3> SUFFICES ASSUME n + 1 + 1 <= Len(seqs) PROVE Kept(n + 1 + 1)
      OBVIOUS
    <3>1. Kept(n + 1)
      BY <2>1, <2>6
    <3> DEFINE g == f[n + 1]
               s == seqs[n + 1 + 1]
    <3>2. f[n + 1 + 1] = g \o s /\ s \in Seq(T) /\ g \in Seq(T)
      <4> DEFINE k == n + 1 + 1
      <4>1. k \in 1 .. Len(seqs) /\ k # 1 /\ k - 1 = n + 1
        BY <2>1
      <4> HIDE DEF k
      <4>2. f[k] = f[k - 1] \o seqs[k]
        BY <2>4, <4>1
      <4>3. f[k] = f[n + 1] \o seqs[k] /\ seqs[k] \in Seq(T) /\ f[n + 1] \in Seq(T)
        BY <1>0, <3>1, <4>1, <4>2
      <4>4. QED
        BY <4>3 DEF k
    <3>3. \A j \in 1 .. n + 1 : ToSet(seqs[j]) \subseteq ToSet(g)
      BY <3>1
    <3> HIDE DEF g, s
    <3>4. ToSet(g) \subseteq ToSet(g \o s) /\ ToSet(s) \subseteq ToSet(g \o s)
      BY <3>2, JoinKeeps
    <3>5. \A j \in 1 .. n + 1 + 1 : j \in 1 .. n + 1 \/ j = n + 1 + 1
      OBVIOUS
    <3>6. g \o s \in Seq(T)
      BY <3>2, JoinKeeps
    <3>7. \A j \in 1 .. n + 1 + 1 : ToSet(seqs[j]) \subseteq ToSet(g \o s)
      BY <3>3, <3>4, <3>5 DEF s
    <3>8. QED
      BY <3>2, <3>6, <3>7
  <2> HIDE DEF S
  <2>7. Nat \subseteq S
    BY <2>5, <2>6, Induction
  <2>8. Kept(Len(seqs))
    <3>1. Len(seqs) - 1 \in S /\ Len(seqs) - 1 + 1 = Len(seqs)
      BY <2>1, <2>7
    <3>2. QED
      BY <3>1, <2>1 DEF S
  <2>9. QED
    BY <1>0, <2>2, <2>8
<1>3. QED
  BY <1>1, <1>2
=============================================================================
