---------------------------- MODULE SequenceLemmas ----------------------------
(***************************************************************************)
(* Lemmas about FlattenSeq and other operators on sequences that the       *)
(* modules are built from.  Induction over a sequence is replaced by a     *)
(* least counterexample.                                                   *)
(***************************************************************************)
EXTENDS SequencesExt, WellFoundedInduction, FiniteSetTheorems, SequenceTheorems, TLAPS

(* A set of numbers that is not empty has a least one. *)
LEMMA LeastExists ==
  ASSUME NEW S \in SUBSET Nat, S # {}
  PROVE  \E x \in S : \A y \in S : x <= y
<1> DEFINE Less == {ss \in Nat \X Nat : ss[1] < ss[2]}
<1>1. IsWellFoundedOn(Less, Nat)
  BY NatLessThanWellFounded DEF OpToRel
<1>2. PICK x \in S : \A y \in S : <<y, x>> \notin Less
  BY <1>1, WFMin, Zenon
<1>3. ASSUME NEW y \in S PROVE x <= y
  <2>1. <<y, x>> \in Nat \X Nat /\ <<y, x>>[1] = y /\ <<y, x>>[2] = x
    OBVIOUS
  <2>2. ~ (y < x)
    BY <1>2, <2>1
  <2> QED
    BY <2>2
<1> QED
  BY <1>3

(* And one with a bound has a greatest one. *)
LEMMA MostExists ==
  ASSUME NEW n \in Nat, NEW S \in SUBSET (0..n), S # {}
  PROVE  \E x \in S : \A y \in S : y <= x
<1> DEFINE T == {n - x : x \in S}
<1>1. T \in SUBSET Nat /\ T # {}
  <2>1. \A x \in S : n - x \in Nat
    OBVIOUS
  <2> QED
    BY <2>1
<1>2. PICK t \in T : \A u \in T : t <= u
  <2> HIDE DEF T
  <2> QED
    BY <1>1, LeastExists
<1>3. PICK x \in S : t = n - x
  OBVIOUS
<1>4. ASSUME NEW y \in S PROVE y <= x
  <2>1. n - y \in T /\ x \in 0..n /\ y \in 0..n
    OBVIOUS
  <2>2. n - x <= n - y
    BY <1>2, <1>3, <2>1
  <2> QED
    BY <2>1, <2>2
<1> QED
  BY <1>4

(* How FlattenSeq builds its result: the sequences joined up to each index.*)
Joins(g, ss, n) ==
  g = [i \in 1..n |-> IF i = 1 THEN ss[i] ELSE g[i - 1] \o ss[i]]

LEMMA JoinsExist ==
  ASSUME NEW ss, NEW n \in Nat
  PROVE  \E g : Joins(g, ss, n)
<1> DEFINE bad == {k \in Nat : ~ \E g : Joins(g, ss, k)}
<1> SUFFICES ASSUME bad # {} PROVE FALSE
  OBVIOUS
<1>1. PICK k \in bad : \A j \in bad : k <= j
  BY LeastExists
<1>2. k # 0
  <2>1. Joins(<<>>, ss, 0)
    BY DEF Joins
  <2> QED
    BY <2>1
<1>3. k - 1 \in Nat /\ k - 1 \notin bad
  BY <1>1, <1>2
<1>4. PICK g : Joins(g, ss, k - 1)
  BY <1>3
<1> DEFINE h == [i \in 1..k |-> IF i < k THEN g[i]
                                ELSE IF k = 1 THEN ss[k] ELSE g[k - 1] \o ss[k]]
<1>5. ASSUME NEW i \in 1..k
      PROVE  h[i] = IF i = 1 THEN ss[i] ELSE h[i - 1] \o ss[i]
  <2>1. CASE i < k
    <3>1. i \in 1..(k - 1) /\ h[i] = g[i]
      BY <1>3, <2>1
    <3>2. g[i] = IF i = 1 THEN ss[i] ELSE g[i - 1] \o ss[i]
      BY <1>4, <3>1 DEF Joins
    <3>3. i # 1 => i - 1 \in 1..k /\ i - 1 < k
      BY <1>3, <2>1
    <3> QED
      BY <3>1, <3>2, <3>3
  <2>2. CASE i = k
    <3>1. k # 1 => k - 1 \in 1..k /\ k - 1 < k
      BY <1>3
    <3> QED
      BY <2>2, <3>1
  <2> QED
    BY <2>1, <2>2
<1>6. Joins(h, ss, k)
  <2> HIDE DEF h
  <2>1. h = [i \in 1..k |-> h[i]]
    BY DEF h
  <2> QED
    BY <1>5, <2>1 DEF Joins
<1> QED
  BY <1>1, <1>6

LEMMA JoinsTyped ==
  ASSUME NEW S, NEW ss, NEW n \in Nat, \A i \in 1..n : ss[i] \in Seq(S),
         NEW g, Joins(g, ss, n), NEW k \in 1..n
  PROVE  g[k] \in Seq(S)
<1> DEFINE bad == {i \in 1..n : g[i] \notin Seq(S)}
<1> SUFFICES ASSUME bad # {} PROVE FALSE
  OBVIOUS
<1>0. bad \in SUBSET Nat
  OBVIOUS
<1>1. PICK i \in bad : \A j \in bad : i <= j
  BY <1>0, LeastExists
<1>2. g[i] = IF i = 1 THEN ss[i] ELSE g[i - 1] \o ss[i]
  BY DEF Joins
<1>3. i # 1
  BY <1>2
<1>4. i - 1 \in 1..n /\ i - 1 \notin bad
  BY <1>1, <1>3
<1>5. g[i - 1] \o ss[i] \in Seq(S)
  BY <1>4, ConcatProperties
<1> QED
  BY <1>2, <1>3, <1>5

LEMMA JoinsAgree ==
  ASSUME NEW ss, NEW m \in Nat, NEW n \in Nat,
         NEW g, Joins(g, ss, m), NEW h, Joins(h, ss, n),
         NEW k \in Nat, k <= m, k <= n, k # 0
  PROVE  g[k] = h[k]
<1> DEFINE bad == {i \in 1..k : g[i] # h[i]}
<1> SUFFICES ASSUME bad # {} PROVE FALSE
  OBVIOUS
<1>0. bad \in SUBSET Nat
  OBVIOUS
<1>1. PICK i \in bad : \A j \in bad : i <= j
  BY <1>0, LeastExists
<1>6. i \in 1..m /\ i \in 1..n
  OBVIOUS
<1>2. g[i] = (IF i = 1 THEN ss[i] ELSE g[i - 1] \o ss[i])
  BY <1>6 DEF Joins
<1>3. h[i] = (IF i = 1 THEN ss[i] ELSE h[i - 1] \o ss[i])
  BY <1>6 DEF Joins
<1>4. i # 1
  BY <1>2, <1>3
<1>5. i - 1 \in 1..k /\ i - 1 \notin bad
  BY <1>1, <1>4
<1> QED
  BY <1>2, <1>3, <1>4, <1>5

(* The first n sequences joined. *)
Flat(ss, n) == FlattenSeq([i \in 1..n |-> ss[i]])

LEMMA FlatIs ==
  ASSUME NEW ss, NEW n \in Nat, ss = [i \in 1..n |-> ss[i]]
  PROVE  FlattenSeq(ss) = Flat(ss, n)
  BY DEF Flat

LEMMA FlatSame ==
  ASSUME NEW ss, NEW tt, NEW n \in Nat, \A i \in 1..n : ss[i] = tt[i]
  PROVE  Flat(ss, n) = Flat(tt, n)
<1>1. [i \in 1..n |-> ss[i]] = [i \in 1..n |-> tt[i]]
  OBVIOUS
<1> QED
  BY <1>1 DEF Flat

LEMMA FlatZero ==
  ASSUME NEW ss PROVE Flat(ss, 0) = <<>>
<1> DEFINE f == [i \in 1..0 |-> ss[i]]
<1>1. f \in Seq({}) /\ Len(f) = 0
  <2>1. f \in [1..0 -> {}]
    OBVIOUS
  <2> QED
    BY <2>1, SeqDef
<1>2. f = <<>>
  <2> HIDE DEF f
  <2> QED
    BY <1>1, EmptySeq
<1> QED
  BY <1>1, <1>2 DEF Flat, FlattenSeq

LEMMA FlatJoins ==
  ASSUME NEW ss, NEW n \in Nat, n # 0
  PROVE  \E g : Joins(g, ss, n) /\ Flat(ss, n) = g[n]
<1> DEFINE f == [i \in 1..n |-> ss[i]]
           g == CHOOSE g : Joins(g, f, n)
<1>1. Joins(g, f, n)
  BY JoinsExist
<1>2. Len(f) = n
  OBVIOUS
<1>3. Flat(ss, n) = g[n]
  <2>1. g = CHOOSE h : h = [i \in 1..Len(f) |-> IF i = 1 THEN f[i] ELSE h[i - 1] \o f[i]]
    BY <1>2 DEF Joins
  <2> HIDE DEF g
  <2> QED
    BY <1>2, <2>1 DEF Flat, FlattenSeq
<1>4. \A i \in 1..n : f[i] = ss[i]
  OBVIOUS
<1> HIDE DEF f, g
<1>5. Joins(g, ss, n)
  BY <1>1, <1>4 DEF Joins
<1> QED
  BY <1>3, <1>5

LEMMA FlatTyped ==
  ASSUME NEW S, NEW ss, NEW n \in Nat, \A i \in 1..n : ss[i] \in Seq(S)
  PROVE  Flat(ss, n) \in Seq(S)
<1>1. CASE n = 0
  BY <1>1, FlatZero, EmptySeq
<1>2. CASE n # 0
  BY <1>2, FlatJoins, JoinsTyped
<1> QED
  BY <1>1, <1>2

LEMMA FlatStep ==
  ASSUME NEW S, NEW ss, NEW n \in Nat, \A i \in 1..(n + 1) : ss[i] \in Seq(S)
  PROVE  Flat(ss, n + 1) = Flat(ss, n) \o ss[n + 1]
<1>1. PICK g : Joins(g, ss, n + 1) /\ Flat(ss, n + 1) = g[n + 1]
  BY FlatJoins
<1>2. g[n + 1] = IF n + 1 = 1 THEN ss[n + 1] ELSE g[n + 1 - 1] \o ss[n + 1]
  <2>1. n + 1 \in 1..(n + 1)
    OBVIOUS
  <2>2. \A i \in 1..(n + 1) : g[i] = IF i = 1 THEN ss[i] ELSE g[i - 1] \o ss[i]
    BY <1>1 DEF Joins
  <2> QED
    BY <2>1, <2>2
<1>3. CASE n = 0
  <2>1. ss[n + 1] \in Seq(S)
    OBVIOUS
  <2> QED
    BY <1>1, <1>2, <1>3, <2>1, FlatZero, ConcatEmptySeq
<1>4. CASE n # 0
  <2>1. PICK h : Joins(h, ss, n) /\ Flat(ss, n) = h[n]
    BY <1>4, FlatJoins
  <2>2. g[n] = h[n]
    BY <1>1, <1>4, <2>1, JoinsAgree
  <2>3. n + 1 - 1 = n /\ n + 1 # 1
    BY <1>4
  <2> QED
    BY <1>1, <1>2, <2>1, <2>2, <2>3
<1> QED
  BY <1>3, <1>4

(* What is in the result is in one of the sequences. *)
LEMMA ConcatMembers ==
  ASSUME NEW S, NEW s \in Seq(S), NEW t \in Seq(S)
  PROVE  ToSet(s \o t) = ToSet(s) \cup ToSet(t)
<1> DEFINE r == s \o t
<1>1. /\ Len(s) \in Nat /\ Len(t) \in Nat /\ DOMAIN s = 1..Len(s) /\ DOMAIN t = 1..Len(t)
  BY LenProperties
<1>2. /\ r \in Seq(S) /\ Len(r) = Len(s) + Len(t)
      /\ \A i \in 1..(Len(s) + Len(t)) :
           r[i] = IF i <= Len(s) THEN s[i] ELSE t[i - Len(s)]
  BY ConcatProperties
<1> HIDE DEF r
<1>3. DOMAIN r = 1..(Len(s) + Len(t))
  BY <1>2, LenProperties
<1>4. ASSUME NEW x \in ToSet(r) PROVE x \in ToSet(s) \cup ToSet(t)
  <2>1. PICK i \in 1..(Len(s) + Len(t)) : x = r[i]
    BY <1>3 DEF ToSet
  <2>2. CASE i <= Len(s)
    <3>1. i \in DOMAIN s /\ x = s[i]
      BY <1>1, <1>2, <2>1, <2>2
    <3> QED
      BY <3>1 DEF ToSet
  <2>3. CASE i > Len(s)
    <3>1. i - Len(s) \in DOMAIN t
      BY <1>1, <2>3
    <3>2. x = t[i - Len(s)]
      BY <1>1, <1>2, <2>1, <2>3
    <3> QED
      BY <3>1, <3>2 DEF ToSet
  <2> QED
    BY <1>1, <2>2, <2>3
<1>5. ASSUME NEW x \in ToSet(s) PROVE x \in ToSet(r)
  <2>1. PICK i \in 1..Len(s) : x = s[i]
    BY <1>1 DEF ToSet
  <2>2. i \in DOMAIN r /\ r[i] = x
    BY <1>1, <1>2, <1>3, <2>1
  <2> QED
    BY <2>2 DEF ToSet
<1>6. ASSUME NEW x \in ToSet(t) PROVE x \in ToSet(r)
  <2>1. PICK i \in 1..Len(t) : x = t[i]
    BY <1>1 DEF ToSet
  <2>2. i + Len(s) \in DOMAIN r /\ i + Len(s) - Len(s) = i /\ ~ (i + Len(s) <= Len(s))
    BY <1>1, <1>3
  <2>3. r[i + Len(s)] = x
    BY <1>2, <1>3, <2>1, <2>2
  <2> QED
    BY <2>2, <2>3 DEF ToSet
<1> QED
  BY <1>4, <1>5, <1>6 DEF r

LEMMA FlatMembers ==
  ASSUME NEW S, NEW ss, NEW n \in Nat, \A i \in 1..n : ss[i] \in Seq(S)
  PROVE  ToSet(Flat(ss, n)) = UNION {ToSet(ss[i]) : i \in 1..n}
<1> DEFINE all(k) == UNION {ToSet(ss[i]) : i \in 1..k}
           bad == {k \in 0..n : ToSet(Flat(ss, k)) # all(k)}
<1> SUFFICES ASSUME bad # {} PROVE FALSE
  OBVIOUS
<1>0. bad \in SUBSET Nat
  OBVIOUS
<1>1. PICK k \in bad : \A j \in bad : k <= j
  <2> HIDE DEF bad
  <2> QED
    BY <1>0, LeastExists
<1>2. k # 0
  <2>1. ToSet(Flat(ss, 0)) = {}
    BY FlatZero DEF ToSet
  <2>2. all(0) = {}
    OBVIOUS
  <2> QED
    BY <2>1, <2>2
<1>3. k \in 0..n /\ k - 1 \in 0..n /\ k - 1 \in Nat /\ (k - 1) + 1 = k
  BY <1>2
<1>4. k - 1 \notin bad
  BY <1>1, <1>3
<1>5. ToSet(Flat(ss, k - 1)) = all(k - 1)
  BY <1>3, <1>4
<1>6. Flat(ss, k) = Flat(ss, k - 1) \o ss[k]
  <2>1. \A i \in 1..((k - 1) + 1) : ss[i] \in Seq(S)
    BY <1>3
  <2>2. Flat(ss, (k - 1) + 1) = Flat(ss, k - 1) \o ss[(k - 1) + 1]
    BY <1>3, <2>1, FlatStep
  <2> QED
    BY <1>3, <2>2
<1>7. Flat(ss, k - 1) \in Seq(S) /\ ss[k] \in Seq(S)
  BY <1>2, <1>3, FlatTyped
<1>8. all(k) = all(k - 1) \cup ToSet(ss[k])
  <2>1. 1..k = 1..(k - 1) \cup {k}
    BY <1>2, <1>3
  <2> QED
    BY <2>1
<1>9. ToSet(Flat(ss, k)) = all(k)
  <2>1. ToSet(Flat(ss, k - 1) \o ss[k]) = ToSet(Flat(ss, k - 1)) \cup ToSet(ss[k])
    BY <1>7, ConcatMembers
  <2> HIDE DEF all
  <2> QED
    BY <1>5, <1>6, <1>8, <2>1
<1> QED
  BY <1>9

(* The length of the result, counted by pairs of an index and a member.    *)
Tagged(D, n) == UNION {{i} \X D[i] : i \in 1..n}

LEMMA TagCount ==
  ASSUME NEW D, NEW x, IsFiniteSet(D)
  PROVE  IsFiniteSet({x} \X D) /\ Cardinality({x} \X D) = Cardinality(D)
<1> DEFINE f == [d \in D |-> <<x, d>>]
<1>1. f \in Bijection(D, {x} \X D)
  BY DEF Bijection, Injection, Surjection, IsInjective
<1> QED
  BY <1>1, FS_Bijection DEF ExistsBijection

Counted(ss, S, D, n) ==
  \A i \in 1..n : ss[i] \in Seq(S) /\ IsFiniteSet(D[i]) /\ Len(ss[i]) = Cardinality(D[i])

LEMMA FlatCount ==
  ASSUME NEW S, NEW ss, NEW D, NEW n \in Nat, Counted(ss, S, D, n)
  PROVE  IsFiniteSet(Tagged(D, n)) /\ Len(Flat(ss, n)) = Cardinality(Tagged(D, n))
<1> DEFINE good(k) == /\ IsFiniteSet(Tagged(D, k))
                      /\ Len(Flat(ss, k)) = Cardinality(Tagged(D, k))
           bad == {k \in 0..n : ~ good(k)}
<1>0a. \A i \in 1..n : ss[i] \in Seq(S)
  BY DEF Counted
<1>0b. \A i \in 1..n : IsFiniteSet(D[i]) /\ Len(ss[i]) = Cardinality(D[i])
  BY DEF Counted
<1> SUFFICES ASSUME bad # {} PROVE FALSE
  OBVIOUS
<1>0. bad \in SUBSET Nat
  OBVIOUS
<1>1. PICK k \in bad : \A j \in bad : k <= j
  <2> HIDE DEF bad
  <2> QED
    BY <1>0, LeastExists
<1>2. k # 0
  <2>1. Len(Flat(ss, 0)) = 0
    BY FlatZero
  <2>2. Tagged(D, 0) = {}
    BY DEF Tagged
  <2> QED
    BY <2>1, <2>2, FS_EmptySet
<1>3. k \in 0..n /\ k - 1 \in 0..n /\ k - 1 \in Nat /\ (k - 1) + 1 = k /\ k \in 1..n
  BY <1>2
<1>4. good(k - 1)
  BY <1>1, <1>3
<1>5. Flat(ss, k) = Flat(ss, k - 1) \o ss[k]
  <2>1. \A i \in 1..((k - 1) + 1) : ss[i] \in Seq(S)
    BY <1>0a, <1>3
  <2>2. Flat(ss, (k - 1) + 1) = Flat(ss, k - 1) \o ss[(k - 1) + 1]
    BY <1>3, <2>1, FlatStep
  <2> QED
    BY <1>3, <2>2
<1>6. Flat(ss, k - 1) \in Seq(S) /\ ss[k] \in Seq(S)
  BY <1>0a, <1>2, <1>3, FlatTyped
<1>7. Len(Flat(ss, k)) = Len(Flat(ss, k - 1)) + Len(ss[k])
  BY <1>5, <1>6, ConcatProperties
<1> DEFINE T == Tagged(D, k - 1)
           U == {k} \X D[k]
<1>8. IsFiniteSet(U) /\ Cardinality(U) = Cardinality(D[k])
  BY <1>0b, <1>3, TagCount
<1>9. Tagged(D, k) = T \cup U
  <2>1. 1..k = 1..(k - 1) \cup {k}
    BY <1>3
  <2> QED
    BY <2>1 DEF Tagged
<1>10. T \cap U = {}
  <2>1. k \notin 1..(k - 1)
    BY <1>3
  <2>2. ASSUME NEW p \in T, p \in U PROVE FALSE
    <3>1. PICK i \in 1..(k - 1) : p \in {i} \X D[i]
      BY DEF Tagged
    <3>2. p[1] = i /\ p[1] = k
      BY <2>2, <3>1
    <3> QED
      BY <2>1, <3>1, <3>2
  <2> QED
    BY <2>2
<1>11. IsFiniteSet(T) /\ Len(Flat(ss, k - 1)) = Cardinality(T)
  BY <1>4
<1> HIDE DEF T, U
<1>12. /\ IsFiniteSet(T \cup U)
       /\ Cardinality(T \cup U) = Cardinality(T) + Cardinality(U) - Cardinality({})
  <2>1. IsFiniteSet(T) /\ IsFiniteSet(U)
    BY <1>8, <1>11
  <2> QED
    BY <1>10, <2>1, FS_Union
<1>13. Cardinality(T) \in Nat /\ Cardinality(U) \in Nat /\ Cardinality({}) = 0
  BY <1>8, <1>11, FS_CardinalityType, FS_EmptySet
<1>14. Cardinality(T \cup U) = Cardinality(T) + Cardinality(U)
  BY <1>12, <1>13
<1>15. Len(ss[k]) = Cardinality(U)
  BY <1>0b, <1>3, <1>8
<1>16. good(k)
  BY <1>7, <1>9, <1>11, <1>12, <1>14, <1>15
<1> QED
  BY <1>16

LEMMA TypedSeq ==
  ASSUME NEW S, NEW s, Len(s) \in Nat, s = [i \in 1..Len(s) |-> s[i]],
         \A i \in 1..Len(s) : s[i] \in S
  PROVE  s \in Seq(S)
<1>1. s \in [1..Len(s) -> S]
  OBVIOUS
<1> QED
  BY <1>1, SeqDef

LEMMA SingleTyped ==
  ASSUME NEW S, NEW x \in S
  PROVE  <<x>> \in Seq(S) /\ Len(<<x>>) = 1 /\ <<x>>[1] = x /\ ToSet(<<x>>) = {x}
  BY DEF ToSet

LEMMA AppendMembers ==
  ASSUME NEW S, NEW s \in Seq(S), NEW x \in S
  PROVE  ToSet(Append(s, x)) = ToSet(s) \cup {x}
<1> DEFINE one == <<x>>
<1>1. one \in Seq(S) /\ ToSet(one) = {x}
  BY SingleTyped
<1>2. Append(s, x) = s \o one
  BY AppendIsConcat
<1> HIDE DEF one
<1> QED
  BY <1>1, <1>2, ConcatMembers

LEMMA PairIs ==
  ASSUME NEW S, NEW a \in S, NEW b \in S
  PROVE  <<a, b>> = <<a>> \o <<b>>
<1> DEFINE pair == <<a, b>>
           join == <<a>> \o <<b>>
<1>1. pair \in Seq(S) /\ Len(pair) = 2 /\ pair[1] = a /\ pair[2] = b
  OBVIOUS
<1>2. <<a>> \in Seq(S) /\ Len(<<a>>) = 1 /\ <<b>> \in Seq(S) /\ Len(<<b>>) = 1
  OBVIOUS
<1>3. join \in Seq(S) /\ Len(join) = 2
  BY <1>2, ConcatProperties
<1>4. \A i \in 1..2 : join[i] = IF i <= 1 THEN <<a>>[i] ELSE <<b>>[i - 1]
  BY <1>2, ConcatProperties
<1>5. join[1] = a /\ join[2] = b
  BY <1>4
<1>6. \A i \in 1..2 : i = 1 \/ i = 2
  OBVIOUS
<1> HIDE DEF pair, join
<1>7. \A i \in 1..Len(pair) : pair[i] = join[i]
  BY <1>1, <1>5, <1>6
<1>8. pair = join
  BY <1>1, <1>3, <1>7, SeqEqual
<1> QED
  BY <1>8 DEF pair, join

=============================================================================
