--------------------------- MODULE Delivery_proofs ---------------------------
(***************************************************************************)
(* Proofs about module Delivery, for any vault, any names, any references  *)
(* and any server.                                                         *)
(***************************************************************************)
EXTENDS Delivery, Export_proofs

-----------------------------------------------------------------------------
(* What the jobs are. *)
LEMMA JobFacts ==
  ASSUME JobInv
  PROVE  /\ CiphersTyped /\ OrgsTyped
         /\ job.kind \in {"get", "fetch", "export"}
         /\ job.kind # "export" => format = "value"
         /\ job.agent => job.kind = "get"
         /\ job.kind = "get" => Len(job.env) = 1
         /\ job.here \in Seq(ToSet(job.here)) /\ job.env \in Seq(ToSet(job.env))
         /\ \A i \in 1..Len(job.env) : job.env[i].ref \in Seq(ToSet(job.env[i].ref))
         /\ \A m, n \in 1..Len(job.env) : job.env[m].var = job.env[n].var => m = n
<1>1. PICK j \in Jobs :
        /\ account = j.vault.account /\ ciphers = j.vault.ciphers
        /\ format = j.format /\ prelude = j.prelude
        /\ job = [kind |-> j.kind, here |-> j.here, env |-> j.env, agent |-> j.agent]
  BY DEF JobInv
<1>2. CiphersTyped /\ OrgsTyped
  BY <1>1, JobsAssumption DEF CiphersTyped, OrgsTyped
<1>3. /\ job.kind \in {"get", "fetch", "export"}
      /\ job.kind # "export" => format = "value"
      /\ job.agent => job.kind = "get"
      /\ job.kind = "get" => Len(job.env) = 1
  BY <1>1, JobsAssumption
<1>4. job.here \in Seq(ToSet(job.here)) /\ job.env \in Seq(ToSet(job.env))
  BY <1>1, JobsAssumption
<1>5. DOMAIN job.env = 1..Len(job.env)
  BY <1>4, LenProperties
<1>6. ASSUME NEW i \in 1..Len(job.env) PROVE job.env[i].ref \in Seq(ToSet(job.env[i].ref))
  <2>1. job.env[i] \in ToSet(j.env)
    BY <1>1, <1>5 DEF ToSet
  <2> QED
    BY <2>1, JobsAssumption
<1>7. \A m, n \in 1..Len(job.env) : job.env[m].var = job.env[n].var => m = n
  BY <1>1, <1>5, JobsAssumption
<1> QED
  BY <1>2, <1>3, <1>4, <1>6, <1>7

-----------------------------------------------------------------------------
(* Splitting at the first separator.                                       *)
LEMMA SplitAt ==
  ASSUME NEW S, NEW s \in Seq(S), NEW t, At(t, s) # {}
  PROVE  \E k \in 1..Len(s) :
           /\ s[k] = t /\ \A j \in 1..Len(s) : s[j] = t => k <= j
           /\ Min(At(t, s)) = k
           /\ Before(t, s) = SubSeq(s, 1, k - 1) /\ After(t, s) = SubSeq(s, k + 1, Len(s))
<1>1. Len(s) \in Nat /\ DOMAIN s = 1..Len(s)
  BY LenProperties
<1>2. At(t, s) = {i \in 1..Len(s) : s[i] = t}
  BY <1>1 DEF At
<1>3. At(t, s) \in SUBSET Nat
  BY <1>2
<1>4. \E k \in At(t, s) : \A j \in At(t, s) : k <= j
  BY <1>3, LeastExists
<1> DEFINE k == Min(At(t, s))
<1>5. k \in At(t, s) /\ \A j \in At(t, s) : k <= j
  BY <1>4 DEF Min
<1>6. Before(t, s) = SubSeq(s, 1, k - 1) /\ After(t, s) = SubSeq(s, k + 1, Len(s))
  BY DEF Before, After
<1> HIDE DEF k
<1>7. /\ k \in 1..Len(s) /\ s[k] = t /\ \A j \in 1..Len(s) : s[j] = t => k <= j
  BY <1>2, <1>5
<1> QED
  BY <1>6, <1>7 DEF k

LEMMA PartsTyped ==
  ASSUME NEW S, NEW s \in Seq(S), NEW k \in 1..Len(s)
  PROVE  /\ SubSeq(s, 1, k - 1) \in Seq(S) /\ Len(SubSeq(s, 1, k - 1)) = k - 1
         /\ SubSeq(s, k + 1, Len(s)) \in Seq(S)
         /\ Len(SubSeq(s, k + 1, Len(s))) = Len(s) - k
         /\ \A i \in 1..(k - 1) : SubSeq(s, 1, k - 1)[i] = s[i]
         /\ \A i \in 1..(Len(s) - k) : SubSeq(s, k + 1, Len(s))[i] = s[k + i]
<1>1. Len(s) \in Nat /\ \A i \in 1..Len(s) : s[i] \in S
  BY LenProperties, ElementOfSeq
<1>2. \A i \in 1..(k - 1) : s[i] \in S
  BY <1>1
<1>3. \A i \in (k + 1)..Len(s) : s[i] \in S
  BY <1>1
<1>4. k - 1 \in Int /\ k + 1 \in Int /\ Len(s) \in Int
  BY <1>1
<1>5. /\ SubSeq(s, 1, k - 1) \in Seq(S)
      /\ Len(SubSeq(s, 1, k - 1)) = IF 1 <= k - 1 THEN k - 1 - 1 + 1 ELSE 0
      /\ \A i \in 1..(k - 1 - 1 + 1) : SubSeq(s, 1, k - 1)[i] = s[1 + i - 1]
  BY <1>2, <1>4, SubSeqProperties
<1>6. /\ SubSeq(s, k + 1, Len(s)) \in Seq(S)
      /\ Len(SubSeq(s, k + 1, Len(s))) = IF k + 1 <= Len(s) THEN Len(s) - (k + 1) + 1 ELSE 0
      /\ \A i \in 1..(Len(s) - (k + 1) + 1) : SubSeq(s, k + 1, Len(s))[i] = s[(k + 1) + i - 1]
  BY <1>3, <1>4, SubSeqProperties
<1>7. k - 1 - 1 + 1 = k - 1 /\ Len(s) - (k + 1) + 1 = Len(s) - k
  BY <1>4
<1>8. \A i \in 1..(k - 1) : 1 + i - 1 = i
  OBVIOUS
<1>9. \A i \in 1..(Len(s) - k) : (k + 1) + i - 1 = k + i
  OBVIOUS
<1>10. Len(SubSeq(s, 1, k - 1)) = k - 1 /\ Len(SubSeq(s, k + 1, Len(s))) = Len(s) - k
  BY <1>1, <1>5, <1>6
<1>11. \A i \in 1..(k - 1) : SubSeq(s, 1, k - 1)[i] = s[i]
  BY <1>5, <1>7, <1>8
<1>12. \A i \in 1..(Len(s) - k) : SubSeq(s, k + 1, Len(s))[i] = s[k + i]
  BY <1>6, <1>7, <1>9
<1> QED
  BY <1>5, <1>6, <1>10, <1>11, <1>12

LEMMA SplitJoins ==
  ASSUME NEW S, NEW s \in Seq(S), NEW t, At(t, s) # {}
  PROVE  /\ Before(t, s) \in Seq(S) /\ After(t, s) \in Seq(S)
         /\ At(t, Before(t, s)) = {}
         /\ s = Before(t, s) \o (<<t>> \o After(t, s))
<1>1. PICK k \in 1..Len(s) :
        /\ s[k] = t /\ \A j \in 1..Len(s) : s[j] = t => k <= j
        /\ Before(t, s) = SubSeq(s, 1, k - 1) /\ After(t, s) = SubSeq(s, k + 1, Len(s))
  BY SplitAt
<1>2. Len(s) \in Nat
  BY LenProperties
<1>3. /\ Before(t, s) \in Seq(S) /\ After(t, s) \in Seq(S)
      /\ Len(Before(t, s)) = k - 1 /\ \A i \in 1..(k - 1) : Before(t, s)[i] = s[i]
  BY <1>1, PartsTyped
<1>4. At(t, Before(t, s)) = {}
  <2>1. DOMAIN Before(t, s) = 1..(k - 1)
    BY <1>3, LenProperties
  <2>2. \A i \in 1..(k - 1) : s[i] # t
    BY <1>1, <1>2
  <2> QED
    BY <1>3, <2>1, <2>2 DEF At
<1>5. s = Before(t, s) \o (<<t>> \o After(t, s))
  <2>1. Len(s) \in k..Len(s) /\ k \in k..Len(s)
    BY <1>2
  <2>2. SubSeq(s, k, Len(s)) = <<t>> \o After(t, s)
    BY <1>1, <2>1, SubSeqRecursiveFirst
  <2>3. 1 \in 1..(Len(s) + 1) /\ k - 1 \in (1 - 1)..Len(s) /\ Len(s) \in (k - 1)..Len(s)
    BY <1>2
  <2>4. SubSeq(s, 1, k - 1) \o SubSeq(s, (k - 1) + 1, Len(s)) = SubSeq(s, 1, Len(s))
    BY <2>3, ConcatAdjacentSubSeq
  <2>5. (k - 1) + 1 = k /\ SubSeq(s, 1, Len(s)) = s
    BY <1>2, SubSeqFull
  <2> QED
    BY <1>1, <2>2, <2>4, <2>5
<1> QED
  BY <1>3, <1>4, <1>5

LEMMA JoinSplits ==
  ASSUME NEW S, NEW a \in Seq(S), NEW b \in Seq(S), NEW t \in S, At(t, a) = {}
  PROVE  LET s == a \o (<<t>> \o b)
         IN  At(t, s) # {} /\ Before(t, s) = a /\ After(t, s) = b
<1> DEFINE s == a \o (<<t>> \o b)
           one == <<t>>
           tail == one \o b
           m == Len(a)
<1>1. /\ m \in Nat /\ Len(b) \in Nat /\ DOMAIN a = 1..m
  BY LenProperties
<1>2. one \in Seq(S) /\ Len(one) = 1 /\ one[1] = t
  BY SingleTyped
<1> HIDE DEF one
<1>3. tail \in Seq(S) /\ Len(tail) = 1 + Len(b) /\ tail[1] = t
  <2>1. /\ tail \in Seq(S) /\ Len(tail) = Len(one) + Len(b)
        /\ \A i \in 1..(Len(one) + Len(b)) :
             tail[i] = IF i <= Len(one) THEN one[i] ELSE b[i - Len(one)]
    BY <1>2, ConcatProperties
  <2>2. 1 \in 1..(Len(one) + Len(b)) /\ 1 <= Len(one)
    BY <1>1, <1>2
  <2> HIDE DEF tail
  <2> QED
    BY <1>2, <2>1, <2>2
<1>4. s = a \o tail
  BY DEF one
<1> HIDE DEF tail, s
<1>5. /\ s \in Seq(S) /\ Len(s) = m + Len(tail)
      /\ \A i \in 1..(m + Len(tail)) : s[i] = IF i <= m THEN a[i] ELSE tail[i - m]
  <2>1. /\ a \o tail \in Seq(S) /\ Len(a \o tail) = Len(a) + Len(tail)
        /\ \A i \in 1..(Len(a) + Len(tail)) :
             (a \o tail)[i] = IF i <= Len(a) THEN a[i] ELSE tail[i - Len(a)]
    BY <1>3, ConcatProperties
  <2> QED
    BY <1>4, <2>1
<1> HIDE DEF m
<1>6. Len(s) \in Nat /\ DOMAIN s = 1..Len(s) /\ m + 1 \in 1..Len(s)
  <2>1. Len(s) \in Nat /\ DOMAIN s = 1..Len(s)
    BY <1>5, LenProperties
  <2> QED
    BY <1>1, <1>3, <1>5, <2>1
<1>7. s[m + 1] = t
  <2> DEFINE k == m + 1
  <2>1. k \in 1..(m + Len(tail)) /\ ~ (k <= m) /\ k - m = 1
    BY <1>1, <1>5, <1>6
  <2> HIDE DEF k
  <2>2. s[k] = tail[k - m]
    BY <1>5, <2>1
  <2> QED
    BY <1>3, <2>1, <2>2 DEF k
<1>8. \A i \in 1..m : i \in 1..Len(s) /\ s[i] = a[i] /\ s[i] # t
  <2> TAKE i \in 1..m
  <2>1. i \in 1..(m + Len(tail)) /\ i <= m
    BY <1>1, <1>3
  <2>2. s[i] = a[i]
    BY <1>5, <2>1
  <2>3. a[i] # t
    BY <1>1 DEF At
  <2> QED
    BY <1>5, <2>1, <2>2, <2>3
<1>9. At(t, s) # {}
  BY <1>6, <1>7 DEF At
<1>10. PICK k \in 1..Len(s) :
        /\ s[k] = t /\ \A j \in 1..Len(s) : s[j] = t => k <= j
        /\ Before(t, s) = SubSeq(s, 1, k - 1) /\ After(t, s) = SubSeq(s, k + 1, Len(s))
  BY <1>5, <1>9, SplitAt
<1>11. k = m + 1
  <2>1. k <= m + 1
    BY <1>6, <1>7, <1>10
  <2>2. ~ (k <= m)
    BY <1>1, <1>6, <1>8, <1>10
  <2> QED
    BY <1>1, <1>6, <2>1, <2>2
<1>12. Before(t, s) = a
  <2>1. /\ Before(t, s) \in Seq(S) /\ Len(Before(t, s)) = k - 1
        /\ \A i \in 1..(k - 1) : Before(t, s)[i] = s[i]
    <3>1. /\ SubSeq(s, 1, k - 1) \in Seq(S) /\ Len(SubSeq(s, 1, k - 1)) = k - 1
          /\ \A i \in 1..(k - 1) : SubSeq(s, 1, k - 1)[i] = s[i]
      BY <1>5, PartsTyped
    <3> QED
      BY <1>10, <3>1
  <2>2. k - 1 = m
    BY <1>1, <1>11
  <2>3. \A i \in 1..m : Before(t, s)[i] = a[i]
    BY <1>8, <2>1, <2>2
  <2> QED
    BY <2>1, <2>2, <2>3, SeqEqual DEF m
<1>13. After(t, s) = b
  <2>1. After(t, s) \in Seq(S) /\ s = a \o (one \o After(t, s))
    BY <1>5, <1>9, <1>12, SplitJoins DEF one
  <2>2. one \o After(t, s) \in Seq(S)
    BY <1>2, <2>1, ConcatProperties
  <2>3. \A u, v, w \in Seq(S) : u \o v = u \o w => v = w
    BY ConcatSimplifications, Zenon
  <2>4. one \o After(t, s) = tail
    BY <1>3, <1>4, <2>1, <2>2, <2>3
  <2> QED
    BY <1>2, <2>1, <2>3, <2>4 DEF tail
<1> QED
  BY <1>9, <1>12, <1>13 DEF s

LEMMA SeqWider ==
  ASSUME NEW S, NEW T, S \subseteq T, NEW s \in Seq(S)
  PROVE  s \in Seq(T)
<1>1. Len(s) \in Nat /\ \A i \in 1..Len(s) : s[i] \in S
  BY LenProperties, ElementOfSeq
<1>2. s = [i \in 1..Len(s) |-> s[i]]
  BY LenProperties
<1> QED
  BY <1>1, <1>2, TypedSeq

-----------------------------------------------------------------------------
(* Ref::parse.                                                             *)

(* The rest of a reference after "://". *)
LEMMA ParsedTyped ==
  ASSUME NEW S, NEW s \in Seq(S), Parse(s) # BadRef
  PROVE  Parse(s).locus \in Seq(S)
<1> DEFINE rest == After("://", s)
           locus == IF At("#", rest) # {} THEN Before("#", rest) ELSE rest
<1>1. At("://", s) # {} /\ Parse(s).locus = locus
  BY DEF Parse
<1>2. rest \in Seq(S)
  BY <1>1, SplitJoins
<1> HIDE DEF rest
<1>3. At("#", rest) # {} => Before("#", rest) \in Seq(S)
  BY <1>2, SplitJoins
<1> QED
  BY <1>1, <1>2, <1>3

LEMMA WellFormedParses ==
  ASSUME NEW S, NEW s \in Seq(S), WellFormed(s)
  PROVE  /\ Parse(s) # BadRef /\ Parse(s).scheme \in Linked
         /\ At("/", Parse(s).locus) # {}
<1> DEFINE n == Len(s)
           rest == After("://", s)
           scheme == Before("://", s)
           stop == IF At("#", s) # {} THEN Min(At("#", s)) ELSE Len(s) + 1
           explicit == At("#", rest) # {}
           locus == IF explicit THEN Before("#", rest) ELSE rest
           field == IF explicit THEN After("#", rest) ELSE DefaultField
<1>1. n \in Nat /\ n > 4 /\ DOMAIN s = 1..n
  BY LenProperties DEF WellFormed
<1>2. /\ s[2] = "://" /\ s[1] # "://" /\ s[1] # "#" /\ Lower[s[1]] = "vw"
      /\ stop # n /\ \E i \in 3..(stop - 1) : s[i] = "/"
  BY DEF WellFormed
<1>3. At("://", s) # {}
  <2>1. 2 \in DOMAIN s
    BY <1>1
  <2> QED
    BY <1>2, <2>1 DEF At
<1>4. /\ Len(scheme) = 1 /\ scheme[1] = s[1]
      /\ rest \in Seq(S) /\ Len(rest) = n - 2
      /\ \A i \in 1..(n - 2) : rest[i] = s[2 + i]
  <2>1. PICK k \in 1..n :
          /\ s[k] = "://" /\ \A j \in 1..n : s[j] = "://" => k <= j
          /\ scheme = SubSeq(s, 1, k - 1) /\ rest = SubSeq(s, k + 1, n)
    BY <1>3, SplitAt
  <2>2. k = 2
    <3>1. k <= 2
      <4>1. 2 \in 1..n
        BY <1>1
      <4> QED
        BY <1>2, <2>1, <4>1
    <3>2. k # 1
      BY <1>2, <2>1
    <3> QED
      BY <3>1, <3>2
  <2> HIDE DEF scheme, rest
  <2>3. /\ Len(SubSeq(s, 1, k - 1)) = k - 1
        /\ SubSeq(s, k + 1, n) \in Seq(S) /\ Len(SubSeq(s, k + 1, n)) = n - k
        /\ \A i \in 1..(k - 1) : SubSeq(s, 1, k - 1)[i] = s[i]
        /\ \A i \in 1..(n - k) : SubSeq(s, k + 1, n)[i] = s[k + i]
    BY <2>1, PartsTyped
  <2>4. 1 \in 1..(k - 1) /\ k - 1 = 1
    BY <2>2
  <2> QED
    BY <2>1, <2>2, <2>3, <2>4
<1> HIDE DEF rest, scheme
<1>5. DOMAIN rest = 1..(n - 2)
  BY <1>4, LenProperties
<1>6. locus \in Seq(S) /\ field # <<>> /\ \E i \in DOMAIN locus : locus[i] = "/"
  <2>1. PICK i \in 3..(stop - 1) : s[i] = "/"
    BY <1>2
  <2>2. CASE At("#", s) = {}
    <3>1. ~ explicit
      <4>1. ASSUME NEW j \in 1..(n - 2) PROVE rest[j] # "#"
        <5>1. 2 + j \in 1..n
          BY <1>1
        <5> QED
          BY <1>1, <1>4, <2>2, <5>1 DEF At
      <4> QED
        BY <1>5, <4>1 DEF At
    <3>2. i - 2 \in 1..(n - 2)
      BY <1>1, <2>1, <2>2
    <3>3. rest[i - 2] = s[i]
      <4> DEFINE k == i - 2
      <4>1. k \in 1..(n - 2) /\ 2 + k = i
        BY <3>2
      <4> HIDE DEF k
      <4> QED
        BY <1>4, <4>1 DEF k
    <3>4. field # <<>>
      BY <3>1 DEF DefaultField
    <3> QED
      BY <1>4, <1>5, <2>1, <3>1, <3>2, <3>3, <3>4
  <2>3. CASE At("#", s) # {}
    <3>1. PICK k \in 1..n :
            s[k] = "#" /\ (\A j \in 1..n : s[j] = "#" => k <= j) /\ Min(At("#", s)) = k
      BY <2>3, SplitAt
    <3>2. stop = k
      BY <2>3, <3>1
    <3> HIDE DEF stop
    <3>3. k # 1 /\ k # 2 /\ k # n
      BY <1>2, <3>1, <3>2
    <3>4. k \in 3..(n - 1)
      <4> HIDE DEF n
      <4>1. k \in 1..n
        BY <3>1
      <4> QED
        BY <1>1, <3>3, <4>1
    <3>5. \A j \in 1..(n - 2) : 2 + j \in 1..n /\ (rest[j] = "#" => k - 2 <= j)
      <4> TAKE j \in 1..(n - 2)
      <4>1. 2 + j \in 1..n /\ rest[j] = s[2 + j]
        BY <1>1, <1>4
      <4>2. rest[j] = "#" => k <= 2 + j
        BY <3>1, <4>1
      <4> QED
        BY <3>4, <4>1, <4>2
    <3>6. k - 2 \in 1..(n - 2) /\ rest[k - 2] = "#"
      <4> DEFINE l == k - 2
      <4>1. l \in 1..(n - 2) /\ 2 + l = k
        BY <1>1, <3>4
      <4> HIDE DEF l
      <4>2. rest[l] = s[k]
        BY <1>4, <4>1
      <4> QED
        BY <3>1, <4>1, <4>2 DEF l
    <3>7. explicit
      BY <1>5, <3>6 DEF At
    <3>8. PICK m \in 1..Len(rest) :
            /\ rest[m] = "#" /\ \A j \in 1..Len(rest) : rest[j] = "#" => m <= j
            /\ Before("#", rest) = SubSeq(rest, 1, m - 1)
            /\ After("#", rest) = SubSeq(rest, m + 1, Len(rest))
      BY <1>4, <3>7, SplitAt
    <3>9. m = k - 2
      <4>1. m <= k - 2
        BY <1>4, <3>6, <3>8
      <4>2. k - 2 <= m
        BY <1>4, <3>5, <3>8
      <4>3. m \in Int /\ k - 2 \in Int
        BY <3>4, <3>8
      <4> QED
        BY <4>1, <4>2, <4>3
    <3>10. /\ SubSeq(rest, 1, m - 1) \in Seq(S) /\ Len(SubSeq(rest, 1, m - 1)) = m - 1
           /\ Len(SubSeq(rest, m + 1, Len(rest))) = Len(rest) - m
           /\ \A j \in 1..(m - 1) : SubSeq(rest, 1, m - 1)[j] = rest[j]
      BY <1>4, PartsTyped
    <3>11. Len(rest) - m # 0
      <4> HIDE DEF n
      <4> QED
        BY <1>1, <1>4, <3>4, <3>9
    <3>12. Len(<<>>) = 0
      OBVIOUS
    <3>13. field # <<>>
      BY <3>7, <3>8, <3>10, <3>11, <3>12
    <3>14. locus \in Seq(S) /\ Len(locus) = m - 1 /\ \A j \in 1..(m - 1) : locus[j] = rest[j]
      BY <3>7, <3>8, <3>10
    <3> HIDE DEF locus, field
    <3>15. i - 2 \in 1..(m - 1) /\ i - 2 \in 1..(n - 2)
      BY <1>1, <2>1, <3>2, <3>4, <3>9
    <3>16. rest[i - 2] = s[i]
      <4> DEFINE l == i - 2
      <4>1. l \in 1..(n - 2) /\ 2 + l = i
        BY <3>15
      <4> HIDE DEF l
      <4> QED
        BY <1>4, <4>1 DEF l
    <3>17. DOMAIN locus = 1..(m - 1)
      BY <3>14, LenProperties
    <3> QED
      BY <2>1, <3>13, <3>14, <3>15, <3>16, <3>17
  <2> QED
    BY <2>2, <2>3
<1>7. locus # <<>>
  BY <1>6
<1>8. Lower[scheme[1]] = "vw" /\ "vw" \in KnownSchemes /\ "vw" \in Linked
  BY <1>2, <1>4 DEF KnownSchemes, Linked
<1>9. Parse(s) = IF Len(scheme) # 1 \/ locus = <<>> \/ field = <<>> THEN BadRef
                 ELSE IF Lower[scheme[1]] \notin KnownSchemes THEN BadRef
                 ELSE [scheme |-> Lower[scheme[1]], locus |-> locus, field |-> field,
                       explicit |-> explicit]
  BY <1>3 DEF Parse, rest, scheme
<1> HIDE DEF locus, field, explicit
<1>10. Parse(s) = [scheme |-> "vw", locus |-> locus, field |-> field,
                   explicit |-> explicit]
  BY <1>4, <1>6, <1>7, <1>8, <1>9
<1>11. Parse(s).scheme = "vw" /\ Parse(s).locus = locus
  BY <1>10
<1>12. Parse(s) # BadRef
  <2>1. BadRef.scheme = "none"
    BY DEF BadRef
  <2> QED
    BY <1>11, <2>1
<1>13. At("/", locus) # {}
  BY <1>6 DEF At
<1> QED
  BY <1>8, <1>11, <1>12, <1>13

-----------------------------------------------------------------------------
(* The item a reference means, and what is selected from it.               *)
LEMMA CipherIs ==
  ASSUME CiphersTyped
  PROVE  /\ Len(ciphers) \in Nat /\ DOMAIN ciphers = 1..Len(ciphers)
         /\ ToSet(ciphers) = {ciphers[i] : i \in DOMAIN ciphers}
         /\ \A i \in DOMAIN ciphers : WellTyped(ciphers[i])
<1>1. Len(ciphers) \in Nat /\ DOMAIN ciphers = 1..Len(ciphers)
  BY LenProperties DEF CiphersTyped
<1>2. ASSUME NEW i \in DOMAIN ciphers PROVE WellTyped(ciphers[i])
  <2>1. i \in 1..Len(ciphers)
    BY <1>1
  <2>2. ciphers[i] \in {c \in ToSet(ciphers) : WellTyped(c)}
    BY <2>1, ElementOfSeq DEF CiphersTyped
  <2> QED
    BY <2>2
<1> QED
  BY <1>1, <1>2 DEF ToSet

LEMMA NameTyped ==
  ASSUME NEW c, WellTyped(c), NameOf(c) # Failed
  PROVE  \E S : NameOf(c) \in Seq(S)
<1>1. NameOf(c) = Dec(c.name, ItemKey(c)) /\ Dec(c.name, ItemKey(c)) # Failed
  BY DEF NameOf
<1>2. CASE c.name = Empty
  <2>1. NameOf(c) = <<>>
    BY <1>1, <1>2 DEF Dec
  <2>2. <<>> \in Seq({})
    BY EmptySeq
  <2> QED
    BY <2>1, <2>2
<1>3. CASE c.name # Empty
  <2>1. Given(c.name) /\ c.name.text \in Seq(ToSet(c.name.text))
    BY <1>3 DEF WellTyped, Given
  <2>2. NameOf(c) = c.name.text
    BY <1>1, <1>3 DEF Dec, DecryptSymmetric
  <2> QED
    BY <2>1, <2>2
<1> QED
  BY <1>2, <1>3

(* A reference that is addressed was parsed from the job's. *)
LEMMA AskedTyped ==
  ASSUME JobInv, turn \in 1..Len(job.env), Addressed
  PROVE  Asked.locus \in Seq(ToSet(Written))
<1>1. Written \in Seq(ToSet(Written))
  BY JobFacts DEF Written
<1>2. Asked # BadRef
  BY DEF Addressed, BadRef, Linked
<1> QED
  BY <1>1, <1>2, ParsedTyped DEF Asked

LEMMA MeantIs ==
  ASSUME JobInv, turn \in 1..Len(job.env), Addressed,
         NEW c \in ToSet(ciphers), WellTyped(c)
  PROVE  c \in Meant(Asked)
           <=> NameOf(c) # Failed /\ Target = job.here /\ Item = NameOf(c)
<1> DEFINE locus == Asked.locus
           name == NameOf(c)
           here == job.here
<1>0. c \in Meant(Asked) <=> /\ At("/", here) = {} /\ name # Failed
                             /\ locus = here \o (<<"/">> \o name)
  BY DEF Meant
<1>1. CASE name = Failed
  BY <1>0, <1>1
<1>2. CASE name # Failed
  <2>1. PICK S : name \in Seq(S)
    BY <1>2, NameTyped
  <2> DEFINE W == S \cup ToSet(Written) \cup ToSet(here) \cup {"/"}
  <2>2. locus \in Seq(W)
    <3>1. locus \in Seq(ToSet(Written))
      BY AskedTyped
    <3>2. ToSet(Written) \subseteq W
      OBVIOUS
    <3> HIDE DEF W, locus
    <3> QED
      BY <3>1, <3>2, SeqWider
  <2>3. here \in Seq(W)
    <3>1. here \in Seq(ToSet(here))
      BY JobFacts
    <3>2. ToSet(here) \subseteq W
      OBVIOUS
    <3> HIDE DEF W, here
    <3> QED
      BY <3>1, <3>2, SeqWider
  <2>4. name \in Seq(W)
    <3>1. S \subseteq W
      OBVIOUS
    <3> HIDE DEF W, name
    <3> QED
      BY <2>1, <3>1, SeqWider
  <2>5. "/" \in W
    OBVIOUS
  <2>6. At("/", locus) # {} /\ Target = Before("/", locus) /\ Item = After("/", locus)
    BY DEF Addressed, Target, Item
  <2> HIDE DEF W, locus, name, here
  <2>7. ASSUME Target = here, Item = name
        PROVE  At("/", here) = {} /\ locus = here \o (<<"/">> \o name)
    BY <2>2, <2>6, <2>7, SplitJoins
  <2>8. ASSUME At("/", here) = {}, locus = here \o (<<"/">> \o name)
        PROVE  Target = here /\ Item = name
    <3> DEFINE sep == "/"
               whole == here \o (<<sep>> \o name)
    <3>1. sep \in W /\ At(sep, here) = {}
      BY <2>5, <2>8
    <3> HIDE DEF sep
    <3>2. Before(sep, whole) = here /\ After(sep, whole) = name
      BY <2>3, <2>4, <3>1, JoinSplits
    <3> QED
      BY <2>6, <2>8, <3>2 DEF sep
  <2> QED
    BY <1>0, <1>2, <2>7, <2>8 DEF here, name
<1> QED
  BY <1>1, <1>2

LEMMA MinIs ==
  ASSUME NEW S \in SUBSET Nat, S # {}
  PROVE  Min(S) \in S /\ \A x \in S : Min(S) <= x
<1>1. \E x \in S : \A y \in S : x <= y
  BY LeastExists
<1> QED
  BY <1>1 DEF Min

LEMMA SelectedIs ==
  ASSUME NEW c, WellTyped(c), Mapped(c)
  PROVE  /\ Selected(Bag(c)) = Failed => HeldIn(c, Asked) = {}
         /\ Selected(Bag(c)) # Failed =>
              Selected(Bag(c)) \in HeldIn(c, Asked) /\ Selected(Bag(c)) \in Seq(Chars)
<1> DEFINE bag == Bag(c)
           filled == {i \in DOMAIN Chain : Chain[i] \in DOMAIN bag /\ bag[Chain[i]] # <<>>}
           least == {j \in filled : \A k \in filled : j <= k}
           named == {m \in NamesOf(c) : <<m>> = Asked.field}
<1>1. DOMAIN bag = NamesOf(c)
      /\ \A name \in NamesOf(c) : bag[name] \in Seq(Chars) /\ bag[name] # Failed
  BY BagTyped
<1>2. \A name \in NamesOf(c) : bag[name] = Holds(c, name)
  BY BagHolds
<1> HIDE DEF bag
<1>3. filled = {i \in DOMAIN Chain : Chain[i] \in NamesOf(c) /\ Holds(c, Chain[i]) # <<>>}
  BY <1>1, <1>2
<1>4. HeldIn(c, Asked) = IF Asked.explicit THEN {Holds(c, n) : n \in named}
                         ELSE {Holds(c, Chain[i]) : i \in least}
  BY <1>3 DEF HeldIn
<1>5. Primary(bag) = IF filled = {} THEN Failed ELSE bag[Chain[Min(filled)]]
  BY DEF Primary
<1>6. Named(bag) = named
  BY <1>1 DEF Named
<1>7. Selected(bag) = IF ~ Asked.explicit THEN Primary(bag)
                      ELSE IF named = {} THEN Failed ELSE bag[CHOOSE n \in named : TRUE]
  BY <1>6 DEF Selected
<1>8. filled \in SUBSET Nat
  BY DEF Chain
<1>9. \A i \in filled : Chain[i] \in NamesOf(c)
  BY <1>1
<1> HIDE DEF filled
<1>10. CASE ~ Asked.explicit
  <2>1. CASE filled = {}
    <3>1. HeldIn(c, Asked) = {}
      BY <1>4, <1>10, <2>1
    <3> QED
      BY <1>5, <1>7, <1>10, <2>1, <3>1 DEF bag
  <2>2. CASE filled # {}
    <3>1. Min(filled) \in filled /\ \A x \in filled : Min(filled) <= x
      BY <1>8, <2>2, MinIs
    <3>2. Min(filled) \in least /\ Chain[Min(filled)] \in NamesOf(c)
      BY <1>9, <3>1
    <3>3. Selected(bag) = Holds(c, Chain[Min(filled)])
      BY <1>2, <1>5, <1>7, <1>10, <2>2, <3>2
    <3>4. Selected(bag) \in HeldIn(c, Asked)
      BY <1>4, <1>10, <3>2, <3>3
    <3>5. Selected(bag) \in Seq(Chars) /\ Selected(bag) # Failed
      BY <1>1, <1>2, <3>2, <3>3
    <3> QED
      BY <3>4, <3>5 DEF bag
  <2> QED
    BY <2>1, <2>2
<1>11. CASE Asked.explicit
  <2>1. CASE named = {}
    <3>1. HeldIn(c, Asked) = {}
      BY <1>4, <1>11, <2>1
    <3> QED
      BY <1>7, <1>11, <2>1, <3>1 DEF bag
  <2>2. CASE named # {}
    <3> DEFINE n == CHOOSE n \in named : TRUE
    <3>1. n \in named
      BY <2>2
    <3>2. Selected(bag) = bag[n]
      BY <1>7, <1>11, <2>2
    <3> HIDE DEF n
    <3>3. n \in NamesOf(c)
      BY <3>1
    <3>4. Selected(bag) = Holds(c, n) /\ Selected(bag) \in Seq(Chars)
          /\ Selected(bag) # Failed
      BY <1>1, <1>2, <3>2, <3>3
    <3>5. Selected(bag) \in HeldIn(c, Asked)
      BY <1>4, <1>11, <3>1, <3>4
    <3> QED
      BY <3>4, <3>5 DEF bag
  <2> QED
    BY <2>1, <2>2
<1> QED
  BY <1>10, <1>11

LEMMA MatchIs ==
  ASSUME JobInv, turn \in 1..Len(job.env), Addressed, Target = job.here
  PROVE  /\ Matching # {} =>
              /\ Min(Matching) \in DOMAIN ciphers
              /\ WellTyped(ciphers[Min(Matching)])
              /\ ciphers[Min(Matching)] \in Meant(Asked)
         /\ Matching = {} => Meant(Asked) = {}
<1>1. /\ DOMAIN ciphers = 1..Len(ciphers) /\ ToSet(ciphers) = {ciphers[i] : i \in DOMAIN ciphers}
      /\ \A i \in DOMAIN ciphers : WellTyped(ciphers[i])
  BY JobFacts, CipherIs
<1>2. ASSUME Matching # {}
      PROVE  /\ Min(Matching) \in DOMAIN ciphers
             /\ WellTyped(ciphers[Min(Matching)])
             /\ ciphers[Min(Matching)] \in Meant(Asked)
  <2> DEFINE m == Min(Matching)
  <2>1. Matching \in SUBSET Nat
    BY <1>1 DEF Matching
  <2>2. m \in Matching
    BY <1>2, <2>1, MinIs
  <2>3. m \in DOMAIN ciphers /\ NameOf(ciphers[m]) # Failed /\ NameOf(ciphers[m]) = Item
    BY <2>2 DEF Matching
  <2> HIDE DEF m
  <2>4. ciphers[m] \in ToSet(ciphers) /\ WellTyped(ciphers[m])
    BY <1>1, <2>3
  <2>5. ciphers[m] \in Meant(Asked)
    BY <2>3, <2>4, MeantIs
  <2> QED
    BY <2>3, <2>4, <2>5 DEF m
<1>3. ASSUME Matching = {}, NEW c \in Meant(Asked) PROVE FALSE
  <2>1. c \in ToSet(ciphers)
    BY DEF Meant
  <2>2. PICK i \in DOMAIN ciphers : c = ciphers[i]
    BY <1>1, <2>1
  <2>3. NameOf(c) # Failed /\ Item = NameOf(c)
    BY <1>1, <2>1, <2>2, MeantIs
  <2>4. i \in Matching
    BY <2>2, <2>3 DEF Matching
  <2> QED
    BY <1>3, <2>4
<1> QED
  BY <1>2, <1>3

(* What get finds is what the item holds. *)
LEMMA Found ==
  ASSUME JobInv, turn \in 1..Len(job.env), Addressed, LookupError = "none"
  PROVE  /\ Selected(Bag(ciphers[Min(Matching)])) \in Held(Asked)
         /\ Selected(Bag(ciphers[Min(Matching)])) \in Seq(Chars)
<1> DEFINE c == ciphers[Min(Matching)]
<1>1. /\ Target = job.here /\ Matching # {} /\ Mapped(c)
      /\ Selected(Bag(c)) # Failed
  BY DEF LookupError
<1>2. WellTyped(c) /\ c \in Meant(Asked)
  BY <1>1, MatchIs
<1> HIDE DEF c
<1>3. Selected(Bag(c)) \in HeldIn(c, Asked) /\ Selected(Bag(c)) \in Seq(Chars)
  BY <1>1, <1>2, SelectedIs
<1>4. Selected(Bag(c)) \in Held(Asked)
  BY <1>1, <1>2, <1>3 DEF Held
<1> QED
  BY <1>3, <1>4 DEF c

(* Why a lookup fails. *)
Missing ==
  \/ Meant(Asked) = {} /\ (Target = job.here => Locked = {})
  \/ \E c \in Meant(Asked) : Mapped(c) /\ HeldIn(c, Asked) = {}

Damaged ==
  \/ Meant(Asked) = {} /\ Target = job.here /\ Locked # {}
  \/ \E c \in Meant(Asked) : ~ Mapped(c)

LEMMA NotFound ==
  ASSUME JobInv, turn \in 1..Len(job.env), Addressed, LookupError # "none"
  PROVE  \/ LookupError = "NotFound" /\ Missing
         \/ LookupError = "Crypto" /\ Damaged
<1> DEFINE c == ciphers[Min(Matching)]
<1>1. CASE Target # job.here
  <2>1. Meant(Asked) = {}
    <3>1. ASSUME NEW d \in Meant(Asked) PROVE FALSE
      <4>1. d \in ToSet(ciphers)
        BY DEF Meant
      <4>2. WellTyped(d)
        BY <4>1, JobFacts, CipherIs
      <4> QED
        BY <1>1, <4>1, <4>2, MeantIs
    <3> QED
      BY <3>1
  <2> QED
    BY <1>1, <2>1 DEF LookupError, Missing
<1>2. CASE Target = job.here /\ Matching = {}
  <2>1. Meant(Asked) = {}
    BY <1>2, MatchIs
  <2>2. CASE Locked = {}
    BY <1>2, <2>1, <2>2 DEF LookupError, Missing
  <2>3. CASE Locked # {}
    BY <1>2, <2>1, <2>3 DEF LookupError, Damaged
  <2> QED
    BY <2>2, <2>3
<1>3. CASE Target = job.here /\ Matching # {}
  <2>1. WellTyped(c) /\ c \in Meant(Asked)
    BY <1>3, MatchIs
  <2>2. LookupError = IF ~ Mapped(c) THEN "Crypto"
                      ELSE IF Selected(Bag(c)) = Failed THEN "NotFound" ELSE "none"
    BY <1>3 DEF LookupError
  <2> HIDE DEF c
  <2>3. CASE ~ Mapped(c)
    BY <2>1, <2>2, <2>3 DEF Damaged
  <2>4. CASE Mapped(c)
    <3>1. Selected(Bag(c)) = Failed /\ LookupError = "NotFound"
      BY <2>2, <2>4
    <3>2. HeldIn(c, Asked) = {}
      BY <2>1, <2>4, <3>1, SelectedIs
    <3> QED
      BY <2>1, <2>4, <3>1, <3>2 DEF Missing
  <2> QED
    BY <2>3, <2>4
<1> QED
  BY <1>1, <1>2, <1>3

-----------------------------------------------------------------------------
(* What a vault holds stays as long as the vault and the session do.       *)
LEMMA VaultStays ==
  ASSUME UNCHANGED given
  PROVE  /\ Opened' = Opened
         /\ \A c : ItemKey(c)' = ItemKey(c) /\ NameOf(c)' = NameOf(c)
         /\ \A c : Entries(c)' = Entries(c) /\ Mapped(c)' = Mapped(c)
         /\ \A c : NamesOf(c)' = NamesOf(c) /\ Bag(c)' = Bag(c)
         /\ \A c, name : Holds(c, name)' = Holds(c, name)
         /\ Secrets' = Secrets
<1>1. UNCHANGED <<account, session, ciphers, job>>
  BY DEF given, vault
<1>2. Opened' = Opened
  BY <1>1 DEF Opened
<1>3. \A c : ItemKey(c)' = ItemKey(c)
  BY <1>1, <1>2 DEF ItemKey
<1>4. \A c : NameOf(c)' = NameOf(c)
  BY <1>3 DEF NameOf
<1>5. \A c : BuiltIn(c)' = BuiltIn(c)
  BY <1>3 DEF BuiltIn
<1>6. \A c : Entries(c)' = Entries(c)
  BY <1>3, <1>5 DEF Entries
<1>7. \A c : Mapped(c)' = Mapped(c)
  BY <1>4, <1>6 DEF Mapped
<1>8. \A c : NamesOf(c)' = NamesOf(c)
  BY <1>6 DEF NamesOf
<1>9. \A c : Bag(c)' = Bag(c)
  BY <1>6 DEF Bag
<1>10. \A c, name : Holds(c, name)' = Holds(c, name)
  BY <1>3, <1>5 DEF Holds
<1>11. Secrets' = Secrets
  <2> DEFINE ss == [i \in DOMAIN ciphers |->
                      IF Mapped(ciphers[i]) THEN FieldsOf(Bag(ciphers[i])) ELSE <<>>]
  <2>1. ss' = ss
    BY <1>1, <1>7, <1>9
  <2>2. Secrets = FlattenSeq(ss)
    BY DEF Secrets
  <2>3. Secrets' = FlattenSeq(ss')
    BY DEF Secrets
  <2> HIDE DEF ss
  <2> QED
    BY <2>1, <2>2, <2>3
<1> QED
  BY <1>2, <1>3, <1>4, <1>6, <1>7, <1>8, <1>9, <1>10, <1>11

LEMMA HeldStays ==
  ASSUME UNCHANGED given
  PROVE  /\ \A ref : Meant(ref)' = Meant(ref) /\ Held(ref)' = Held(ref)
         /\ \A c, ref : HeldIn(c, ref)' = HeldIn(c, ref)
         /\ Bindings' = Bindings /\ IsGet' = IsGet /\ Locked' = Locked
<1>1. UNCHANGED <<account, session, ciphers, job>>
  BY DEF given, vault
<1>2. \A c, ref : HeldIn(c, ref)' = HeldIn(c, ref)
  <2>1. \A c : NamesOf(c)' = NamesOf(c)
    BY VaultStays
  <2>2. \A c, name : Holds(c, name)' = Holds(c, name)
    BY VaultStays
  <2> QED
    BY <2>1, <2>2 DEF HeldIn
<1>3. \A ref : Meant(ref)' = Meant(ref)
  <2>1. \A c : NameOf(c)' = NameOf(c)
    BY VaultStays
  <2> QED
    BY <1>1, <2>1 DEF Meant
<1>4. \A ref : Held(ref)' = Held(ref)
  <2>1. \A c : Mapped(c)' = Mapped(c)
    BY VaultStays
  <2> QED
    BY <1>2, <1>3, <2>1 DEF Held
<1>5. Bindings' = Bindings /\ IsGet' = IsGet
  BY <1>1 DEF Bindings, IsGet
<1>6. Locked' = Locked
  <2>1. \A c : ItemKey(c)' = ItemKey(c)
    BY VaultStays
  <2> QED
    BY <1>1, <2>1 DEF Locked
<1> QED
  BY <1>2, <1>3, <1>4, <1>5, <1>6
-----------------------------------------------------------------------------
(* The login: the parameters it derives the master key from are the        *)
(* server's, as long as they fit, and only with the account's own does the *)
(* user key open.                                                          *)
LEMMA ParamRead ==
  ASSUME NEW x \in Nat \cup {Absent}, NEW default \in Nat, x # Absent => x < Word
  PROVE  Param(x, default) = Or(x, default)
<1>1. Word \in Nat /\ Word > 65536
  BY SMT, WordAssumption
<1>2. ASSUME NEW n \in Nat, n < Word PROVE U32(n) = n
  BY SMT, <1>1, <1>2 DEF U32
<1>3. CASE x = Absent
  BY SMT, <1>3 DEF Param, Or
<1>4. CASE x # Absent
  <2>1. Or(x, default) = x /\ x \in Nat
    BY SMT, <1>4 DEF Or
  <2>2. x < Word
    BY <1>4
  <2>3. U32(x) = x
    BY <1>2, <2>1, <2>2
  <2> QED
    BY <1>4, <2>1, <2>3 DEF Param
<1> QED
  BY SMT, <1>3, <1>4

LEMMA MemoryRead ==
  ASSUME NEW json, json.memory \in Nat \cup {Absent}, Kib(json) < Word
  PROVE  U32(Param(json.memory, 64) * 1024) = Kib(json)
<1>1. Word \in Nat /\ Word > 65536
  BY SMT, WordAssumption
<1>2. PICK m \in Nat : m = Or(json.memory, 64)
  BY SMT DEF Or
<1>3. Kib(json) = 1024 * m
  BY SMT, <1>2 DEF Kib
<1>4. m < Word /\ 1024 * m < Word
  BY SMT, <1>1, <1>3
<1>5. Param(json.memory, 64) = m
  <2>1. json.memory # Absent => json.memory < Word
    BY SMT, <1>2, <1>4 DEF Or
  <2>2. 64 \in Nat
    BY SMT
  <2>3. Param(json.memory, 64) = Or(json.memory, 64)
    BY <2>1, <2>2, ParamRead
  <2> QED
    BY <1>2, <2>3
<1>6. U32(m * 1024) = 1024 * m
  BY SMT, <1>1, <1>4 DEF U32
<1> QED
  BY SMT, <1>3, <1>5, <1>6

LEMMA ParamsRead ==
  ASSUME NEW json, Fits(json),
         \A x \in {json.kind, json.iterations, json.memory, json.parallelism} :
           x \in Nat \cup {Absent}
  PROVE  /\ Param(json.kind, 0) = Or(json.kind, 0)
         /\ Param(json.iterations, 3) = Or(json.iterations, 3)
         /\ Param(json.iterations, 600000) = Or(json.iterations, 600000)
         /\ Param(json.parallelism, 4) = Or(json.parallelism, 4)
         /\ U32(Param(json.memory, 64) * 1024) = Kib(json)
<1>1. ASSUME NEW x \in {json.kind, json.iterations, json.parallelism}
      PROVE  x \in Nat \cup {Absent} /\ (x # Absent => x < Word)
  <2>1. x \in Nat \cup {Absent} /\ Or(x, 0) < Word
    BY DEF Fits
  <2> QED
    BY SMT, <2>1 DEF Or
<1>2. U32(Param(json.memory, 64) * 1024) = Kib(json)
  BY MemoryRead DEF Fits
<1>3. ASSUME NEW x \in {json.kind, json.iterations, json.parallelism},
             NEW default \in Nat
      PROVE  Param(x, default) = Or(x, default)
  <2>1. x \in Nat \cup {Absent} /\ (x # Absent => x < Word)
    BY <1>1
  <2> QED
    BY <2>1, ParamRead
<1> QED
  BY SMT, <1>2, <1>3

LEMMA UserKeyOpens ==
  From64(DecryptSymmetric(Sealed("master", Blob("user")), "master")) = "user"
<1> DEFINE s == Sealed("master", Blob("user"))
<1>1. /\ s.type = 2 /\ s.parts = 3 /\ s.base64 /\ s.padded /\ s.seal = "master"
      /\ s.text = <<"user">>
  BY SMT DEF Sealed, EncString, Blob
<1>2. PartsOf(2) = 3
  BY SMT DEF PartsOf, WithMac, Legacy
<1>3. DecryptSymmetric(s, "master") = <<"user">>
  <2> HIDE DEF s
  <2> QED
    BY SMT, <1>1, <1>2 DEF DecryptSymmetric, Parses, Types, WithMac
<1>4. From64(<<"user">>) = "user"
  <2>1. \A k \in Keys : <<"user">> = Blob(k) <=> k = "user"
    BY SMT DEF Blob
  <2> QED
    BY SMT, <2>1, KeysAssumption DEF From64
<1> QED
  BY SMT, <1>3, <1>4

LEMMA UnlockExact ==
  ASSUME NEW json, NEW acc,
         \A x \in {json.kind, json.iterations, json.memory, json.parallelism} :
           x \in Nat \cup {Absent},
         acc.sealedKey = Sealed("master", Blob("user")),
         acc.kdf \in KdfsOfAccounts
  PROVE  /\ UserKey(json, acc) \in {"user", Failed}
         /\ Or(json.kind, 0) < Word /\ Means(json, acc.kdf) => UserKey(json, acc) = "user"
         /\ Fits(json) /\ UserKey(json, acc) = "user" => Means(json, acc.kdf)
<1> DEFINE params == KdfFromJson(json)
           master == DeriveMasterKey(params, acc)
<1>1. "user" # Failed /\ "master" # Failed
  BY SMT, FailedAssumption, KeysAssumption
<1>2. UserKey(json, acc) = IF master = "master" THEN "user" ELSE Failed
  BY SMT, <1>1, UserKeyOpens DEF UserKey, Accepts
<1>3. acc.kdf.kind = 1 => ArgonAccepts(acc.kdf)
  BY SMT DEF KdfsOfAccounts
<1>4. master = "master" <=> params = acc.kdf
  <2> HIDE DEF params
  <2> QED
    BY SMT, <1>1, <1>3 DEF DeriveMasterKey
<1>5. ASSUME Fits(json) PROVE params = acc.kdf => Means(json, acc.kdf)
  <2>1. CASE Or(json.kind, 0) = 1
    <3>1. params = [kind |-> 1, iterations |-> Or(json.iterations, 3),
                    memory |-> Kib(json), parallelism |-> Or(json.parallelism, 4)]
      BY SMT, <1>5, <2>1, ParamsRead DEF KdfFromJson, Fits
    <3> HIDE DEF params
    <3> QED
      BY SMT, <2>1, <3>1 DEF Means
  <2>2. CASE Or(json.kind, 0) # 1
    <3>1. params = [kind |-> 0, iterations |-> Or(json.iterations, 600000)]
      BY SMT, <1>5, <2>2, ParamsRead DEF KdfFromJson, Fits
    <3> HIDE DEF params
    <3> QED
      BY SMT, <2>2, <3>1 DEF Means
  <2> QED
    BY SMT, <2>1, <2>2
<1>6. ASSUME Or(json.kind, 0) < Word, Means(json, acc.kdf) PROVE params = acc.kdf
  <2>1. Param(json.kind, 0) = Or(json.kind, 0)
    <3>1. json.kind # Absent => json.kind < Word
      BY SMT, <1>6 DEF Or
    <3>2. 0 \in Nat /\ json.kind \in Nat \cup {Absent}
      BY SMT
    <3> QED
      BY <3>1, <3>2, ParamRead
  <2>2. CASE Or(json.kind, 0) = 1
    <3>1. /\ acc.kdf \in [kind : {1}, iterations : Unsigned, memory : Unsigned,
                          parallelism : Unsigned]
          /\ acc.kdf.iterations = Or(json.iterations, 3) /\ acc.kdf.memory = Kib(json)
          /\ acc.kdf.parallelism = Or(json.parallelism, 4)
      BY SMT, <1>6, <2>2 DEF Means, KdfsOfAccounts
    <3>2. /\ json.iterations # Absent => json.iterations < Word
          /\ json.parallelism # Absent => json.parallelism < Word
          /\ Kib(json) < Word
      BY SMT, <3>1, WordAssumption DEF Unsigned, Or
    <3>3. /\ Param(json.iterations, 3) = Or(json.iterations, 3)
          /\ Param(json.parallelism, 4) = Or(json.parallelism, 4)
          /\ U32(Param(json.memory, 64) * 1024) = Kib(json)
      <4>1. /\ 3 \in Nat /\ 4 \in Nat
            /\ \A x \in {json.iterations, json.memory, json.parallelism} :
                 x \in Nat \cup {Absent}
        BY SMT
      <4>2. Param(json.iterations, 3) = Or(json.iterations, 3)
        BY <3>2, <4>1, ParamRead
      <4>3. Param(json.parallelism, 4) = Or(json.parallelism, 4)
        BY <3>2, <4>1, ParamRead
      <4>4. U32(Param(json.memory, 64) * 1024) = Kib(json)
        BY <3>2, <4>1, MemoryRead
      <4> QED
        BY <4>2, <4>3, <4>4
    <3>4. params = [kind |-> 1, iterations |-> Or(json.iterations, 3),
                    memory |-> Kib(json), parallelism |-> Or(json.parallelism, 4)]
      BY SMT, <2>1, <2>2, <3>3 DEF KdfFromJson
    <3> HIDE DEF params
    <3> QED
      BY SMT, <3>1, <3>4
  <2>3. CASE Or(json.kind, 0) # 1
    <3>1. /\ acc.kdf \in [kind : {0}, iterations : Unsigned]
          /\ acc.kdf.iterations = Or(json.iterations, 600000)
      BY SMT, <1>6, <2>3 DEF Means, KdfsOfAccounts
    <3>2. json.iterations # Absent => json.iterations < Word
      BY SMT, <3>1, WordAssumption DEF Unsigned, Or
    <3>3. Param(json.iterations, 600000) = Or(json.iterations, 600000)
      <4>1. ASSUME NEW default \in Nat
            PROVE  Param(json.iterations, default) = Or(json.iterations, default)
        <5>1. json.iterations \in Nat \cup {Absent}
          BY SMT
        <5> QED
          BY <3>2, <5>1, ParamRead
      <4> QED
        BY SMT, <4>1
    <3>4. params = [kind |-> 0, iterations |-> Or(json.iterations, 600000)]
      BY SMT, <2>1, <2>3, <3>3 DEF KdfFromJson
    <3> HIDE DEF params
    <3> QED
      BY SMT, <3>1, <3>4
  <2> QED
    BY SMT, <2>2, <2>3
<1> HIDE DEF params, master
<1> QED
  BY SMT, <1>1, <1>2, <1>4, <1>5, <1>6


-----------------------------------------------------------------------------
Answers == [to : {"none", "sync", "collections", "refresh"}, response : Responses]

(* The initial states. *)
LEMMA Initially == DeliveryInit => DeliveryInv
<1> SUFFICES ASSUME DeliveryInit PROVE DeliveryInv
  OBVIOUS
<1>1. PICK j \in Jobs :
        /\ account = j.vault.account /\ ciphers = j.vault.ciphers
        /\ format = j.format
        /\ job = [kind |-> j.kind, here |-> j.here, env |-> j.env, agent |-> j.agent]
        /\ pc = (IF j.kind = "fetch" THEN "plugin" ELSE "parse")
        /\ turn = (IF j.kind = "get" THEN 1 ELSE 0)
        /\ prelude = j.prelude
        /\ session = UserKey(j.prelude, account)
  BY DEF DeliveryInit
<1>2. /\ fields = <<>> /\ next = 0 /\ seen = {} /\ out = <<>> /\ exit = "none"
      /\ retried = FALSE /\ answered = Unasked /\ value = <<>> /\ child = "none"
      /\ secrets = << >> /\ kind = "none"
  BY DEF DeliveryInit
<1>3. JobInv
  BY <1>1 DEF JobInv
<1>4. UnlockIsExact
  <2>1. \A x \in {prelude.kind, prelude.iterations, prelude.memory,
                 prelude.parallelism} : x \in Nat \cup {Absent}
    BY <1>1, JobsAssumption
  <2>2. account.sealedKey = Sealed("master", Blob("user"))
        /\ account.kdf \in KdfsOfAccounts
    BY <1>1, JobsAssumption
  <2>3. session = UserKey(prelude, account)
    BY <1>1
  <2> QED
    BY <2>1, <2>2, <2>3, UnlockExact DEF UnlockIsExact
<1>5. /\ pc = (IF job.kind = "fetch" THEN "plugin" ELSE "parse")
      /\ turn = (IF job.kind = "get" THEN 1 ELSE 0)
      /\ DOMAIN job.env = 1..Len(job.env) /\ Len(job.env) \in Nat
      /\ job.kind = "get" => Len(job.env) = 1
      /\ format = "env" => job.kind = "export"
  <2>1. DOMAIN job.env = 1..Len(job.env) /\ Len(job.env) \in Nat
    BY <1>3, JobFacts, LenProperties
  <2>2. job.kind = j.kind
    BY <1>1
  <2> QED
    BY <1>1, <1>3, <2>1, <2>2, JobFacts
<1>6. DOMAIN secrets = {} /\ Len(out) = 0 /\ DOMAIN out = {} /\ out = [i \in 1..0 |-> out[i]]
  BY <1>2
<1>7. DeliveryTypeOK
  <2>1. fields \in Seq([name : Names, value : Seq(Chars)]) /\ value \in Seq(Chars)
    BY <1>2, EmptySeq
  <2>2. next \in 0..(Len(fields) + 1)
    <3>1. Len(fields) = 0
      BY <1>2
    <3> QED
      BY <1>2, <3>1
  <2>3. IsFiniteSet(seen)
    BY <1>2, FS_EmptySet
  <2>4. session \in Keys \cup {Failed}
    BY <1>4, KeysAssumption DEF UnlockIsExact
  <2>5. pc \in Points /\ turn \in 0..Len(job.env)
    BY <1>5 DEF Points
  <2>6. answered \in Answers /\ retried \in BOOLEAN
    BY <1>2, DownAssumption DEF Unasked, Answers
  <2> QED
    BY <1>2, <1>6, <2>1, <2>2, <2>3, <2>4, <2>5, <2>6 DEF DeliveryTypeOK, Kinds, Answers
<1>8. EnvInv /\ KeysDistinct /\ LinesInv
  BY <1>2, <1>5, <1>6 DEF EnvInv, KeysDistinct, LinesInv
<1>9. HandInv
  BY <1>2, <1>3, <1>5, JobFacts DEF HandInv
<1>10. PointInv /\ ValueIsHeld /\ FailureIsReal
  BY <1>2, <1>5 DEF PointInv, ValueIsHeld, FailureIsReal
<1>11. Taken = {}
  BY <1>2, <1>5 DEF Taken, Bindings
<1>12. FetchInv
  BY <1>2, <1>5, <1>6, <1>11 DEF FetchInv
<1>13. FetchIsWhole
  BY <1>2, <1>6 DEF FetchIsWhole
<1> QED
  BY <1>3, <1>4, <1>7, <1>8, <1>9, <1>10, <1>12, <1>13 DEF DeliveryInv

-----------------------------------------------------------------------------
(* The steps up to the lookup.                                             *)
AskStep ==
  \/ ParseRef \/ LoadState \/ LoadStateErr \/ Open \/ RefreshMissing \/ LookupErr
  \/ \E response \in Responses : Answer(response) \/ Refresh(response)

(* The steps of a get that has its value. *)
TailStep ==
  Lookup \/ OfferSkipped \/ PipeBroke \/ Offered \/ ChildEnds \/ PrintValue

LEMMA GivenStays ==
  ASSUME [DeliveryNext]_deliveryVars
  PROVE  UNCHANGED given
<1>1. CASE AskStep
  BY <1>1 DEF AskStep, ParseRef, LoadState, LoadStateErr, Open, RefreshMissing,
              LookupErr, Answer, Refresh, Die, Continue
<1>2. CASE TailStep
  BY <1>2 DEF TailStep, Lookup, OfferSkipped, PipeBroke, Offered, Spawned, ChildEnds,
              PrintValue, Continue
<1>3. CASE ExportStep
  BY <1>3 DEF ExportStep, Collect, PrintJson, PrintLine, RefuseNul, Done, given
<1>4. CASE Plugin \/ Killed
  BY <1>4 DEF Plugin, Killed, NotConfigured, BinaryMissing, RunGet, Take, GetFailed,
              FetchDone, FetchFails
<1>5. CASE UNCHANGED deliveryVars
  BY <1>5 DEF deliveryVars
<1> QED
  BY <1>1, <1>2, <1>3, <1>4, <1>5 DEF DeliveryNext, Command, AskStep, TailStep

LEMMA JobStays ==
  ASSUME JobInv, UnlockIsExact, UNCHANGED given
  PROVE  JobInv' /\ UnlockIsExact'
<1>1. JobInv'
  BY DEF JobInv, given, vault
<1>2. UnlockIsExact'
  BY DEF UnlockIsExact, given, vault
<1> QED
  BY <1>1, <1>2

(* The exit code of an answer. *)
LEMMA AnswerExits ==
  ASSUME NEW r, ~ Ok(r)
  PROVE  /\ ErrorOf(r) = "AuthExpired" => r # Down /\ r.status = 401
         /\ \/ /\ ExitOf(ErrorOf(r)) = "auth" /\ r # Down
               /\ r.status \in (400..499) \ {404}
            \/ ExitOf(ErrorOf(r)) = "absent" /\ r # Down /\ r.status = 404
            \/ ExitOf(ErrorOf(r)) = "fault" /\ (r = Down \/ r.status \notin 400..499)
<1>1. CASE r = Down \/ r.status \in 200..299
  <2>1. ErrorOf(r) = "Transport"
    BY <1>1 DEF ErrorOf
  <2>2. ExitOf("Transport") = "fault"
    BY DEF ExitOf
  <2>3. r = Down \/ r.status \notin 400..499
    BY SMT, <1>1
  <2> QED
    BY <2>1, <2>2, <2>3
<1>2. CASE r # Down /\ r.status \notin 200..299
  <2>1. CASE Challenges(r)
    <3>1. ErrorOf(r) = "TwoFactorRequired" /\ r.status = 400
      BY <1>2, <2>1 DEF ErrorOf, Challenges
    <3>2. ExitOf("TwoFactorRequired") = "auth"
      BY DEF ExitOf
    <3>3. r.status \in (400..499) \ {404}
      BY SMT, <3>1
    <3> QED
      BY <1>2, <3>1, <3>2, <3>3
  <2>2. CASE ~ Challenges(r)
    <3>1. ErrorOf(r) = ErrorOfStatus(r.status)
      BY <1>2, <2>2 DEF ErrorOf
    <3>2. /\ ErrorOfStatus(401) = "AuthExpired" /\ ErrorOfStatus(403) = "Forbidden"
          /\ ErrorOfStatus(404) = "NotFound"
      BY SMT DEF ErrorOfStatus
    <3>3. ExitOf("AuthExpired") = "auth" /\ ExitOf("Forbidden") = "auth"
          /\ ExitOf("NotFound") = "absent" /\ ExitOf("Auth") = "auth"
          /\ ExitOf("Server") = "fault"
      BY DEF ExitOf
    <3>4. r.status \in (400..499) \ {401, 403, 404} => ErrorOfStatus(r.status) = "Auth"
      BY SMT DEF ErrorOfStatus
    <3>5. r.status \notin 400..499 => ErrorOfStatus(r.status) = "Server"
      BY SMT DEF ErrorOfStatus
    <3>6. 401 \in (400..499) \ {404} /\ 403 \in (400..499) \ {404}
      BY SMT
    <3> QED
      BY SMT, <1>2, <3>1, <3>2, <3>3, <3>4, <3>5, <3>6
  <2> QED
    BY <2>1, <2>2
<1> QED
  BY <1>1, <1>2

Ask ==
  /\ UNCHANGED <<given, fields, next, seen, out, plugin, value, child>>
  /\ retried' \in BOOLEAN /\ answered' \in Answers
  /\ pc \in {"parse", "state", "open", "sync", "collections", "refresh", "read"}
  /\ \/ exit' = exit /\ pc' \in {"state", "open", "sync", "collections", "refresh", "read"}
     \/ exit' \in {"usage", "auth", "fault", "absent"} /\ pc' = "exited"

LEMMA AskIs ==
  ASSUME DeliveryTypeOK, JobInv, FetchInv, PointInv, AskStep
  PROVE  Ask
<1>0. retried \in BOOLEAN /\ answered \in Answers
  BY DEF DeliveryTypeOK, Answers
<1>1. ExitOf("Auth") = "auth" /\ ExitOf("Crypto") = "fault" /\ ExitOf("NotFound") = "absent"
  BY DEF ExitOf
<1>2. CASE ParseRef \/ LoadState \/ LoadStateErr \/ Open
  BY <1>0, <1>2 DEF ParseRef, LoadState, LoadStateErr, Open, Die, Continue, Ask, printing,
                    wire
<1>3. CASE RefreshMissing
  BY <1>0, <1>1, <1>3 DEF RefreshMissing, Die, Ask, wire
<1>4. CASE LookupErr
  <2>1. LookupError \in {"NotFound", "Crypto"}
    BY <1>4 DEF LookupErr, LookupError
  <2> QED
    BY <1>0, <1>1, <1>4, <2>1 DEF LookupErr, Die, Ask, wire
<1>5. ASSUME NEW response \in Responses, Refresh(response) PROVE Ask
  BY <1>0, <1>1, <1>5 DEF Refresh, Die, Continue, Ask, printing, Answers
<1>6. ASSUME NEW response \in Responses, Answer(response) PROVE Ask
  <2>1. /\ answered' \in Answers /\ UNCHANGED retried
        /\ pc \in {"sync", "collections"}
    BY <1>6 DEF Answer, Requesting, Answers
  <2>2. CASE Ok(response)
    BY <1>0, <1>1, <1>6, <2>1, <2>2 DEF Answer, Die, Continue, Ask, printing
  <2>3. CASE ~ Ok(response)
    <3>1. ExitOf(ErrorOf(response)) \in {"auth", "fault", "absent"}
      BY <2>3, AnswerExits
    <3> QED
      BY <1>0, <1>6, <2>1, <2>3, <3>1 DEF Answer, Die, Continue, Ask, printing
  <2> QED
    BY <2>2, <2>3
<1> QED
  BY <1>2, <1>3, <1>4, <1>5, <1>6 DEF AskStep

LEMMA TurnIn ==
  ASSUME JobInv, FetchInv, IsGet, pc \notin {"plugin", "done"}
  PROVE  /\ turn \in 1..Len(job.env)
         /\ Written \in Seq(ToSet(Written))
<1>1. Len(job.env) \in Nat /\ DOMAIN job.env = 1..Len(job.env)
  BY JobFacts, LenProperties
<1>2. turn \in 1..Len(job.env)
  <2>1. CASE job.kind = "get"
    <3>1. turn = 1
      BY <2>1 DEF FetchInv
    <3>2. Len(job.env) = 1
      BY <2>1, JobFacts
    <3> QED
      BY <3>1, <3>2
  <2>2. CASE job.kind = "fetch"
    BY <1>1, <2>2 DEF FetchInv, Bindings
  <2> QED
    BY <2>1, <2>2 DEF IsGet
<1> QED
  BY <1>2, JobFacts DEF Written

Reply ==
  /\ UNCHANGED <<given, fields, next, seen, plugin, wire>>
  /\ IsGet
  /\ pc \in {"read", "offer", "child", "print"}
  /\ pc' \in {"offer", "child", "print", "exited"}
  /\ exit' \in {exit, "ok"}
  /\ value' \in Seq(Chars) /\ value' \in Held(Asked)
  /\ child' \in {child, "running", "killed", "added", "refused", "lost"}
  /\ pc' = "exited" => exit' = "ok" /\ out' = value'

LEMMA TailIs ==
  ASSUME DeliveryTypeOK, JobInv, FetchInv, PointInv, TailStep
  PROVE  Reply
<1>1. CASE Lookup
  <2>1. pc = "read" /\ IsGet /\ LookupError = "none"
        /\ value' = Selected(Bag(ciphers[Min(Matching)]))
    BY <1>1 DEF Lookup
  <2>2. turn \in 1..Len(job.env)
    BY <2>1, TurnIn
  <2>3. Addressed
    BY <2>1 DEF PointInv
  <2>4. value' \in Held(Asked) /\ value' \in Seq(Chars)
    BY <2>1, <2>2, <2>3, Found
  <2> QED
    BY <1>1, <2>4 DEF Lookup, Reply, printing
<1>2. CASE OfferSkipped \/ PipeBroke \/ Offered \/ ChildEnds \/ PrintValue
  <2>1. pc \in {"offer", "child", "print"} /\ value' = value
    BY <1>2 DEF OfferSkipped, PipeBroke, Offered, Spawned, ChildEnds, PrintValue, Continue
  <2>2. IsGet /\ value \in Held(Asked) /\ value \in Seq(Chars)
    BY <2>1 DEF PointInv, DeliveryTypeOK
  <2> QED
    BY <1>2, <2>1, <2>2 DEF OfferSkipped, PipeBroke, Offered, Spawned, ChildEnds,
                            PrintValue, Continue, printing, Reply, wire
<1> QED
  BY <1>1, <1>2 DEF TailStep

-----------------------------------------------------------------------------
(* The steps of a fetch touch no line, no value and no child. *)
LEMMA FetchSteps ==
  ASSUME DeliveryInv, Plugin \/ Killed
  PROVE  /\ job.kind = "fetch" /\ child' = child
         /\ UNCHANGED <<given, fields, next, seen>>
         /\ \/ RunGet
            \/ Take
            \/ /\ UNCHANGED <<out, exit, turn, secrets, wire, value>>
               /\ pc' = "done" /\ kind' \in Kinds \ {"none"}
               /\ kind' = "ok" => pc = "plugin" /\ Left = {}
               /\ kind' # "ok" => turn = 0 \/ pc \notin {"plugin", "done"}
<1>1. job.kind = "fetch"
  BY DEF DeliveryInv, FetchInv, Plugin, Killed, NotConfigured, BinaryMissing, RunGet, Take,
         GetFailed, FetchDone
<1>2. CASE NotConfigured \/ BinaryMissing \/ FetchDone \/ Killed
  BY <1>1, <1>2 DEF NotConfigured, BinaryMissing, FetchDone, Killed, FetchFails, printing,
                    Kinds, InCommand
<1>3. CASE GetFailed
  <2>1. exit # "ok" => exit \in {"usage", "absent", "fault", "auth"}
    BY <1>1, <1>3 DEF DeliveryInv, FailureIsReal, GetFailed, IsGet
  <2>2. /\ UNCHANGED <<given, printing, turn, secrets, wire, value, child>>
        /\ pc = "exited" /\ pc' = "done"
        /\ kind' = IF exit = "ok" THEN "EMPTY_VALUE" ELSE KindOfExits[exit]
    BY <1>3 DEF GetFailed, FetchFails
  <2>3. kind' \in Kinds \ {"none", "ok"}
    BY <2>1, <2>2 DEF KindOfExits, Kinds
  <2> QED
    BY <1>1, <2>2, <2>3 DEF printing
<1>4. CASE RunGet
  BY <1>1, <1>4 DEF RunGet
<1>5. CASE Take
  BY <1>1, <1>5 DEF Take, printing
<1> QED
  BY <1>2, <1>3, <1>4, <1>5 DEF Plugin

(* The types.                                                              *)
LEMMA TypeStep ==
  ASSUME DeliveryInv, [DeliveryNext]_deliveryVars
  PROVE  DeliveryTypeOK'
<1>1. UNCHANGED <<session, job, format>> /\ UNCHANGED given
  BY GivenStays DEF given, vault
<1>2. /\ DeliveryTypeOK /\ JobInv /\ FetchInv /\ PointInv
      /\ Len(job.env) \in Nat /\ DOMAIN job.env = 1..Len(job.env)
  BY JobFacts, LenProperties DEF DeliveryInv
<1>3. CASE AskStep
  <2>1. Ask
    BY <1>2, <1>3, AskIs
  <2> QED
    BY <1>1, <1>2, <2>1 DEF Ask, DeliveryTypeOK, Answers, Points, plugin
<1>4. CASE TailStep
  <2>1. Reply
    BY <1>2, <1>4, TailIs
  <2> QED
    BY <1>1, <1>2, <2>1 DEF Reply, DeliveryTypeOK, Points, plugin, wire
<1>5. CASE ExportStep
  <2>1. /\ UNCHANGED <<plugin, wire, value, child>> /\ pc' \in {"read", "exited"}
    BY <1>5 DEF ExportStep
  <2>2. CASE Collect
    <3>1. fields' = Secrets /\ next' = 1 /\ UNCHANGED <<seen, out, exit>>
      BY <2>2 DEF Collect
    <3>2. fields' \in Seq([name : Names, value : Seq(Chars)])
      BY <1>2, <3>1, JobFacts, SecretsAre DEF FieldType
    <3>3. next' \in 0..(Len(fields') + 1)
      <4>1. Len(fields') \in Nat
        BY <3>2, LenProperties
      <4> QED
        BY <3>1, <4>1
    <3> QED
      BY <1>1, <1>2, <2>1, <3>1, <3>2, <3>3 DEF DeliveryTypeOK, Points, plugin, wire
  <2>3. CASE PrintLine
    <3>1. /\ next \in DOMAIN fields /\ next' = next + 1 /\ UNCHANGED <<fields, exit>>
          /\ seen' = seen \cup {Mangled(fields[next].name, seen)}
      BY <2>3 DEF PrintLine
    <3>2. next' \in 0..(Len(fields) + 1)
      <4>1. Len(fields) \in Nat /\ DOMAIN fields = 1..Len(fields)
        BY <1>2, LenProperties DEF DeliveryTypeOK
      <4> QED
        BY <3>1, <4>1
    <3>3. IsFiniteSet(seen')
      BY <1>2, <3>1, FS_AddElement DEF DeliveryTypeOK
    <3> QED
      BY <1>1, <1>2, <2>1, <3>1, <3>2, <3>3 DEF DeliveryTypeOK, Points, plugin, wire
  <2>4. CASE RefuseNul \/ Done \/ PrintJson
    <3>1. UNCHANGED <<fields, next, seen>> /\ exit' \in {"nul", "ok"}
      BY <2>4 DEF RefuseNul, Done, PrintJson
    <3> QED
      BY <1>1, <1>2, <2>1, <3>1 DEF DeliveryTypeOK, Points, plugin, wire
  <2> QED
    BY <1>5, <2>2, <2>3, <2>4 DEF ExportStep
<1>6. CASE Plugin \/ Killed
  <2>1. /\ job.kind = "fetch" /\ UNCHANGED <<fields, next, seen, child>>
    BY <1>6, FetchSteps
  <2>2. turn \in Nat /\ turn <= Len(job.env)
    BY <1>2 DEF DeliveryTypeOK
  <2>3. CASE RunGet
    <3>1. Left \in SUBSET Nat /\ Left \subseteq 1..Len(job.env)
      BY <1>2 DEF Left, Bindings
    <3>2. turn' \in 0..Len(job.env)
      <4>1. Left # {} /\ turn' = Min(Left)
        BY <2>3 DEF RunGet
      <4>2. turn' \in Left
        BY <3>1, <4>1, MinIs
      <4> QED
        BY <1>2, <3>1, <4>2
    <3>3. answered' \in Answers /\ retried' \in BOOLEAN /\ value' \in Seq(Chars)
      BY <2>3, DownAssumption, EmptySeq DEF RunGet, Unasked, Answers
    <3> QED
      BY <1>1, <1>2, <2>1, <2>3, <3>2, <3>3 DEF RunGet, DeliveryTypeOK, Answers, Points
  <2>4. CASE Take
    <3>1. /\ pc = "exited" /\ pc' = "plugin" /\ UNCHANGED <<exit, turn, kind, wire, value>>
          /\ secrets' = Assigned(secrets, job.env[turn].var, Strip(out))
      BY <2>4 DEF Take, printing
    <3>2. turn \in 1..Len(job.env)
      BY <1>2, <2>1, <3>1, TurnIn DEF IsGet
    <3>3. job.env[turn].var \in {b.var : b \in ToSet(job.env)}
      BY <1>2, <3>2 DEF ToSet
    <3>4. DOMAIN secrets' \subseteq {b.var : b \in ToSet(job.env)}
      <4>1. DOMAIN secrets' = {job.env[turn].var} \cup DOMAIN secrets
        BY <3>1 DEF Assigned
      <4> QED
        BY <1>2, <3>3, <4>1 DEF DeliveryTypeOK
    <3> QED
      BY <1>1, <1>2, <2>1, <3>1, <3>4 DEF DeliveryTypeOK, Points, wire
  <2>5. CASE ~ RunGet /\ ~ Take
    <3>1. /\ UNCHANGED <<out, exit, turn, secrets, wire, value>>
          /\ pc' = "done" /\ kind' \in Kinds
      BY <1>6, <2>5, FetchSteps
    <3> QED
      BY <1>1, <1>2, <2>1, <3>1 DEF DeliveryTypeOK, Points, wire
  <2> QED
    BY <2>3, <2>4, <2>5
<1>7. CASE UNCHANGED deliveryVars
  BY <1>2, <1>7 DEF deliveryVars, DeliveryTypeOK, given, vault, printing, plugin, wire
<1> QED
  BY <1>3, <1>4, <1>5, <1>6, <1>7 DEF DeliveryNext, Command, AskStep, TailStep

-----------------------------------------------------------------------------
(* The lines of an export.                                                 *)

Lines == EnvInv /\ KeysDistinct /\ LinesInv

(* A line is printed under a new key. *)
LEMMA LinePrinted ==
  ASSUME DeliveryTypeOK, format = "env", Lines, PrintLine
  PROVE  /\ Len(out') = Len(out) + 1 /\ Len(out') \in Nat
         /\ out' = [i \in 1..Len(out') |-> out'[i]]
         /\ \A i \in 1..Len(out) : out'[i] = out[i]
         /\ out'[Len(out) + 1].text = Escaped(fields[next].value)
         /\ seen' = {out'[i].key : i \in 1..Len(out')}
         /\ \A i, j \in DOMAIN out' : out'[i].key = out'[j].key => i = j
<1> DEFINE name == fields[next].name
           key == Mangled(name, seen)
           line == [key |-> key, text |-> Escaped(fields[next].value)]
           n == Len(out)
           S == {out[i] : i \in 1..n} \cup {line}
<1>1. out' = Append(out, line) /\ seen' = seen \cup {key} /\ next \in DOMAIN fields
  BY DEF PrintLine
<1>2. n \in Nat /\ out = [i \in 1..n |-> out[i]]
  BY DEF Lines, EnvInv
<1>3. seen = {out[i].key : i \in 1..n}
  BY DEF Lines, EnvInv
<1>4. key \notin seen
  <2>1. name \in Names
    <3>1. fields \in Seq([name : Names, value : Seq(Chars)])
      BY DEF DeliveryTypeOK
    <3>2. fields[next] \in [name : Names, value : Seq(Chars)]
      BY <1>1, <3>1, ElementOfSeq, LenProperties
    <3> QED
      BY <3>2
  <2>2. IsFiniteSet(seen)
    BY DEF DeliveryTypeOK
  <2> QED
    BY <2>1, <2>2, MangledIsNew
<1>5. line.key = key /\ line.text = Escaped(fields[next].value)
  OBVIOUS
<1> HIDE DEF key, name, line
<1>6. out \in Seq(S)
  <2>1. out \in [1..n -> S]
    BY <1>2
  <2> HIDE DEF n
  <2> QED
    BY <1>2, <2>1, SeqDef
<1>7. /\ out' \in Seq(S) /\ Len(out') = n + 1
      /\ \A i \in 1..n : out'[i] = out[i]
      /\ out'[n + 1] = line
  <2> HIDE DEF S
  <2>1. line \in S
    BY DEF S
  <2> QED
    BY <1>1, <1>6, <2>1, AppendProperties
<1> HIDE DEF S
<1>8. out' = [i \in 1..Len(out') |-> out'[i]] /\ DOMAIN out' = 1..Len(out')
  BY <1>7
<1>13. out'[n + 1].text = Escaped(fields[next].value)
  BY <1>5, <1>7
<1> HIDE DEF n
<1>9. Len(out') \in Nat
  BY <1>2, <1>7
<1>10. seen' = {out'[i].key : i \in 1..(n + 1)}
  <2>1. 1..(n + 1) = 1..n \cup {n + 1}
    BY <1>2
  <2>2. {out'[i].key : i \in 1..(n + 1)} = {out[i].key : i \in 1..n} \cup {key}
    BY <1>5, <1>7, <2>1
  <2> QED
    BY <1>1, <1>3, <2>2
<1>12. ASSUME NEW i \in 1..(n + 1), NEW j \in 1..(n + 1), out'[i].key = out'[j].key
       PROVE  i = j
  <2>1. \A k \in 1..n : out'[k].key \in seen
    BY <1>3, <1>7
  <2>2. \A k \in 1..(n + 1) : k \in 1..n \/ k = n + 1
    BY <1>2
  <2>3. out'[n + 1].key = key
    BY <1>5, <1>7
  <2>4. CASE i \in 1..n /\ j \in 1..n
    <3>1. i \in DOMAIN out /\ j \in DOMAIN out /\ out[i].key = out[j].key
      BY <1>2, <1>7, <1>12, <2>4
    <3> QED
      BY <3>1 DEF Lines, KeysDistinct
  <2> QED
    BY <1>4, <1>12, <2>1, <2>2, <2>3, <2>4
<1> QED
  BY <1>7, <1>8, <1>9, <1>10, <1>12, <1>13 DEF n

(* A step that prints nothing. *)
LEMMA LinesStay ==
  ASSUME Lines, UNCHANGED given, UNCHANGED <<fields, next>>,
         \/ format = "value"
         \/ /\ UNCHANGED <<seen, out>>
            /\ exit' = exit \/ exit' # "ok"
            /\ pc' \notin {"plugin", "print", "offer", "child"}
  PROVE  Lines'
<1>1. UNCHANGED <<session, format, job>> /\ Opened' = Opened /\ Secrets' = Secrets
  BY VaultStays DEF given, vault
<1>2. CASE format = "value"
  BY <1>1, <1>2 DEF Lines, EnvInv, KeysDistinct, LinesInv
<1>3. CASE /\ UNCHANGED <<seen, out>>
           /\ exit' = exit \/ exit' # "ok"
           /\ pc' \notin {"plugin", "print", "offer", "child"}
  <2>1. EnvInv' /\ KeysDistinct'
    BY <1>1, <1>3 DEF Lines, EnvInv, KeysDistinct
  <2>2. Object' = Object
    BY DEF Object
  <2>3. LinesInv'
    BY <1>1, <1>3, <2>2 DEF Lines, LinesInv
  <2> QED
    BY <2>1, <2>3 DEF Lines
<1> QED
  BY <1>2, <1>3

LEMMA LinesStep ==
  ASSUME DeliveryInv, [DeliveryNext]_deliveryVars
  PROVE  Lines'
<1>1. UNCHANGED <<session, format, job>> /\ UNCHANGED given /\ Opened' = Opened /\ Secrets' = Secrets
  BY GivenStays, VaultStays DEF given, vault
<1>2. /\ Lines /\ DeliveryTypeOK /\ JobInv /\ FetchInv /\ PointInv
  BY DEF DeliveryInv, Lines
<1>3. job.kind # "export" => format = "value"
  BY <1>2, JobFacts
<1>4. CASE AskStep
  <2>1. Ask
    BY <1>2, <1>4, AskIs
  <2> QED
    BY <1>1, <1>2, <2>1, LinesStay DEF Ask
<1>5. CASE TailStep
  <2>1. Reply
    BY <1>2, <1>5, TailIs
  <2>2. format = "value" /\ UNCHANGED <<fields, next>>
    BY <1>3, <2>1 DEF Reply, IsGet
  <2> QED
    BY <1>1, <1>2, <2>2, LinesStay
<1>6. CASE Plugin \/ Killed
  <2>1. job.kind = "fetch" /\ UNCHANGED <<fields, next>>
    BY <1>6, FetchSteps
  <2> QED
    BY <1>1, <1>2, <1>3, <2>1, LinesStay
<1>7. CASE ExportStep
  <2>0. pc' \notin {"plugin", "print", "offer", "child"} /\ job.kind = "export"
        /\ pc = "read" /\ Opened # Failed /\ session # Failed
    BY <1>2, <1>7 DEF ExportStep, PointInv
  <2>1. CASE Collect
    <3>1. /\ next = 0 /\ next' = 1 /\ fields' = Secrets
          /\ UNCHANGED <<seen, out, exit>> /\ exit = "none"
      BY <2>1 DEF Collect
    <3>2. EnvInv' /\ KeysDistinct'
      BY <1>1, <1>2, <2>0, <3>1 DEF Lines, EnvInv, KeysDistinct
    <3>3. format = "env" => Len(out) = 0
      BY <1>2, <3>1 DEF Lines, LinesInv
    <3>4. LinesInv'
      BY <1>1, <1>2, <2>0, <3>1, <3>3 DEF LinesInv
    <3> QED
      BY <3>2, <3>4 DEF Lines
  <2>2. CASE PrintLine
    <3>1. /\ format = "env" /\ next > 0 /\ next' = next + 1 /\ next \in DOMAIN fields
          /\ UNCHANGED <<fields, exit>> /\ exit = "none"
      BY <2>2 DEF PrintLine, Printing
    <3>2. /\ Len(out') = Len(out) + 1 /\ Len(out') \in Nat
          /\ out' = [i \in 1..Len(out') |-> out'[i]]
          /\ \A i \in 1..Len(out) : out'[i] = out[i]
          /\ out'[Len(out) + 1].text = Escaped(fields[next].value)
          /\ seen' = {out'[i].key : i \in 1..Len(out')}
          /\ \A i, j \in DOMAIN out' : out'[i].key = out'[j].key => i = j
      BY <1>2, <2>2, <3>1, LinePrinted
    <3>3. EnvInv'
      BY <1>1, <2>0, <3>1, <3>2 DEF EnvInv
    <3>4. KeysDistinct'
      BY <3>2 DEF KeysDistinct
    <3>5. next \in Nat /\ Len(out) = next - 1 /\ Len(out) \in Nat
      BY <1>2, <3>1 DEF DeliveryTypeOK, Lines, LinesInv, EnvInv
    <3>6. Len(out') = next' - 1 /\ next' # 0
      BY <3>1, <3>2, <3>5
    <3>7. ASSUME NEW i \in 1..Len(out') PROVE out'[i].text = Escaped(fields[i].value)
      <4>1. i \in 1..Len(out) \/ i = next
        BY <3>2, <3>5
      <4>2. CASE i \in 1..Len(out)
        BY <1>2, <3>1, <3>2, <4>2 DEF Lines, LinesInv
      <4>3. CASE i = next
        <5>1. next = Len(out) + 1
          BY <3>5
        <5> QED
          BY <3>2, <4>3, <5>1
      <4> QED
        BY <4>1, <4>2, <4>3
    <3>8. LinesInv'
      BY <1>1, <1>2, <3>1, <3>6, <3>7 DEF LinesInv, Lines
    <3> QED
      BY <3>3, <3>4, <3>8 DEF Lines
  <2>3. CASE RefuseNul
    <3>1. UNCHANGED <<fields, next, seen, out>> /\ exit' # "ok"
      BY <2>3 DEF RefuseNul
    <3> QED
      BY <1>1, <1>2, <2>0, <3>1, LinesStay
  <2>4. CASE Done
    <3>1. /\ UNCHANGED <<fields, next, seen, out>> /\ exit' = "ok"
          /\ format = "env" /\ next > Len(fields) /\ next > 0
      BY <2>4 DEF Done, Printing
    <3>2. next = Len(fields) + 1
      <4>1. Len(fields) \in Nat /\ next \in 0..(Len(fields) + 1)
        BY <1>2, LenProperties DEF DeliveryTypeOK
      <4> QED
        BY <3>1, <4>1
    <3>3. EnvInv' /\ KeysDistinct'
      BY <1>1, <1>2, <2>0, <3>1 DEF Lines, EnvInv, KeysDistinct
    <3>4. LinesInv'
      BY <1>1, <1>2, <3>1, <3>2 DEF Lines, LinesInv
    <3> QED
      BY <3>3, <3>4 DEF Lines
  <2>5. CASE PrintJson
    <3>1. /\ UNCHANGED <<fields, next, seen>> /\ out' = Object
          /\ format = "json" /\ next > 0
      BY <2>5 DEF PrintJson, Printing
    <3>2. Object' = Object
      BY <3>1 DEF Object
    <3>3. EnvInv' /\ KeysDistinct'
      BY <1>1, <3>1 DEF EnvInv, KeysDistinct
    <3>4. next # 0
      BY <1>2, <3>1 DEF DeliveryTypeOK
    <3>5. LinesInv'
      BY <1>1, <1>2, <3>1, <3>2, <3>4 DEF Lines, LinesInv
    <3> QED
      BY <3>3, <3>5 DEF Lines
  <2> QED
    BY <1>7, <2>1, <2>2, <2>3, <2>4, <2>5 DEF ExportStep
<1>8. CASE UNCHANGED deliveryVars
  <2>1. UNCHANGED <<fields, next, seen, out, exit, pc>>
    BY <1>8 DEF deliveryVars, printing
  <2>2. Object' = Object
    BY <2>1 DEF Object
  <2>3. EnvInv' /\ KeysDistinct'
    BY <1>1, <1>2, <2>1 DEF Lines, EnvInv, KeysDistinct
  <2>4. LinesInv'
    BY <1>1, <1>2, <2>1, <2>2 DEF Lines, LinesInv
  <2> QED
    BY <2>3, <2>4 DEF Lines
<1> QED
  BY <1>4, <1>5, <1>6, <1>7, <1>8 DEF DeliveryNext, Command, AskStep, TailStep

-----------------------------------------------------------------------------
(* The hand-off to the ssh-agent. *)
LEMMA HandStep ==
  ASSUME HandInv, [DeliveryNext]_deliveryVars
  PROVE  HandInv'
<1> USE DEF HandInv, given
<1>1. CASE \/ ParseRef \/ LoadState \/ LoadStateErr \/ Open \/ RefreshMissing
           \/ LookupErr
           \/ \E response \in Responses : Answer(response) \/ Refresh(response)
  <2>1. /\ pc \notin {"offer", "child", "print", "exited"}
        /\ pc' \notin {"offer", "child"} /\ UNCHANGED <<job, child>>
    BY <1>1 DEF ParseRef, LoadState, LoadStateErr, Open, RefreshMissing, LookupErr,
                Answer, Refresh, Requesting, Die, Continue
  <2> QED
    BY <2>1
<1>2. CASE Lookup
  <2>1. /\ pc = "read" /\ UNCHANGED <<job, child>>
        /\ pc' = IF job.agent THEN "offer" ELSE "print"
    BY <1>2 DEF Lookup
  <2> QED
    BY <2>1
<1>3. CASE OfferSkipped
  BY <1>3 DEF OfferSkipped, Continue
<1>4. CASE PipeBroke
  BY <1>4 DEF PipeBroke, Spawned, LooksLikeKey
<1>5. CASE Offered
  BY <1>5 DEF Offered, Spawned, LooksLikeKey
<1>6. CASE ChildEnds
  BY <1>6 DEF ChildEnds, LooksLikeKey
<1>7. CASE PrintValue
  BY <1>7 DEF PrintValue, LooksLikeKey
<1>8. CASE ExportStep
  <2>1. pc = "read" /\ pc' \in {"read", "exited"} /\ UNCHANGED <<job, child>>
    BY <1>8 DEF ExportStep
  <2> QED
    BY <2>1
<1>9. CASE Plugin \/ Killed
  <2>1. (pc = "plugin" \/ job.kind = "fetch") /\ UNCHANGED <<job, child>>
    BY <1>9 DEF Plugin, Killed, NotConfigured, BinaryMissing, RunGet, Take, GetFailed,
                FetchDone, FetchFails
  <2>2. child = "none"
    BY <2>1
  <2>3. pc' \notin {"offer", "child"}
    BY <1>9 DEF Plugin, Killed, NotConfigured, BinaryMissing, RunGet, Take, GetFailed,
                FetchDone, FetchFails
  <2> QED
    BY <2>1, <2>2, <2>3
<1>10. CASE UNCHANGED deliveryVars
  BY <1>10 DEF deliveryVars, printing, LooksLikeKey
<1> QED
  BY <1>1, <1>2, <1>3, <1>4, <1>5, <1>6, <1>7, <1>8, <1>9, <1>10
     DEF DeliveryNext, Command

-----------------------------------------------------------------------------
(* Why a get ends.                                                         *)

Explained ==
  \/ exit = "usage" /\ ~ WellFormed(Written)
  \/ exit = "absent" /\ (RefusedWith({404}) \/ (Opened # Failed /\ Missing))
  \/ /\ exit = "fault"
     /\ \/ Fetched /\ ~ Ok(answered.response) /\ ~ RefusedWith(400..499)
        \/ Opened = Failed
        \/ Damaged
  \/ /\ exit = "auth"
     /\ \/ answered = Unasked
        \/ answered.to = "refresh" /\ ~ Ok(answered.response)
        \/ RefusedWith((400..499) \ {404})

LEMMA ExplainedIs ==
  /\ FailureIsReal <=> ((IsGet /\ pc = "exited" /\ exit # "ok") => Explained)
  /\ FailureIsReal' <=> ((IsGet' /\ pc' = "exited" /\ exit' # "ok") => Explained')
BY DEF FailureIsReal, Explained, Missing, Damaged

LEMMA AskedStays ==
  ASSUME UNCHANGED given, turn' = turn
  PROVE  /\ Written' = Written /\ Asked' = Asked /\ Addressed' = Addressed
         /\ WellFormed(Written)' = WellFormed(Written)
         /\ Held(Asked)' = Held(Asked)
         /\ Missing' = Missing /\ Damaged' = Damaged
<1>1. UNCHANGED <<account, session, ciphers, job>>
  BY DEF given, vault
<1>2. Written' = Written
  BY <1>1 DEF Written
<1>3. Asked' = Asked
  BY <1>2 DEF Asked
<1>4. Addressed' = Addressed /\ Target' = Target
  BY <1>3 DEF Addressed, Target
<1>5. WellFormed(Written)' = WellFormed(Written)
  BY <1>2 DEF WellFormed
<1>6. /\ \A ref : Meant(ref)' = Meant(ref) /\ Held(ref)' = Held(ref)
      /\ \A c, ref : HeldIn(c, ref)' = HeldIn(c, ref)
      /\ Locked' = Locked
  BY HeldStays
<1>7. \A c : Mapped(c)' = Mapped(c)
  BY VaultStays
<1>8. Meant(Asked)' = Meant(Asked) /\ Held(Asked)' = Held(Asked)
  BY <1>3, <1>6
<1>9. \A c : HeldIn(c, Asked)' = HeldIn(c, Asked)
  BY <1>3, <1>6
<1>10. Missing' = Missing
  BY <1>1, <1>4, <1>6, <1>7, <1>8, <1>9 DEF Missing
<1>11. Damaged' = Damaged
  BY <1>1, <1>4, <1>6, <1>7, <1>8 DEF Damaged
<1> QED
  BY <1>2, <1>3, <1>4, <1>5, <1>8, <1>10, <1>11

(* What is no reference to an item of a vw collection. *)
LEMMA Malformed ==
  ASSUME JobInv, FetchInv, IsGet, pc \notin {"plugin", "done"},
         Asked = BadRef \/ ~ Addressed
  PROVE  ~ WellFormed(Written)
<1>1. Written \in Seq(ToSet(Written))
  BY TurnIn
<1>2. WellFormed(Written) => Asked # BadRef /\ Addressed
  BY <1>1, WellFormedParses DEF Asked, Addressed
<1> QED
  BY <1>2

Known == PointInv /\ ValueIsHeld /\ FailureIsReal

LEMMA AskKnows ==
  ASSUME DeliveryInv, AskStep, UNCHANGED given
  PROVE  Known'
<1>1. /\ DeliveryTypeOK /\ JobInv /\ FetchInv /\ PointInv
  BY DEF DeliveryInv
<1>2. /\ Opened' = Opened /\ IsGet' = IsGet /\ session' = session
  BY VaultStays, HeldStays DEF given, vault
<1>3. Ask
  BY <1>1, AskIs
<1>4. /\ turn' = turn
      /\ exit' # "ok" \/ pc' # "exited"
  BY <1>3 DEF Ask, plugin
<1>5. /\ Asked' = Asked /\ Addressed' = Addressed
      /\ WellFormed(Written)' = WellFormed(Written)
      /\ Missing' = Missing /\ Damaged' = Damaged
  BY <1>4, AskedStays
<1>6. ValueIsHeld'
  BY <1>4 DEF ValueIsHeld
<1>7. ASSUME pc' = "exited", IsGet => Explained' PROVE Known'
  <2>1. PointInv'
    BY <1>7 DEF PointInv
  <2>2. FailureIsReal'
    BY <1>2, <1>7, ExplainedIs
  <2> QED
    BY <1>6, <2>1, <2>2 DEF Known
<1>8. ASSUME pc' # "exited", PointInv' PROVE Known'
  BY <1>6, <1>8 DEF Known, FailureIsReal
<1>9. CASE ParseRef
  <2>1. pc = "parse" /\ UNCHANGED wire
    BY <1>9 DEF ParseRef
  <2>2. CASE pc' = "exited"
    <3>1. exit' = "usage" /\ (IsGet => Asked = BadRef)
      BY <1>9, <2>2 DEF ParseRef, Die, Continue
    <3>2. IsGet => ~ WellFormed(Written)
      BY <1>1, <2>1, <3>1, Malformed
    <3> QED
      BY <1>5, <1>7, <2>2, <3>1, <3>2 DEF Explained
  <2>3. CASE pc' # "exited"
    <3>1. pc' = "state"
      BY <1>9, <2>3 DEF ParseRef, Die, Continue
    <3>2. PointInv'
      BY <1>1, <2>1, <3>1 DEF PointInv, wire
    <3> QED
      BY <1>8, <2>3, <3>2
  <2> QED
    BY <2>2, <2>3
<1>10. CASE LoadState
  <2>1. pc = "state" /\ UNCHANGED wire /\ pc' = "open" /\ session # Failed
    BY <1>10 DEF LoadState, Continue
  <2>2. PointInv'
    BY <1>1, <1>2, <2>1 DEF PointInv, wire
  <2> QED
    BY <1>8, <2>1, <2>2
<1>11. CASE LoadStateErr
  <2>1. pc = "state" /\ UNCHANGED wire /\ pc' = "exited" /\ exit' = "auth"
    BY <1>11 DEF LoadStateErr, Die
  <2>2. Explained'
    BY <1>1, <2>1 DEF PointInv, wire, Explained
  <2> QED
    BY <1>7, <2>1, <2>2
<1>12. CASE Open
  <2>1. pc = "open" /\ UNCHANGED wire
    BY <1>12 DEF Open
  <2>2. CASE pc' = "exited"
    <3>1. exit' = "usage" /\ ~ Addressed
      BY <1>12, <2>2 DEF Open, Die, Continue
    <3>2. IsGet => ~ WellFormed(Written)
      BY <1>1, <2>1, <3>1, Malformed
    <3> QED
      BY <1>5, <1>7, <2>2, <3>1, <3>2 DEF Explained
  <2>3. CASE pc' # "exited"
    <3>1. pc' = "sync" /\ (IsGet => Addressed)
      BY <1>12, <2>3 DEF Open, Die, Continue
    <3>2. PointInv'
      BY <1>1, <1>2, <1>5, <2>1, <3>1 DEF PointInv, wire
    <3> QED
      BY <1>8, <2>3, <3>2
  <2> QED
    BY <2>2, <2>3
<1>13. CASE RefreshMissing
  <2>1. pc = "refresh" /\ UNCHANGED wire /\ pc' = "exited" /\ exit' = "auth"
    BY <1>13 DEF RefreshMissing, Die, ExitOf
  <2>2. RefusedWith({401})
    BY <1>1, <2>1 DEF PointInv
  <2>3. /\ Fetched /\ answered.response # Down
        /\ answered.response.status \in (400..499) \ {404}
    BY SMT, <2>2 DEF RefusedWith
  <2>4. RefusedWith((400..499) \ {404})'
    BY <2>1, <2>3 DEF RefusedWith, wire, Fetched
  <2> QED
    BY <1>7, <2>1, <2>4 DEF Explained
<1>14. CASE LookupErr
  <2>1. /\ pc = "read" /\ IsGet /\ LookupError # "none" /\ pc' = "exited"
        /\ exit' = ExitOf(LookupError)
    BY <1>14 DEF LookupErr, Die
  <2>2. turn \in 1..Len(job.env)
    BY <1>1, <2>1, TurnIn
  <2>3. Addressed /\ Opened # Failed
    BY <1>1, <2>1 DEF PointInv
  <2>4. \/ LookupError = "NotFound" /\ Missing
        \/ LookupError = "Crypto" /\ Damaged
    BY <1>1, <2>1, <2>2, <2>3, NotFound
  <2>5. ExitOf("NotFound") = "absent" /\ ExitOf("Crypto") = "fault"
    BY DEF ExitOf
  <2>6. Explained'
    BY <1>2, <1>5, <2>1, <2>3, <2>4, <2>5 DEF Explained
  <2> QED
    BY <1>7, <2>1, <2>6
<1>15. ASSUME NEW r \in Responses, Refresh(r) PROVE Known'
  <2>1. pc = "refresh" /\ answered'.to = "refresh" /\ answered'.response = r
    BY <1>15 DEF Refresh
  <2>2. CASE Ok(r)
    <3>1. pc' = "sync"
      BY <1>15, <2>2 DEF Refresh, Continue
    <3>2. PointInv'
      BY <1>1, <1>2, <1>5, <2>1, <3>1 DEF PointInv
    <3> QED
      BY <1>8, <3>1, <3>2
  <2>3. CASE ~ Ok(r)
    <3>1. pc' = "exited" /\ exit' = "auth"
      BY <1>15, <2>3 DEF Refresh, Die, ExitOf
    <3>2. ~ Ok(answered.response)'
      BY <2>1, <2>3 DEF Ok
    <3> QED
      BY <1>7, <2>1, <3>1, <3>2 DEF Explained
  <2> QED
    BY <2>2, <2>3
<1>16. ASSUME NEW r \in Responses, Answer(r) PROVE Known'
  <2>1. /\ pc \in {"sync", "collections"} /\ Fetched'
        /\ answered'.response = r
    BY <1>16 DEF Answer, Requesting, Fetched
  <2>2. /\ session # Failed /\ (IsGet => Addressed)
        /\ pc = "collections" => Opened # Failed
    BY <1>1, <2>1 DEF PointInv
  <2>3. CASE Ok(r)
    <3>1. CASE pc = "sync" /\ Opened = Failed
      <4>1. pc' = "exited" /\ exit' = "fault"
        BY <1>16, <2>3, <3>1 DEF Answer, Die, ExitOf
      <4> QED
        BY <1>2, <1>7, <3>1, <4>1 DEF Explained
    <3>2. CASE ~ (pc = "sync" /\ Opened = Failed)
      <4>1. pc' \in {"collections", "read"}
        BY <1>16, <2>3, <3>2 DEF Answer, Continue
      <4>2. Opened # Failed
        BY <2>1, <2>2, <3>2
      <4>3. PointInv'
        BY <1>2, <1>5, <2>2, <4>1, <4>2 DEF PointInv
      <4> QED
        BY <1>8, <4>1, <4>3
    <3> QED
      BY <3>1, <3>2
  <2>4. CASE ~ Ok(r)
    <3>0. /\ ErrorOf(r) = "AuthExpired" => r # Down /\ r.status = 401
          /\ \/ /\ ExitOf(ErrorOf(r)) = "auth" /\ r # Down
                /\ r.status \in (400..499) \ {404}
             \/ ExitOf(ErrorOf(r)) = "absent" /\ r # Down /\ r.status = 404
             \/ ExitOf(ErrorOf(r)) = "fault" /\ (r = Down \/ r.status \notin 400..499)
      BY <2>4, AnswerExits
    <3>1. CASE ErrorOf(r) = "AuthExpired" /\ ~ retried
      <4>1. pc' = "refresh"
        BY <1>16, <2>4, <3>1 DEF Answer, Continue
      <4>2. RefusedWith({401})'
        BY <2>1, <3>0, <3>1 DEF RefusedWith
      <4>3. PointInv'
        BY <1>2, <1>5, <2>2, <4>1, <4>2 DEF PointInv
      <4> QED
        BY <1>8, <4>1, <4>3
    <3>2. CASE ~ (ErrorOf(r) = "AuthExpired" /\ ~ retried)
      <4>1. pc' = "exited" /\ exit' = ExitOf(ErrorOf(r))
        BY <1>16, <2>4, <3>2 DEF Answer, Die
      <4>2. ~ Ok(answered.response)'
        BY <2>1, <2>4 DEF Ok
      <4>3. /\ RefusedWith(400..499)' <=> r # Down /\ r.status \in 400..499
            /\ RefusedWith((400..499) \ {404})' <=>
                 r # Down /\ r.status \in (400..499) \ {404}
            /\ RefusedWith({404})' <=> r # Down /\ r.status = 404
        BY <2>1 DEF RefusedWith
      <4>4. Explained'
        BY <2>1, <3>0, <4>1, <4>2, <4>3 DEF Explained
      <4> QED
        BY <1>7, <4>1, <4>4
    <3> QED
      BY <3>1, <3>2
  <2> QED
    BY <2>3, <2>4
<1> QED
  BY <1>9, <1>10, <1>11, <1>12, <1>13, <1>14, <1>15, <1>16 DEF AskStep

LEMMA PointStep ==
  ASSUME DeliveryInv, [DeliveryNext]_deliveryVars
  PROVE  Known'
<1>1. /\ DeliveryTypeOK /\ JobInv /\ FetchInv /\ PointInv /\ UNCHANGED given
      /\ ValueIsHeld /\ FailureIsReal
  BY GivenStays DEF DeliveryInv
<1>2. /\ Opened' = Opened /\ IsGet' = IsGet /\ session' = session
  BY <1>1, VaultStays, HeldStays DEF given, vault
<1>3. CASE AskStep
  BY <1>1, <1>3, AskKnows
<1>4. CASE TailStep
  <2>1. Reply
    BY <1>1, <1>4, TailIs
  <2>2. turn' = turn
    BY <2>1 DEF Reply, plugin
  <2>3. Held(Asked)' = Held(Asked)
    BY <1>1, <2>2, AskedStays
  <2>4. session # Failed /\ Opened # Failed
    BY <1>1, <2>1 DEF Reply, PointInv
  <2>5. PointInv'
    BY <1>2, <2>1, <2>3, <2>4 DEF Reply, PointInv
  <2>6. ValueIsHeld'
    BY <2>1, <2>3 DEF Reply, ValueIsHeld
  <2>7. FailureIsReal'
    BY <2>1 DEF Reply, FailureIsReal
  <2> QED
    BY <2>5, <2>6, <2>7 DEF Known
<1>5. CASE ExportStep
  <2>1. /\ ~ IsGet /\ pc = "read" /\ pc' \in {"read", "exited"} /\ UNCHANGED wire
    BY <1>5 DEF ExportStep, IsGet
  <2>2. PointInv'
    BY <1>1, <1>2, <2>1 DEF PointInv
  <2> QED
    BY <1>2, <2>1, <2>2 DEF Known, ValueIsHeld, FailureIsReal
<1>6. CASE Plugin \/ Killed
  <2>1. CASE RunGet
    <3>1. pc' = "parse" /\ (answered = Unasked)' /\ ~ retried'
      BY <2>1 DEF RunGet, Unasked
    <3> QED
      BY <3>1 DEF Known, PointInv, ValueIsHeld, FailureIsReal
  <2>2. CASE ~ RunGet
    <3>1. pc' \in {"plugin", "done"}
      BY <1>6, <2>2, FetchSteps DEF Take
    <3> QED
      BY <3>1 DEF Known, PointInv, ValueIsHeld, FailureIsReal
  <2> QED
    BY <2>1, <2>2
<1>7. CASE UNCHANGED deliveryVars
  <2>1. UNCHANGED <<pc, turn, value, answered, retried, out, exit>>
    BY <1>7 DEF deliveryVars, plugin, wire, printing
  <2>2. /\ Asked' = Asked /\ Addressed' = Addressed /\ Held(Asked)' = Held(Asked)
        /\ WellFormed(Written)' = WellFormed(Written)
        /\ Missing' = Missing /\ Damaged' = Damaged
    BY <1>1, <2>1, AskedStays
  <2>3. /\ \A s : RefusedWith(s)' = RefusedWith(s)
        /\ Ok(answered.response)' = Ok(answered.response)
        /\ Fetched' = Fetched /\ (answered = Unasked)' = (answered = Unasked)
    BY <2>1 DEF RefusedWith, Ok, Fetched, Unasked
  <2>4. PointInv'
    BY <1>1, <1>2, <2>1, <2>2, <2>3 DEF PointInv
  <2>5. ValueIsHeld'
    BY <1>1, <1>2, <2>1, <2>2 DEF ValueIsHeld
  <2>6. Explained' <=> Explained
    BY <1>2, <2>1, <2>2, <2>3 DEF Explained
  <2>7. FailureIsReal'
    BY <1>1, <1>2, <2>1, <2>6, ExplainedIs
  <2> QED
    BY <2>4, <2>5, <2>7 DEF Known
<1> QED
  BY <1>3, <1>4, <1>5, <1>6, <1>7 DEF DeliveryNext, Command, AskStep, TailStep

-----------------------------------------------------------------------------
(* The bindings a fetch has taken, and the value of each.                  *)

Fetching == FetchInv /\ FetchIsWhole

(* The binding a value comes from. *)
ComesFrom(var) ==
  \E i \in Bindings : /\ job.env[i].var = var /\ i <= turn
                      /\ secrets[var] # <<>>
                      /\ \E text \in Held(Parse(job.env[i].ref)) : secrets[var] = Strip(text)

LEMMA WholeIs ==
  /\ FetchIsWhole <=>
       /\ kind = "ok" => DOMAIN secrets = {job.env[i].var : i \in Bindings}
       /\ kind \in Kinds \ {"none", "ok"} =>
            \A i \in Bindings : i >= turn => job.env[i].var \notin DOMAIN secrets
       /\ \A var \in DOMAIN secrets : ComesFrom(var)
  /\ FetchIsWhole' <=>
       /\ kind' = "ok" => DOMAIN secrets' = {job'.env[i].var : i \in Bindings'}
       /\ kind' \in Kinds \ {"none", "ok"} =>
            \A i \in Bindings' : i >= turn' => job'.env[i].var \notin DOMAIN secrets'
       /\ \A var \in DOMAIN secrets' : ComesFrom(var)'
BY DEF FetchIsWhole, ComesFrom

(* A step of a command. *)
LEMMA CommandFetches ==
  ASSUME Fetching, UNCHANGED given, UNCHANGED plugin,
         pc \notin {"plugin", "done"}, pc' \notin {"plugin", "done"}
  PROVE  Fetching'
<1>1. /\ UNCHANGED <<job, turn, secrets, kind>> /\ Bindings' = Bindings
      /\ \A ref : Held(ref)' = Held(ref)
  BY HeldStays DEF given, plugin
<1>2. kind = "none"
  BY DEF Fetching, FetchInv
<1>3. Taken' = Taken
  BY <1>1, <1>2 DEF Taken
<1>4. FetchInv'
  BY <1>1, <1>2, <1>3 DEF Fetching, FetchInv
<1>5. ASSUME NEW var, ComesFrom(var) PROVE ComesFrom(var)'
  BY <1>1, <1>5 DEF ComesFrom
<1>6. FetchIsWhole'
  BY <1>1, <1>2, <1>5, WholeIs DEF Fetching
<1> QED
  BY <1>4, <1>6 DEF Fetching

LEMMA FetchStep ==
  ASSUME DeliveryInv, [DeliveryNext]_deliveryVars
  PROVE  Fetching'
<1>1. /\ DeliveryTypeOK /\ JobInv /\ FetchInv /\ PointInv /\ UNCHANGED given
      /\ Fetching /\ ValueIsHeld
  BY GivenStays DEF DeliveryInv, Fetching
<1>2. /\ job' = job /\ Bindings' = Bindings /\ \A ref : Held(ref)' = Held(ref)
  BY <1>1, HeldStays DEF given
<1>3. /\ Len(job.env) \in Nat /\ DOMAIN job.env = 1..Len(job.env)
      /\ Bindings \subseteq 1..Len(job.env)
      /\ turn \in Nat
      /\ \A m, n \in 1..Len(job.env) : job.env[m].var = job.env[n].var => m = n
  <2>1. /\ Len(job.env) \in Nat /\ DOMAIN job.env = 1..Len(job.env)
    BY <1>1, JobFacts, LenProperties
  <2>2. turn \in 0..Len(job.env)
    BY <1>1 DEF DeliveryTypeOK
  <2>3. Bindings \subseteq 1..Len(job.env)
    BY <2>1 DEF Bindings
  <2>4. turn \in Nat
    BY SMT, <2>1, <2>2
  <2>5. \A m, n \in 1..Len(job.env) : job.env[m].var = job.env[n].var => m = n
    BY <1>1, JobFacts
  <2> QED
    BY <2>1, <2>3, <2>4, <2>5
<1>9. Bindings \subseteq Nat
  BY <1>3
<1>4. CASE AskStep
  <2>1. Ask
    BY <1>1, <1>4, AskIs
  <2> QED
    BY <1>1, <2>1, CommandFetches DEF Ask
<1>5. CASE TailStep
  <2>1. Reply
    BY <1>1, <1>5, TailIs
  <2> QED
    BY <1>1, <2>1, CommandFetches DEF Reply
<1>6. CASE ExportStep
  <2>1. pc = "read" /\ pc' \in {"read", "exited"} /\ UNCHANGED plugin
    BY <1>6 DEF ExportStep
  <2> QED
    BY <1>1, <2>1, CommandFetches
<1>7. CASE Plugin \/ Killed
  <2>0. job.kind = "fetch"
    BY <1>7, FetchSteps
  <2>1. ASSUME NEW var, ComesFrom(var), secrets'[var] = secrets[var], turn' >= turn,
               turn' \in Nat
        PROVE  ComesFrom(var)'
    <3>1. PICK i \in Bindings : /\ job.env[i].var = var /\ i <= turn
                                /\ secrets[var] # <<>>
                                /\ \E text \in Held(Parse(job.env[i].ref)) :
                                     secrets[var] = Strip(text)
      BY <2>1 DEF ComesFrom
    <3>2. i <= turn'
      BY <1>3, <2>1, <3>1
    <3> QED
      BY <1>2, <2>1, <3>1, <3>2 DEF ComesFrom
  <2>2. CASE RunGet
    <3>1. /\ pc = "plugin" /\ pc' = "parse" /\ UNCHANGED <<secrets, kind>>
          /\ Left # {} /\ turn' = Min(Left)
      BY <2>2 DEF RunGet
    <3>2. Left \in SUBSET Nat
      BY <1>9 DEF Left
    <3>3. turn' \in Left /\ \A x \in Left : turn' <= x
      BY <3>1, <3>2, MinIs
    <3>4. turn' \in Bindings /\ turn' > turn /\ turn' \in Nat
      BY <1>3, <3>3 DEF Left
    <3>5. kind = "none"
      BY <1>1, <3>1 DEF FetchInv
    <3>6. Taken' = Taken
      <4>1. Taken = {i \in Bindings : i <= turn}
        <5>1. \A i \in Bindings : i <= turn <=> i < turn \/ i = turn
          BY <1>3, <1>9
        <5> QED
          BY <3>1, <5>1 DEF Taken
      <4>2. Taken' = {i \in Bindings : i < turn'}
        BY <1>2, <3>1, <3>5 DEF Taken
      <4>3. ASSUME NEW i \in Bindings PROVE i <= turn <=> i < turn'
        <5>1. i \in Nat
          BY <1>3
        <5>2. i \in Left <=> i > turn
          BY DEF Left
        <5> QED
          BY <1>3, <3>3, <3>4, <5>1, <5>2
      <4> QED
        BY <4>1, <4>2, <4>3
    <3>7. FetchInv'
      BY <1>1, <1>2, <2>0, <3>1, <3>4, <3>5, <3>6 DEF FetchInv
    <3>8. ASSUME NEW var \in DOMAIN secrets' PROVE ComesFrom(var)'
      <4>1. ComesFrom(var)
        BY <1>1, <3>1, <3>8, WholeIs DEF Fetching
      <4>2. turn' >= turn
        BY <1>3, <3>4
      <4> QED
        BY <2>1, <3>1, <3>4, <4>1, <4>2
    <3>9. FetchIsWhole'
      BY <3>1, <3>5, <3>8, WholeIs
    <3> QED
      BY <3>7, <3>9 DEF Fetching
  <2>3. CASE Take
    <3>1. /\ pc = "exited" /\ pc' = "plugin" /\ UNCHANGED <<turn, kind>>
          /\ exit = "ok" /\ Strip(out) # <<>>
          /\ secrets' = Assigned(secrets, job.env[turn].var, Strip(out))
      BY <2>3 DEF Take
    <3>2. kind = "none" /\ turn \in Bindings
      BY <1>1, <2>0, <3>1 DEF FetchInv
    <3>0. PICK new : new = job.env[turn].var
      OBVIOUS
    <3>3. /\ DOMAIN secrets' = DOMAIN secrets \cup {new}
          /\ secrets'[new] = Strip(out)
          /\ \A v \in DOMAIN secrets : v # new => secrets'[v] = secrets[v]
      BY <3>0, <3>1 DEF Assigned
    <3>4. Taken' = Taken \cup {turn}
      BY <1>2, <1>3, <3>1, <3>2 DEF Taken
    <3>5. DOMAIN secrets' = {job.env[i].var : i \in Taken'}
      <4>1. DOMAIN secrets = {job.env[i].var : i \in Taken}
        BY <1>1 DEF FetchInv
      <4> QED
        BY <3>0, <3>3, <3>4, <4>1
    <3>6. FetchInv'
      BY <1>1, <1>2, <2>0, <3>1, <3>2, <3>5 DEF FetchInv
    <3>7. ComesFrom(new)'
      <4>1. out \in Held(Parse(job.env[turn].ref))
        BY <1>1, <2>0, <3>1 DEF ValueIsHeld, IsGet, Asked, Written
      <4>2. PICK n \in Bindings : n = turn
        BY <3>2
      <4>3. n <= turn'
        BY <1>3, <3>1, <4>2
      <4>4. /\ n \in Bindings' /\ job'.env[n].var = new
            /\ secrets'[new] = Strip(out) /\ secrets'[new] # <<>>
        BY <1>2, <3>0, <3>1, <3>3, <4>2
      <4>5. out \in Held(Parse(job.env[n].ref))'
        BY <1>2, <4>1, <4>2
      <4> QED
        BY <4>3, <4>4, <4>5 DEF ComesFrom
    <3>8. ASSUME NEW var \in DOMAIN secrets' PROVE ComesFrom(var)'
      <4>1. CASE var = new
        BY <3>7, <4>1
      <4>2. CASE var # new
        <5>1. var \in DOMAIN secrets /\ secrets'[var] = secrets[var]
          BY <3>3, <3>8, <4>2
        <5>2. ComesFrom(var)
          BY <1>1, <5>1, WholeIs DEF Fetching
        <5>3. turn' >= turn /\ turn' \in Nat
          BY <1>3, <3>1
        <5> QED
          BY <2>1, <5>1, <5>2, <5>3
      <4> QED
        BY <4>1, <4>2
    <3>9. FetchIsWhole'
      BY <3>1, <3>2, <3>8, WholeIs
    <3> QED
      BY <3>6, <3>9 DEF Fetching
  <2>4. CASE ~ RunGet /\ ~ Take
    <3>1. /\ UNCHANGED <<turn, secrets>>
          /\ pc' = "done" /\ kind' \in Kinds \ {"none"}
          /\ kind' = "ok" => pc = "plugin" /\ Left = {}
          /\ kind' # "ok" => turn = 0 \/ pc \notin {"plugin", "done"}
      BY <1>7, <2>4, FetchSteps
    <3>2. pc # "done" => kind = "none"
      BY <1>1 DEF FetchInv
    <3>3. Left' = Left
      BY <1>2, <3>1 DEF Left
    <3>4. pc # "done"
      BY <1>7, <2>4 DEF Plugin, NotConfigured, BinaryMissing, GetFailed, FetchDone, Killed,
                       InCommand
    <3>5. kind' # "ok" => Taken = {i \in Bindings : i < turn}
      <4>1. CASE turn = 0
        BY <1>3, <4>1 DEF Taken
      <4>2. CASE pc \notin {"plugin", "done"}
        BY <3>2, <4>2 DEF Taken
      <4> QED
        BY <3>1, <4>1, <4>2
    <3>6. Taken' = Taken
      <4>1. CASE kind' = "ok"
        BY <1>2, <3>1, <4>1 DEF Taken
      <4>2. CASE kind' # "ok"
        BY <1>2, <3>1, <3>5, <4>2 DEF Taken
      <4> QED
        BY <4>1, <4>2
    <3>7. FetchInv'
      BY <1>1, <1>2, <2>0, <3>1, <3>3, <3>6 DEF FetchInv
    <3>8. DOMAIN secrets = {job.env[i].var : i \in Taken}
      BY <1>1 DEF FetchInv
    <3>9. kind' = "ok" => DOMAIN secrets' = {job'.env[i].var : i \in Bindings'}
      <4>1. ASSUME Left = {}, pc = "plugin" PROVE Taken = Bindings
        <5>1. \A i \in Bindings : i > turn \/ i < turn \/ i = turn
          BY <1>3, <1>9
        <5> QED
          BY <4>1, <5>1 DEF Left, Taken
      <4> QED
        BY <1>2, <3>1, <3>8, <4>1
    <3>10. ASSUME kind' # "ok", NEW i \in Bindings, i >= turn
           PROVE  job.env[i].var \notin DOMAIN secrets
      <4>1. ASSUME NEW k \in Bindings, k < turn, job.env[k].var = job.env[i].var
            PROVE  FALSE
        <5>1. k = i
          BY <1>3, <4>1
        <5> QED
          BY <1>3, <3>10, <4>1, <5>1
      <4> QED
        BY <3>5, <3>8, <3>10, <4>1
    <3>11. ASSUME NEW var \in DOMAIN secrets' PROVE ComesFrom(var)'
      <4>1. ComesFrom(var)
        BY <1>1, <3>1, <3>11, WholeIs DEF Fetching
      <4>2. turn' >= turn /\ turn' \in Nat
        BY <1>3, <3>1
      <4> QED
        BY <2>1, <3>1, <4>1, <4>2
    <3>12. FetchIsWhole'
      BY <1>2, <3>1, <3>9, <3>10, <3>11, WholeIs
    <3> QED
      BY <3>7, <3>12 DEF Fetching
  <2> QED
    BY <2>2, <2>3, <2>4
<1>8. CASE UNCHANGED deliveryVars
  <2>1. UNCHANGED <<pc, turn, secrets, kind>>
    BY <1>8 DEF deliveryVars, plugin
  <2>2. Taken' = Taken /\ Left' = Left
    BY <1>2, <2>1 DEF Taken, Left
  <2>3. FetchInv'
    BY <1>1, <1>2, <2>1, <2>2 DEF FetchInv
  <2>4. ASSUME NEW var, ComesFrom(var) PROVE ComesFrom(var)'
    BY <1>2, <2>1, <2>4 DEF ComesFrom
  <2>5. FetchIsWhole'
    BY <1>1, <1>2, <2>1, <2>4, WholeIs DEF Fetching
  <2> QED
    BY <2>3, <2>5 DEF Fetching
<1> QED
  BY <1>4, <1>5, <1>6, <1>7, <1>8 DEF DeliveryNext, Command, AskStep, TailStep

-----------------------------------------------------------------------------
(* The invariant: what the job says stays, and each part by its own lemma. *)
THEOREM Invariance == DeliverySpec => []DeliveryInv
<1>1. DeliveryInv /\ [DeliveryNext]_deliveryVars => DeliveryInv'
  <2> SUFFICES ASSUME DeliveryInv, [DeliveryNext]_deliveryVars PROVE DeliveryInv'
    OBVIOUS
  <2>1. JobInv' /\ UnlockIsExact'
    BY GivenStays, JobStays DEF DeliveryInv
  <2>2. DeliveryTypeOK'
    BY TypeStep
  <2>3. EnvInv' /\ KeysDistinct' /\ LinesInv'
    BY LinesStep DEF Lines
  <2>4. HandInv'
    BY HandStep DEF DeliveryInv
  <2>5. PointInv' /\ ValueIsHeld' /\ FailureIsReal'
    BY PointStep DEF Known
  <2>6. FetchInv' /\ FetchIsWhole'
    BY FetchStep DEF Fetching
  <2> QED
    BY <2>1, <2>2, <2>3, <2>4, <2>5, <2>6 DEF DeliveryInv
<1> QED
  BY <1>1, Initially, PTL DEF DeliverySpec

(* The types, and that a fetch has values of its own variables only.       *)
THEOREM TypeCorrect == DeliverySpec => []DeliveryTypeOK
<1>1. DeliveryInv => DeliveryTypeOK
  BY DEF DeliveryInv
<1> QED
  BY <1>1, Invariance, PTL

(* No two lines of an export have the same key, whatever the names are and *)
(* however they spell a suffix (main.rs mangle_env_key): one of the first  *)
(* n + 1 suffixes is free when n keys are used.                            *)
THEOREM ExportKeysDistinct == DeliverySpec => []KeysDistinct
<1>1. DeliveryInv => KeysDistinct
  BY DEF DeliveryInv
<1> QED
  BY <1>1, Invariance, PTL

(* Each line of an export is one line, and a reader that undoes the escapes*)
(* has the value back (main.rs escape_env_value).                          *)
THEOREM ExportReadsBack == DeliverySpec => []ValuesReadBack
<1>1. DeliveryInv => ValuesReadBack
  <2> SUFFICES ASSUME DeliveryInv, format = "env", NEW i \in DOMAIN out
               PROVE  /\ "nl" \notin ToSet(out[i].text)
                      /\ Unescaped(out[i].text) = fields[i].value
    BY DEF ValuesReadBack
  <2>1. DOMAIN out = 1..Len(out) /\ Len(out) \in Nat
    BY DEF DeliveryInv, EnvInv
  <2>2. i \in 1..Len(out) /\ out[i].text = Escaped(fields[i].value)
    BY <2>1 DEF DeliveryInv, LinesInv
  <2>3. fields[i].value \in Seq(Chars)
    <3>1. fields \in Seq([name : Names, value : Seq(Chars)]) /\ next \in 0..(Len(fields) + 1)
      BY DEF DeliveryInv, DeliveryTypeOK
    <3>2. Len(fields) \in Nat /\ Len(out) = IF next = 0 THEN 0 ELSE next - 1
      BY <3>1, LenProperties DEF DeliveryInv, LinesInv
    <3>3. i \in 1..Len(fields)
      BY <2>2, <3>1, <3>2
    <3>4. fields[i] \in [name : Names, value : Seq(Chars)]
      BY <3>1, <3>3, ElementOfSeq
    <3> QED
      BY <3>4
  <2> QED
    BY <2>2, <2>3, EscapingReadsBack
<1> QED
  BY <1>1, Invariance, PTL

(* An export that ends well has one line for each field of each cipher that*)
(* decrypts, or one member for each name, with the value inserted last     *)
(* (mapping.rs map_cipher, main.rs Export).                                *)
THEOREM ExportsEverything == DeliverySpec => []ExportIsWhole
<1>1. DeliveryInv => ExportIsWhole
  <2> SUFFICES ASSUME DeliveryInv, exit = "ok", format \in Formats
               PROVE  ExportIsWhole
    BY DEF ExportIsWhole
  <2>1. CiphersTyped
    BY JobFacts DEF DeliveryInv
  <2>2. CASE format = "env"
    <3>1. /\ DOMAIN out = 1..Len(out) /\ Len(out) \in Nat
          /\ next = Len(fields) + 1 /\ Len(fields) \in Nat
          /\ Len(out) = IF next = 0 THEN 0 ELSE next - 1
          /\ next # 0 => fields = Secrets
          /\ \A i \in 1..Len(out) : out[i].text = Escaped(fields[i].value)
      BY <2>2, LenProperties DEF DeliveryInv, DeliveryTypeOK, EnvInv, LinesInv
    <3>2. next # 0 /\ Len(out) = Len(fields) /\ fields = Secrets
      BY <3>1
    <3>3. /\ Len(out) = Cardinality(Pairs)
          /\ \A p \in Pairs : \E line \in ToSet(out) :
               Unescaped(line.text) = Holds(ciphers[p[1]], p[2])
      BY <2>1, <3>1, <3>2, LinesAreWhole
    <3> QED
      BY <2>2, <3>3 DEF ExportIsWhole
  <2>3. CASE format = "json"
    <3>1. fields = Secrets /\ out = Object
      BY <2>3 DEF DeliveryInv, LinesInv
    <3> QED
      BY <2>1, <2>3, <3>1, ObjectIsWhole DEF ExportIsWhole
  <2> QED
    BY <2>2, <2>3 DEF Formats
<1> QED
  BY <1>1, Invariance, PTL

(* Nothing is exported that was not sealed, intact, under a key that the   *)
(* account's own user key leads to, by way of the cipher's organisation    *)
(* and of its own key (crypto/encstring.rs, provider.rs org_keys).         *)
THEOREM ExportFailsClosed == DeliverySpec => []FailsClosed
<1>1. DeliveryInv => FailsClosed
  <2> SUFFICES ASSUME DeliveryInv PROVE FailsClosed
    OBVIOUS
  <2>1. CASE next = 0
    <3>1. fields = <<>>
      BY <2>1 DEF DeliveryInv, LinesInv
    <3>2. ToSet(fields) = {}
      BY <3>1 DEF ToSet
    <3> QED
      BY <3>2 DEF FailsClosed
  <2>2. CASE next # 0
    <3>1. fields = Secrets /\ session # Failed /\ Opened # Failed
      BY <2>2 DEF DeliveryInv, LinesInv
    <3>2. session = "user"
      BY <3>1 DEF DeliveryInv, UnlockIsExact
    <3>3. CiphersTyped /\ OrgsTyped
      BY JobFacts DEF DeliveryInv
    <3> QED
      BY <3>1, <3>2, <3>3, SecretsSealed
  <2> QED
    BY <2>1, <2>2
<1> QED
  BY <1>1, Invariance, PTL

(* A login opens the account's own user key or none: it opens it whenever  *)
(* prelogin gave the parameters the account was made with, and for no      *)
(* others unless a number wraps at 32 bits onto the account's own          *)
(* (provider.rs kdf_from_json, unwrap_user_key).                           *)
THEOREM UnlocksExactly == DeliverySpec => []UnlockIsExact
<1>1. DeliveryInv => UnlockIsExact
  BY DEF DeliveryInv
<1> QED
  BY <1>1, Invariance, PTL

(* A get that ends well has printed what an item of the name, in the       *)
(* collection, holds under the field asked for (ops.rs get, provider.rs    *)
(* get_secret), whatever the names and the vault are.                      *)
THEOREM PrintsWhatIsHeld == DeliverySpec => []ValueIsHeld
<1>1. DeliveryInv => ValueIsHeld
  BY DEF DeliveryInv
<1> QED
  BY <1>1, Invariance, PTL

(* The exit code of a get that fails is true of the reference, the vault   *)
(* and the answers (main.rs die_provider, api.rs, provider.rs get_secret). *)
(* An item whose name does not decrypt is passed over, as the code does;   *)
(* one whose key does not open makes the failure a fault, not an absence;  *)
(* and a request for data that got no answer is a fault, never a refusal.  *)
THEOREM ExitCodeIsTrue == DeliverySpec => []FailureIsReal
<1>1. DeliveryInv => FailureIsReal
  BY DEF DeliveryInv
<1> QED
  BY <1>1, Invariance, PTL

(* A fetch of any number of bindings: it ends well with the value of each, *)
(* or has none for the one it failed at and those after it                 *)
(* (integrations/hermes fetch).                                            *)
THEOREM FetchIsAllOrTold == DeliverySpec => []FetchIsWhole
<1>1. DeliveryInv => FetchIsWhole
  BY DEF DeliveryInv
<1> QED
  BY <1>1, Invariance, PTL

(* ssh-add gets private keys only, is waited for, and changes neither the  *)
(* value printed nor the exit code (agent.rs, main.rs cmd_get).            *)
THEOREM AgentIsHarmless == DeliverySpec => []HandOffHarmless
<1>1. DeliveryInv => HandOffHarmless
  BY DEF DeliveryInv, HandInv, HandOffHarmless
<1> QED
  BY <1>1, Invariance, PTL

-----------------------------------------------------------------------------
(* The steps a command, or a fetch, has ahead of it at most: a get for each*)
(* binding left, one round of requests more while no refresh was made, the *)
(* lines left.                                                             *)
Height == [done |-> 0, plugin |-> 1, exited |-> 2, print |-> 3, child |-> 4,
           offer |-> 5, read |-> 6, collections |-> 7, sync |-> 8, refresh |-> 9,
           open |-> 12, state |-> 13, parse |-> 14]

PointsAhead == Height[pc] + (IF Requesting /\ ~ retried THEN 3 ELSE 0)

LinesAhead ==
  IF IsGet \/ Opened = Failed THEN 0
  ELSE IF next = 0 THEN Len(Secrets) + 2 ELSE Len(fields) + 2 - next

Ahead == 20 * (Len(job.env) - turn) + PointsAhead + LinesAhead

(* Nothing goes round in circles: no answer of the server, and no order of *)
(* 401s and refreshes, keeps a command or a fetch busy without end (ops.rs *)
(* get: one refresh, one retry; __init__.py fetch: each reference once).   *)
StepsRunOut == [][Ahead' < Ahead]_deliveryVars

LEMMA AheadIsNat ==
  ASSUME DeliveryInv
  PROVE  /\ Len(job.env) \in Nat /\ turn \in 0..Len(job.env)
         /\ PointsAhead \in 0..14 /\ LinesAhead \in Nat
         /\ Ahead \in Nat
<1>1. Len(job.env) \in Nat /\ turn \in 0..Len(job.env)
  BY JobFacts, LenProperties DEF DeliveryInv, DeliveryTypeOK
<1>2. PointsAhead \in 0..14
  <2>1. pc \in Points
    BY DEF DeliveryInv, DeliveryTypeOK
  <2> QED
    BY <2>1 DEF PointsAhead, Requesting, Height, Points
<1>3. LinesAhead \in Nat
  <2>1. Len(Secrets) \in Nat
    BY JobFacts, SecretsAre, LenProperties DEF DeliveryInv
  <2>2. Len(fields) \in Nat /\ next \in 0..(Len(fields) + 1)
    BY LenProperties DEF DeliveryInv, DeliveryTypeOK
  <2> QED
    BY <2>1, <2>2 DEF LinesAhead
<1>4. Ahead \in Nat
  BY <1>1, <1>2, <1>3 DEF Ahead
<1> QED
  BY <1>1, <1>2, <1>3, <1>4

LEMMA LinesAheadStay ==
  ASSUME UNCHANGED given, UNCHANGED <<fields, next>>
  PROVE  LinesAhead' = LinesAhead
<1>1. Opened' = Opened /\ Secrets' = Secrets /\ IsGet' = IsGet
  BY VaultStays, HeldStays
<1> QED
  BY <1>1 DEF LinesAhead

(* A step within a command, from one point to another of less height. *)
LEMMA PointLowers ==
  ASSUME DeliveryInv, UNCHANGED given, UNCHANGED <<fields, next, turn>>,
         PointsAhead' \in Int, PointsAhead' < PointsAhead
  PROVE  Ahead' < Ahead
<1>1. PICK n \in Int : n = 20 * (Len(job.env) - turn)
  BY AheadIsNat
<1>5. PointsAhead \in Int /\ LinesAhead \in Int
  BY AheadIsNat
<1>2. LinesAhead' = LinesAhead /\ job' = job
  BY LinesAheadStay DEF given
<1>3. Ahead = n + PointsAhead + LinesAhead /\ Ahead' = n + PointsAhead' + LinesAhead
  BY <1>1, <1>2 DEF Ahead
<1>4. PICK p \in Int : p = PointsAhead'
  OBVIOUS
<1>6. p < PointsAhead
  BY <1>4
<1>7. n + p + LinesAhead < n + PointsAhead + LinesAhead
  BY <1>5, <1>6
<1> QED
  BY <1>3, <1>4, <1>7

(* Up to the lookup: the 401 that leads back to the first request comes    *)
(* once.                                                                   *)
LEMMA AskLowers ==
  ASSUME DeliveryInv, AskStep, UNCHANGED given
  PROVE  Ahead' < Ahead
<1>1. UNCHANGED <<fields, next, turn>>
  BY DEF AskStep, ParseRef, LoadState, LoadStateErr, Open, RefreshMissing, LookupErr,
         Answer, Refresh, Die, Continue, printing, plugin
<1>2. retried \in BOOLEAN
  BY DEF DeliveryInv, DeliveryTypeOK
<1>3. CASE ParseRef
  <2>1. pc = "parse" /\ pc' \in {"exited", "state"} /\ retried' = retried
    BY <1>3 DEF ParseRef, Die, Continue, wire
  <2> QED
    BY <1>1, <2>1, PointLowers DEF PointsAhead, Height, Requesting
<1>4. CASE LoadState \/ LoadStateErr
  <2>1. pc = "state" /\ pc' \in {"exited", "open"} /\ retried' = retried
    BY <1>4 DEF LoadState, LoadStateErr, Die, Continue, wire
  <2> QED
    BY <1>1, <2>1, PointLowers DEF PointsAhead, Height, Requesting
<1>5. CASE Open
  <2>1. pc = "open" /\ pc' \in {"exited", "sync"} /\ retried' = retried
    BY <1>5 DEF Open, Die, Continue, wire
  <2> QED
    BY <1>1, <2>1, PointLowers DEF PointsAhead, Height, Requesting
<1>6. CASE RefreshMissing \/ LookupErr
  <2>1. pc \in {"refresh", "read"} /\ pc' = "exited"
    BY <1>6 DEF RefreshMissing, LookupErr, Die
  <2> QED
    BY <1>1, <2>1, PointLowers DEF PointsAhead, Height, Requesting
<1>7. ASSUME NEW response \in Responses, Answer(response) PROVE Ahead' < Ahead
  <2>1. /\ pc \in {"sync", "collections"} /\ retried' = retried
        /\ \/ pc' \in {"exited", "read"}
           \/ pc = "sync" /\ pc' = "collections"
           \/ ~ retried /\ pc' = "refresh"
    BY <1>7 DEF Answer, Requesting, Die, Continue
  <2> QED
    BY <1>1, <1>2, <2>1, PointLowers DEF PointsAhead, Height, Requesting
<1>8. ASSUME NEW response \in Responses, Refresh(response) PROVE Ahead' < Ahead
  <2>1. pc = "refresh" /\ retried' = TRUE /\ pc' \in {"sync", "exited"}
    BY <1>8 DEF Refresh, Die, Continue
  <2> QED
    BY <1>1, <2>1, PointLowers DEF PointsAhead, Height, Requesting
<1> QED
  BY <1>3, <1>4, <1>5, <1>6, <1>7, <1>8 DEF AskStep

LEMMA TailLowers ==
  ASSUME DeliveryInv, TailStep, UNCHANGED given
  PROVE  Ahead' < Ahead
<1>1. UNCHANGED <<fields, next, turn>>
  BY DEF TailStep, Lookup, OfferSkipped, PipeBroke, Offered, Spawned, ChildEnds,
         PrintValue, Continue, printing, plugin
<1>2. \/ pc = "read" /\ pc' \in {"offer", "print"}
      \/ pc = "offer" /\ pc' \in {"print", "child"}
      \/ pc = "child" /\ pc' = "print"
      \/ pc = "print" /\ pc' = "exited"
  BY DEF TailStep, Lookup, OfferSkipped, PipeBroke, Offered, Spawned, ChildEnds,
         PrintValue, Continue
<1>3. PointsAhead' \in Int /\ PointsAhead' < PointsAhead
  BY <1>2 DEF PointsAhead, Height, Requesting
<1> QED
  BY <1>1, <1>3, PointLowers

(* An export: each field is collected and printed once. *)
LEMMA ExportLowers ==
  ASSUME DeliveryInv, ExportStep, UNCHANGED given
  PROVE  Ahead' < Ahead
<1>1. /\ pc = "read" /\ pc' \in {"read", "exited"} /\ UNCHANGED <<job, turn>>
      /\ exit' # "none" <=> pc' = "exited"
  BY DEF ExportStep, plugin
<1>2. /\ PointsAhead = 6 /\ PointsAhead' \in Int /\ PointsAhead' <= 6
      /\ pc' = "exited" => PointsAhead' < PointsAhead
  BY <1>1 DEF PointsAhead, Height, Requesting
<1>3. CASE PrintJson \/ RefuseNul \/ Done
  <2>1. exit' # "none" /\ UNCHANGED <<fields, next>>
    BY <1>3 DEF PrintJson, RefuseNul, Done
  <2> QED
    BY <1>1, <1>2, <2>1, PointLowers
<1>4. CASE Collect \/ PrintLine
  <2>1. ~ IsGet /\ ~ IsGet'
    BY <1>1 DEF ExportStep, IsGet
  <2>2. Opened # Failed /\ Opened' # Failed
    <3>1. Opened' = Opened
      BY VaultStays
    <3>2. Opened # Failed
      BY <1>1 DEF DeliveryInv, PointInv
    <3> QED
      BY <3>1, <3>2
  <2>3. Len(Secrets) \in Nat /\ Len(fields) \in Nat /\ next \in Nat
    BY JobFacts, SecretsAre, LenProperties DEF DeliveryInv, DeliveryTypeOK
  <2>4. LinesAhead' \in Int /\ LinesAhead' < LinesAhead
    <3>1. CASE Collect
      <4>1. next = 0 /\ next' = 1 /\ fields' = Secrets
        BY <3>1 DEF Collect
      <4>2. LinesAhead = Len(Secrets) + 2 /\ LinesAhead' = Len(Secrets) + 1
        BY <2>1, <2>2, <2>3, <4>1 DEF LinesAhead
      <4> QED
        BY <2>3, <4>2
    <3>2. CASE PrintLine
      <4>1. next > 0 /\ next' = next + 1 /\ fields' = fields
        BY <3>2 DEF PrintLine, Printing
      <4>2. /\ LinesAhead = Len(fields) + 2 - next
            /\ LinesAhead' = Len(fields) + 2 - (next + 1)
        BY <2>1, <2>2, <2>3, <4>1 DEF LinesAhead
      <4> QED
        BY <2>3, <4>2
    <3> QED
      BY <1>4, <3>1, <3>2
  <2>5. PICK n \in Int : n = 20 * (Len(job.env) - turn)
    BY AheadIsNat
  <2>6. Ahead = n + PointsAhead + LinesAhead /\ Ahead' = n + PointsAhead' + LinesAhead'
    BY <1>1, <2>5 DEF Ahead
  <2>7. PICK p \in Int, l \in Int : p = PointsAhead' /\ l = LinesAhead'
    BY <1>2, <2>4
  <2>8. p <= PointsAhead /\ l < LinesAhead
    BY <1>2, <2>4, <2>7
  <2>9. n + p + l < n + PointsAhead + LinesAhead
    <3>1. PointsAhead \in Int /\ LinesAhead \in Int
      BY AheadIsNat
    <3> QED
      BY <2>8, <3>1
  <2> QED
    BY <2>6, <2>7, <2>9
<1> QED
  BY <1>3, <1>4 DEF ExportStep

(* A fetch: each binding gets its turn once. *)
LEMMA FetchLowers ==
  ASSUME DeliveryInv, Plugin \/ Killed
  PROVE  Ahead' < Ahead
<1>1. job.kind = "fetch" /\ UNCHANGED given /\ UNCHANGED <<fields, next>>
  BY FetchSteps
<1>2. CASE RunGet
  <2>1. pc = "plugin" /\ pc' = "parse" /\ turn' \in Left
    <3>1. Left # {} /\ Left \subseteq 1..Len(job.env)
      <4>1. DOMAIN job.env = 1..Len(job.env)
        BY JobFacts, LenProperties DEF DeliveryInv
      <4> QED
        BY <1>2, <4>1 DEF RunGet, Left, Bindings
    <3>2. Min(Left) \in Left
      BY <3>1, AheadIsNat, MinIs
    <3> QED
      BY <1>2, <3>2 DEF RunGet
  <2>2. turn' \in Int /\ turn' >= turn + 1
    BY <2>1, AheadIsNat, JobFacts, LenProperties DEF DeliveryInv, Left, Bindings
  <2>3. PointsAhead' = 14 /\ PointsAhead = 1
    BY <2>1 DEF PointsAhead, Height, Requesting
  <2>4. LinesAhead' = LinesAhead /\ job' = job
    BY <1>1, LinesAheadStay DEF given
  <2>5. /\ Ahead = 20 * (Len(job.env) - turn) + 1 + LinesAhead
        /\ Ahead' = 20 * (Len(job.env) - turn') + 14 + LinesAhead
    BY <2>3, <2>4 DEF Ahead
  <2> QED
    BY <2>2, <2>5, AheadIsNat
<1>3. CASE Take
  <2>1. pc = "exited" /\ pc' = "plugin" /\ turn' = turn
    BY <1>3 DEF Take
  <2>2. PointsAhead' \in Int /\ PointsAhead' < PointsAhead
    BY <2>1 DEF PointsAhead, Height, Requesting
  <2> QED
    BY <1>1, <2>1, <2>2, PointLowers
<1>4. CASE NotConfigured \/ BinaryMissing \/ GetFailed \/ FetchDone \/ Killed
  <2>1. /\ pc \in {"plugin", "exited"} \/ InCommand
        /\ pc' = "done" /\ turn' = turn
    BY <1>4 DEF NotConfigured, BinaryMissing, GetFailed, FetchDone, Killed, FetchFails
  <2>2. PointsAhead' \in Int /\ PointsAhead' < PointsAhead
    BY <2>1 DEF PointsAhead, Height, Requesting, InCommand
  <2> QED
    BY <1>1, <2>1, <2>2, PointLowers
<1> QED
  BY <1>2, <1>3, <1>4 DEF Plugin

(* ops.rs get and __init__.py fetch: no order of the server's answers, of  *)
(* 401s and refreshes, keeps a command or a fetch taking steps: each step  *)
(* leaves fewer ahead, never less than none, so every run has an end.      *)
THEOREM StepsEnd == DeliverySpec => [](Ahead \in Nat) /\ StepsRunOut
<1>1. DeliveryInv => Ahead \in Nat
  BY AheadIsNat
<1>2. DeliveryInv /\ [DeliveryNext]_deliveryVars => [Ahead' < Ahead]_deliveryVars
  <2> SUFFICES ASSUME DeliveryInv, DeliveryNext PROVE Ahead' < Ahead
    OBVIOUS
  <2>1. UNCHANGED given
    BY GivenStays
  <2>2. CASE AskStep
    BY <2>1, <2>2, AskLowers
  <2>3. CASE TailStep
    BY <2>1, <2>3, TailLowers
  <2>4. CASE ExportStep
    BY <2>1, <2>4, ExportLowers
  <2>5. CASE Plugin \/ Killed
    BY <2>5, FetchLowers
  <2> QED
    BY <2>2, <2>3, <2>4, <2>5 DEF DeliveryNext, Command, AskStep, TailStep
<1> QED
  BY <1>1, <1>2, Invariance, PTL DEF DeliverySpec, StepsRunOut
=============================================================================
