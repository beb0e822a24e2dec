--------------------------- MODULE SequenceLemmas ---------------------------
(***************************************************************************)
(* Facts about numbers and sequences that the proofs of several components *)
(* rest on.  They name no part of the program.                             *)
(***************************************************************************)
EXTENDS SequencesExt, SequenceTheorems, FiniteSetTheorems, WellFoundedInduction, TLAPS

-----------------------------------------------------------------------------
(* Every set of naturals that is not empty has a least element: induction  *)
(* over numbers, for the set of those that a claim fails for.              *)
LEMMA LeastNatural ==
    ASSUME NEW T, T \subseteq Nat, T # {}
    PROVE  \E m \in T : \A n \in T : m <= n
PROOF
  <1> DEFINE R == OpToRel(<, Nat)
  <1>1. IsWellFoundedOn(R, Nat)
    BY NatLessThanWellFounded
  <1>2. \A x, y \in Nat : x < y => <<x, y>> \in R
    BY DEF OpToRel
  <1> HIDE DEF R
  <1>3. PICK m \in T : \A n \in T : <<n, m>> \notin R
    BY <1>1, WFMin, Zenon
  <1>4. ASSUME NEW n \in T PROVE m <= n
    <2>1. ~(n < m)
      BY <1>2, <1>3
    <2>2. m \in Nat /\ n \in Nat
      BY <1>3
    <2> QED BY <2>1, <2>2
  <1> QED BY <1>3, <1>4

(* A sequence without its k-th element. *)
LEMMA RemoveAtPlaces ==
    ASSUME NEW S, NEW s \in Seq(S), NEW k \in 1..Len(s)
    PROVE  /\ RemoveAt(s, k) \in Seq(S) /\ Len(RemoveAt(s, k)) = Len(s) - 1
           /\ \A i \in 1..Len(s) - 1 : RemoveAt(s, k)[i] = IF i < k THEN s[i] ELSE s[i + 1]
PROOF
  <1> DEFINE a == SubSeq(s, 1, k - 1)
             b == SubSeq(s, k + 1, Len(s))
             r == a \o b
  <1>0. Len(s) \in Nat /\ DOMAIN s = 1..Len(s)
    BY LenProperties
  <1>1. /\ a \in Seq(S) /\ Len(a) = k - 1
        /\ \A j \in 1..k - 1 : a[j] = s[j]
    <2>1. \A j \in 1..k - 1 : s[j] \in S
      BY <1>0, ElementOfSeq
    <2> QED BY <1>0, <2>1, SubSeqProperties
  <1>2. /\ b \in Seq(S) /\ Len(b) = Len(s) - k
        /\ \A j \in 1..Len(s) - k : b[j] = s[j + k]
    <2>1. \A j \in k + 1..Len(s) : s[j] \in S
      BY <1>0, ElementOfSeq
    <2>2. Len(s) \in Nat
      BY <1>0
    <2> QED BY <2>1, <2>2, SubSeqProperties
  <1> HIDE DEF a, b
  <1>3. /\ r \in Seq(S) /\ Len(r) = Len(s) - 1
        /\ \A j \in 1..Len(s) - 1 : r[j] = IF j < k THEN s[j] ELSE s[j + 1]
    <2>1. /\ r \in Seq(S) /\ Len(r) = Len(s) - 1
          /\ \A j \in 1..Len(s) - 1 : r[j] = IF j <= k - 1 THEN a[j] ELSE b[j - (k - 1)]
      <3>1. /\ r \in Seq(S) /\ Len(r) = Len(a) + Len(b)
            /\ \A j \in 1..Len(a) + Len(b) : r[j] = IF j <= Len(a) THEN a[j] ELSE b[j - Len(a)]
        BY <1>1, <1>2, ConcatProperties
      <3> HIDE DEF r
      <3>2. Len(a) + Len(b) = Len(s) - 1
        BY <1>0, <1>1, <1>2
      <3> QED BY <1>1, <3>1, <3>2
    <2> HIDE DEF r
    <2>2. ASSUME NEW j \in 1..Len(s) - 1 PROVE r[j] = IF j < k THEN s[j] ELSE s[j + 1]
      <3>1. CASE j < k
        BY <1>0, <1>1, <2>1, <3>1
      <3>2. CASE ~(j < k)
        <4>1. j - (k - 1) \in 1..Len(s) - k /\ r[j] = b[j - (k - 1)]
          BY <1>0, <2>1, <3>2
        <4>2. b[j - (k - 1)] = s[j - (k - 1) + k]
          BY <1>2, <4>1
        <4>3. j - (k - 1) + k = j + 1
          BY <1>0
        <4> QED BY <3>2, <4>1, <4>2, <4>3
      <3> QED BY <3>1, <3>2
    <2> QED BY <2>1, <2>2
  <1> QED BY <1>3 DEF RemoveAt, r, a, b

(* It stays free of repetitions and loses that element only. *)
LEMMA RemoveAtInjective ==
    ASSUME NEW S, NEW s \in Seq(S), IsInjective(s), NEW k \in 1..Len(s)
    PROVE  /\ IsInjective(RemoveAt(s, k))
           /\ ToSet(RemoveAt(s, k)) = ToSet(s) \ {s[k]}
PROOF
  <1> DEFINE r == RemoveAt(s, k)
  <1>1. /\ Len(s) \in Nat /\ DOMAIN s = 1..Len(s) /\ DOMAIN r = 1..Len(s) - 1
        /\ \A i \in 1..Len(s) - 1 : r[i] = IF i < k THEN s[i] ELSE s[i + 1]
    BY RemoveAtPlaces, LenProperties
  <1> HIDE DEF r
  <1>2. IsInjective(r)
    <2> SUFFICES ASSUME NEW i \in 1..Len(s) - 1, NEW j \in 1..Len(s) - 1, r[i] = r[j]
                 PROVE  i = j
      BY <1>1 DEF IsInjective
    <2> DEFINE at(n) == IF n < k THEN n ELSE n + 1
    <2>1. at(i) \in DOMAIN s /\ at(j) \in DOMAIN s /\ s[at(i)] = s[at(j)]
      BY <1>1
    <2>2. at(i) = at(j)
      BY <2>1 DEF IsInjective
    <2> QED BY <1>1, <2>2
  <1>3. ToSet(r) \subseteq ToSet(s) \ {s[k]}
    <2> SUFFICES ASSUME NEW j \in 1..Len(s) - 1 PROVE r[j] \in ToSet(s) \ {s[k]}
      BY <1>1 DEF ToSet
    <2>1. PICK n \in 1..Len(s) : n # k /\ r[j] = s[n]
      BY <1>1
    <2>2. s[n] # s[k]
      BY <1>1, <2>1 DEF IsInjective
    <2> QED BY <1>1, <2>1, <2>2 DEF ToSet
  <1>4. ToSet(s) \ {s[k]} \subseteq ToSet(r)
    <2> SUFFICES ASSUME NEW n \in 1..Len(s), s[n] # s[k] PROVE s[n] \in ToSet(r)
      BY <1>1 DEF ToSet
    <2>1. CASE n < k
      BY <1>1, <2>1 DEF ToSet
    <2>2. CASE n > k
      <3>1. n - 1 \in DOMAIN r /\ r[n - 1] = s[n]
        BY <1>1, <2>2
      <3> QED BY <3>1 DEF ToSet
    <2> QED BY <1>1, <2>1, <2>2
  <1> QED BY <1>2, <1>3, <1>4 DEF r

(* The k-th element of two sequences together is one of the first or one   *)
(* of the second.                                                          *)
LEMMA RemoveAtLeft ==
    ASSUME NEW S, NEW a \in Seq(S), NEW b \in Seq(S), NEW k \in 1..Len(a)
    PROVE  RemoveAt(a \o b, k) = RemoveAt(a, k) \o b
PROOF
  <1> DEFINE c == a \o b
             l == RemoveAt(c, k)
             ra == RemoveAt(a, k)
             r == ra \o b
  <1>1. /\ Len(a) \in Nat /\ Len(b) \in Nat
        /\ c \in Seq(S) /\ Len(c) = Len(a) + Len(b)
        /\ \A i \in 1..Len(a) + Len(b) : c[i] = IF i <= Len(a) THEN a[i] ELSE b[i - Len(a)]
    BY ConcatProperties, LenProperties
  <1>2. /\ ra \in Seq(S) /\ Len(ra) = Len(a) - 1
        /\ \A i \in 1..Len(a) - 1 : ra[i] = IF i < k THEN a[i] ELSE a[i + 1]
    BY RemoveAtPlaces
  <1> HIDE DEF c, ra
  <1>3. /\ l \in Seq(S) /\ Len(l) = Len(c) - 1
        /\ \A i \in 1..Len(c) - 1 : l[i] = IF i < k THEN c[i] ELSE c[i + 1]
    <2>1. k \in 1..Len(c)
      BY <1>1
    <2> QED BY <1>1, <2>1, RemoveAtPlaces
  <1>4. /\ r \in Seq(S) /\ Len(r) = Len(ra) + Len(b)
        /\ \A i \in 1..Len(ra) + Len(b) : r[i] = IF i <= Len(ra) THEN ra[i] ELSE b[i - Len(ra)]
    BY <1>2, ConcatProperties
  <1> HIDE DEF l, r
  <1>5. ASSUME NEW i \in 1..Len(l) PROVE l[i] = r[i]
    <2>1. i \in 1..Len(a) + Len(b) - 1 /\ i \in Nat
      BY <1>1, <1>3
    <2>2. CASE i < k
      BY <1>1, <1>2, <1>3, <1>4, <2>1, <2>2
    <2>3. CASE k <= i /\ i < Len(a)
      BY <1>1, <1>2, <1>3, <1>4, <2>1, <2>3
    <2>4. CASE i >= Len(a)
      <3>1. l[i] = c[i + 1] /\ r[i] = b[i - (Len(a) - 1)]
        BY <1>1, <1>2, <1>3, <1>4, <2>1, <2>4
      <3>2. c[i + 1] = b[i + 1 - Len(a)]
        BY <1>1, <2>1, <2>4
      <3> QED BY <1>1, <2>1, <3>1, <3>2
    <2> QED BY <1>1, <2>1, <2>2, <2>3, <2>4
  <1>6. Len(l) = Len(r)
    BY <1>1, <1>2, <1>3, <1>4
  <1>7. l = r
    BY <1>3, <1>4, <1>5, <1>6, SeqEqual
  <1> QED BY <1>7 DEF l, r, c, ra

LEMMA RemoveAtRight ==
    ASSUME NEW S, NEW a \in Seq(S), NEW b \in Seq(S), NEW k \in 1..Len(b)
    PROVE  RemoveAt(a \o b, Len(a) + k) = a \o RemoveAt(b, k)
PROOF
  <1> DEFINE c == a \o b
             l == RemoveAt(c, Len(a) + k)
             rb == RemoveAt(b, k)
             r == a \o rb
  <1>1. /\ Len(a) \in Nat /\ Len(b) \in Nat
        /\ c \in Seq(S) /\ Len(c) = Len(a) + Len(b)
        /\ \A i \in 1..Len(a) + Len(b) : c[i] = IF i <= Len(a) THEN a[i] ELSE b[i - Len(a)]
    BY ConcatProperties, LenProperties
  <1>2. /\ rb \in Seq(S) /\ Len(rb) = Len(b) - 1
        /\ \A i \in 1..Len(b) - 1 : rb[i] = IF i < k THEN b[i] ELSE b[i + 1]
    BY RemoveAtPlaces
  <1> HIDE DEF c, rb
  <1>3. /\ l \in Seq(S) /\ Len(l) = Len(c) - 1
        /\ \A i \in 1..Len(c) - 1 : l[i] = IF i < Len(a) + k THEN c[i] ELSE c[i + 1]
    <2>1. Len(a) + k \in 1..Len(c)
      BY <1>1
    <2> QED BY <1>1, <2>1, RemoveAtPlaces
  <1>4. /\ r \in Seq(S) /\ Len(r) = Len(a) + Len(rb)
        /\ \A i \in 1..Len(a) + Len(rb) : r[i] = IF i <= Len(a) THEN a[i] ELSE rb[i - Len(a)]
    BY <1>2, ConcatProperties
  <1> HIDE DEF l, r
  <1>5. ASSUME NEW i \in 1..Len(l) PROVE l[i] = r[i]
    <2>1. i \in 1..Len(a) + Len(b) - 1 /\ i \in Nat
      BY <1>1, <1>3
    <2>2. CASE i <= Len(a)
      BY <1>1, <1>2, <1>3, <1>4, <2>1, <2>2
    <2>3. CASE Len(a) < i /\ i < Len(a) + k
      <3>1. l[i] = b[i - Len(a)] /\ r[i] = rb[i - Len(a)]
        BY <1>1, <1>2, <1>3, <1>4, <2>1, <2>3
      <3> QED BY <1>1, <1>2, <2>1, <2>3, <3>1
    <2>4. CASE i >= Len(a) + k
      <3>1. l[i] = b[i + 1 - Len(a)] /\ r[i] = rb[i - Len(a)]
        BY <1>1, <1>2, <1>3, <1>4, <2>1, <2>4, SMTT(30)
      <3>2. rb[i - Len(a)] = b[i - Len(a) + 1]
        <4>1. i - Len(a) \in 1..Len(b) - 1 /\ ~(i - Len(a) < k)
          BY <1>1, <2>1, <2>4
        <4> QED BY <1>2, <4>1
      <3> QED BY <1>1, <2>1, <3>1, <3>2
    <2> QED BY <1>1, <2>1, <2>2, <2>3, <2>4
  <1>6. Len(l) = Len(r)
    BY <1>1, <1>2, <1>3, <1>4
  <1>7. l = r
    BY <1>3, <1>4, <1>5, <1>6, SeqEqual
  <1> QED BY <1>7 DEF l, r, c, rb

(* A sequence with one more element, at its k-th place.                    *)
OneMore(longer, s, k, e) ==
    /\ Len(longer) = Len(s) + 1
    /\ \A i \in 1..Len(s) + 1 :
           longer[i] = IF i < k THEN s[i] ELSE IF i = k THEN e ELSE s[i - 1]
LEMMA InsertAtPlaces ==
    ASSUME NEW S, NEW s \in Seq(S), NEW e \in S, NEW k \in 1..Len(s) + 1
    PROVE  InsertAt(s, k, e) \in Seq(S) /\ OneMore(InsertAt(s, k, e), s, k, e)
PROOF
  <1> DEFINE a == SubSeq(s, 1, k - 1)
             b == SubSeq(s, k, Len(s))
             one == <<e>>
             ae == a \o one
             r == ae \o b
  <1>0. Len(s) \in Nat /\ DOMAIN s = 1..Len(s)
    BY LenProperties
  <1>1. /\ a \in Seq(S) /\ Len(a) = k - 1
        /\ \A j \in 1..k - 1 : a[j] = s[j]
    <2>1. \A j \in 1..k - 1 : s[j] \in S
      BY <1>0, ElementOfSeq
    <2> QED BY <1>0, <2>1, SubSeqProperties
  <1>2. /\ b \in Seq(S) /\ Len(b) = Len(s) - k + 1
        /\ \A j \in 1..Len(s) - k + 1 : b[j] = s[j + k - 1]
    <2>1. \A j \in k..Len(s) : s[j] \in S
      BY <1>0, ElementOfSeq
    <2>2. Len(s) \in Nat
      BY <1>0
    <2> QED BY <2>1, <2>2, SubSeqProperties
  <1>3. one \in Seq(S) /\ Len(one) = 1 /\ one[1] = e
    OBVIOUS
  <1> HIDE DEF a, b, one
  <1>4. /\ ae \in Seq(S) /\ Len(ae) = k
        /\ \A j \in 1..k : ae[j] = IF j < k THEN s[j] ELSE e
    <2>1. /\ ae \in Seq(S) /\ Len(ae) = Len(a) + Len(one)
          /\ \A j \in 1..Len(a) + Len(one) : ae[j] = IF j <= Len(a) THEN a[j] ELSE one[j - Len(a)]
      BY <1>1, <1>3, ConcatProperties
    <2> HIDE DEF ae
    <2>2. ASSUME NEW j \in 1..k PROVE ae[j] = IF j < k THEN s[j] ELSE e
      <3>1. CASE j < k
        BY <1>0, <1>1, <1>3, <2>1, <3>1, SMTT(30)
      <3>2. CASE j = k
        <4>1. j - Len(a) = 1 /\ ~(j <= Len(a)) /\ j \in 1..Len(a) + Len(one)
          BY <1>0, <1>1, <1>3, <3>2
        <4> QED BY <1>3, <2>1, <3>2, <4>1
      <3> QED BY <1>0, <3>1, <3>2
    <2> QED BY <1>0, <1>1, <1>3, <2>1, <2>2
  <1> HIDE DEF ae
  <1>5. /\ r \in Seq(S) /\ Len(r) = Len(ae) + Len(b)
        /\ \A j \in 1..Len(ae) + Len(b) : r[j] = IF j <= Len(ae) THEN ae[j] ELSE b[j - Len(ae)]
    BY <1>2, <1>4, ConcatProperties
  <1> HIDE DEF r
  <1>6. ASSUME NEW i \in 1..Len(s) + 1
        PROVE  r[i] = IF i < k THEN s[i] ELSE IF i = k THEN e ELSE s[i - 1]
    <2>1. i \in 1..Len(ae) + Len(b)
      BY <1>0, <1>2, <1>4
    <2>2. CASE i <= k
      BY <1>0, <1>4, <1>5, <2>1, <2>2
    <2>3. CASE i > k
      <3>1. i - k \in 1..Len(s) - k + 1 /\ i - k + k - 1 = i - 1
        BY <1>0, <2>3
      <3>2. r[i] = b[i - k]
        BY <1>0, <1>4, <1>5, <2>1, <2>3
      <3>3. b[i - k] = s[i - 1]
        BY <1>2, <3>1
      <3> QED BY <1>0, <2>3, <3>2, <3>3
    <2> QED BY <1>0, <2>2, <2>3
  <1>7. Len(r) = Len(s) + 1
    BY <1>0, <1>2, <1>4, <1>5
  <1>8. InsertAt(s, k, e) = r
    BY DEF InsertAt, r, ae, a, b, one
  <1> QED BY <1>5, <1>6, <1>7, <1>8 DEF OneMore

-----------------------------------------------------------------------------
(* The least and the greatest of a set of numbers. *)
LEMMA MinIs ==
    ASSUME NEW T, T \subseteq Nat, T # {}
    PROVE  Min(T) \in T /\ \A n \in T : Min(T) <= n
PROOF BY LeastNatural DEF Min

LEMMA MaxIs ==
    ASSUME NEW n \in Nat, NEW T, T \subseteq 0..n, T # {}
    PROVE  Max(T) \in T /\ \A i \in T : i <= Max(T)
PROOF
  <1> DEFINE U == {n - i : i \in T}
  <1>1. U \subseteq Nat /\ U # {}
    OBVIOUS
  <1>2. PICK m \in U : \A k \in U : m <= k
    BY <1>1, LeastNatural
  <1>3. PICK t \in T : m = n - t
    BY <1>2
  <1>4. \A i \in T : i <= t
    BY <1>2, <1>3
  <1>5. \E x \in T : \A y \in T : x >= y
    BY <1>3, <1>4
  <1> QED BY <1>5 DEF Max

(* What is defined step by step from 0 to n is defined.                    *)
StepByStep(f, base, n, step) == f[0] = base /\ \A i \in 1..n : f[i] = step[i][f[i - 1]]
LEMMA RecursionExists ==
    ASSUME NEW V, NEW base \in V, NEW n \in Nat, NEW step \in [1..n -> [V -> V]]
    PROVE  \E f \in [0..n -> V] : StepByStep(f, base, n, step)
PROOF
  <1> DEFINE Good(m) == \E f \in [0..m -> V] : f[0] = base /\ \A i \in 1..m : f[i] = step[i][f[i - 1]]
             bad == {m \in 0..n : ~Good(m)}
  <1>1. Good(0)
    <2> DEFINE f == [i \in 0..0 |-> base]
    <2>1. f \in [0..0 -> V] /\ f[0] = base /\ \A i \in 1..0 : f[i] = step[i][f[i - 1]]
      OBVIOUS
    <2> QED BY <2>1
  <1>2. ASSUME NEW m \in 1..n, Good(m - 1) PROVE Good(m)
    <2>1. PICK f \in [0..m - 1 -> V] : f[0] = base /\ \A i \in 1..m - 1 : f[i] = step[i][f[i - 1]]
      BY <1>2
    <2> DEFINE g == [i \in 0..m |-> IF i = m THEN step[m][f[m - 1]] ELSE f[i]]
    <2>2. m - 1 \in 0..m - 1 /\ f[m - 1] \in V /\ step[m] \in [V -> V]
      OBVIOUS
    <2>3. g \in [0..m -> V]
      BY <2>2
    <2>4. g[0] = base
      BY <2>1
    <2>5. ASSUME NEW i \in 1..m PROVE g[i] = step[i][g[i - 1]]
      <3>1. CASE i = m
        BY <2>2, <3>1
      <3>2. CASE i # m
        <4>1. i \in 1..m - 1 /\ i - 1 \in 0..m - 1 /\ i \in 0..m - 1
          BY <3>2
        <4>2. f[i] = step[i][f[i - 1]]
          BY <2>1, <4>1
        <4>3. g[i] = f[i] /\ g[i - 1] = f[i - 1]
          BY <3>2, <4>1
        <4> QED BY <4>2, <4>3
      <3> QED BY <3>1, <3>2
    <2> QED BY <2>3, <2>4, <2>5
  <1> HIDE DEF Good
  <1>3. bad = {}
    <2> SUFFICES ASSUME bad # {} PROVE FALSE
      OBVIOUS
    <2>1. bad \subseteq Nat
      OBVIOUS
    <2>2. PICK m \in bad : \A k \in bad : m <= k
      BY <2>1, LeastNatural
    <2>3. m # 0
      BY <1>1, <2>2
    <2>4. m \in 1..n /\ m - 1 \in 0..n /\ ~(m <= m - 1)
      BY <2>2, <2>3
    <2>5. Good(m - 1)
      BY <2>2, <2>4
    <2> QED BY <1>2, <2>2, <2>4, <2>5
  <1> QED BY <1>3, SMTT(30) DEF Good, StepByStep

(* Induction from 0 to n, for the set of numbers that a claim holds for.   *)
LEMMA UpTo ==
    ASSUME NEW n \in Nat, NEW T, 0 \in T, \A i \in 1..n : i - 1 \in T => i \in T
    PROVE  \A i \in 0..n : i \in T
PROOF
  <1> DEFINE bad == {i \in 0..n : i \notin T}
  <1> SUFFICES ASSUME bad # {} PROVE FALSE
    OBVIOUS
  <1>1. bad \subseteq Nat
    OBVIOUS
  <1>2. PICK m \in bad : \A k \in bad : m <= k
    BY <1>1, LeastNatural
  <1>3. m \in 1..n /\ m - 1 \in 0..n /\ ~(m <= m - 1)
    BY <1>2
  <1> QED BY <1>2, <1>3

(* What is defined step by step can be continued without end.              *)
Iterates(f, base, step) == f[0] = base /\ \A n \in Nat : f[n + 1] = step[f[n]]
LEMMA IterationExists ==
    ASSUME NEW V, NEW base \in V, NEW step \in [V -> V]
    PROVE  \E f \in [Nat -> V] : Iterates(f, base, step)
PROOF
  <1> DEFINE steps(n) == [i \in 1..n |-> step]
             Is(c, n) == c \in [0..n -> V] /\ c[0] = base /\ \A i \in 1..n : c[i] = step[c[i - 1]]
             chain(n) == CHOOSE c : Is(c, n)
             f == [n \in Nat |-> chain(n)[n]]
  <1>1. ASSUME NEW n \in Nat PROVE Is(chain(n), n)
    <2>1. steps(n) \in [1..n -> [V -> V]] /\ \A i \in 1..n : steps(n)[i] = step
      OBVIOUS
    <2> DEFINE st == steps(n)
    <2> HIDE DEF st
    <2>2. PICK c \in [0..n -> V] : StepByStep(c, base, n, st)
      BY <2>1, RecursionExists, Zenon DEF st
    <2>3. \A i \in 1..n : st[i] = step
      BY <2>1 DEF st
    <2>4. Is(c, n)
      BY <2>2, <2>3 DEF StepByStep
    <2> HIDE DEF Is
    <2> QED BY <2>4
  <1>2. ASSUME NEW n \in Nat, NEW m \in Nat, m <= n
        PROVE  chain(n)[m] = chain(m)[m]
    <2> DEFINE c == chain(n)
               d == chain(m)
               T == {i \in 0..m : c[i] = d[i]}
    <2>1. Is(c, n) /\ Is(d, m)
      BY <1>1
    <2> HIDE DEF c, d
    <2>2. \A i \in 1..m : i \in 1..n
      BY <1>2
    <2>3. 0 \in T
      BY <2>1
    <2>4. \A i \in 1..m : i - 1 \in T => i \in T
      <3> TAKE i \in 1..m
      <3>1. c[i] = step[c[i - 1]] /\ d[i] = step[d[i - 1]]
        BY <2>1, <2>2
      <3> QED BY <3>1
    <2>5. m \in 0..m
      OBVIOUS
    <2> HIDE DEF T
    <2>6. m \in T
      BY <2>3, <2>4, <2>5, UpTo
    <2> QED BY <2>6 DEF T, c, d
  <1>3. \A n \in Nat : chain(n)[n] \in V
    <2> TAKE n \in Nat
    <2> DEFINE c == chain(n)
    <2>1. Is(c, n)
      BY <1>1
    <2> HIDE DEF c
    <2>2. n \in 0..n
      OBVIOUS
    <2>3. c[n] \in V
      BY <2>1, <2>2
    <2> QED BY <2>3 DEF c
  <1>4. ASSUME NEW n \in Nat PROVE chain(n + 1)[n + 1] = step[chain(n)[n]]
    <2> HIDE DEF Is, chain
    <2>1. Is(chain(n + 1), n + 1)
      BY <1>1
    <2>2. n + 1 \in 1..n + 1 /\ n + 1 - 1 = n /\ n <= n + 1
      OBVIOUS
    <2>3. chain(n + 1)[n + 1] = step[chain(n + 1)[n]]
      BY <2>1, <2>2 DEF Is
    <2>4. chain(n + 1)[n] = chain(n)[n]
      BY <1>2, <2>2
    <2> QED BY <2>3, <2>4
  <1>5. chain(0)[0] = base
    BY <1>1
  <1> HIDE DEF chain
  <1>6. f \in [Nat -> V] /\ f[0] = base /\ \A n \in Nat : f[n + 1] = step[f[n]]
    BY <1>3, <1>4, <1>5
  <1> QED BY <1>6 DEF Iterates

(* What is defined at a node by what it is at nodes that are less deep is  *)
(* defined.                                                                *)
Settles(step, Nodes, V, depth) ==
    \A f, g \in [Nodes -> V] : \A v \in Nodes :
        (\A w \in Nodes : depth[w] < depth[v] => f[w] = g[w]) => step[f][v] = step[g][v]
FixedBy(f, step) == f = step[f]
LEMMA TreeRecursion ==
    ASSUME NEW V, NEW blank \in V, NEW Nodes, NEW depth \in [Nodes -> Nat],
           NEW step \in [[Nodes -> V] -> [Nodes -> V]], Settles(step, Nodes, V, depth)
    PROVE  \E f \in [Nodes -> V] : FixedBy(f, step)
PROOF
  <1>0. \A f, g \in [Nodes -> V] : \A v \in Nodes :
            (\A w \in Nodes : depth[w] < depth[v] => f[w] = g[w]) => step[f][v] = step[g][v]
    BY DEF Settles
  <1> DEFINE base == [v \in Nodes |-> blank]
             F == [Nodes -> V]
  <1>1. base \in F
    OBVIOUS
  <1> HIDE DEF base
  <1>2. PICK level \in [Nat -> F] : level[0] = base /\ \A n \in Nat : level[n + 1] = step[level[n]]
    <2>1. step \in [F -> F]
      OBVIOUS
    <2> HIDE DEF F
    <2>2. \E h \in [Nat -> F] : Iterates(h, base, step)
      BY <1>1, <2>1, IterationExists, Zenon
    <2> QED BY <2>2 DEF Iterates
  <1>3. \A n \in Nat : level[n] \in [Nodes -> V]
    BY <1>2
  <1>4. ASSUME NEW n \in Nat, NEW v \in Nodes,
               \A w \in Nodes : depth[w] < depth[v] => level[n + 1][w] = level[n][w]
        PROVE  level[n + 2][v] = level[n + 1][v]
    <2>1. n + 1 \in Nat /\ n + 1 + 1 = n + 2
      OBVIOUS
    <2>2. level[n + 2] = step[level[n + 1]] /\ level[n + 1] = step[level[n]]
      BY <1>2, <2>1
    <2>3. step[level[n + 1]][v] = step[level[n]][v]
      BY <1>0, <1>3, <1>4, <2>1
    <2> QED BY <2>2, <2>3
  <1> DEFINE Still(n) == \A v \in Nodes : depth[v] < n => level[n + 1][v] = level[n][v]
             unsettled == {n \in Nat : ~Still(n)}
  <1>5. \A n \in Nat : Still(n)
    <2> SUFFICES ASSUME unsettled # {} PROVE FALSE
      OBVIOUS
    <2>1. PICK n \in unsettled : \A k \in unsettled : n <= k
      BY LeastNatural
    <2>2. PICK v \in Nodes : depth[v] < n /\ level[n + 1][v] # level[n][v]
      BY <2>1
    <2>3. depth[v] \in Nat /\ n \in Nat
      BY <2>1
    <2>4. n - 1 \in Nat /\ ~(n <= n - 1) /\ n - 1 + 1 = n /\ n - 1 + 2 = n + 1
      BY <2>2, <2>3
    <2>5. Still(n - 1)
      BY <2>1, <2>4
    <2>6. \A w \in Nodes : depth[w] < depth[v] => level[n][w] = level[n - 1][w]
      <3> TAKE w \in Nodes
      <3>1. depth[w] \in Nat /\ (depth[w] < depth[v] => depth[w] < n - 1)
        BY <2>2, <2>3
      <3> QED BY <2>4, <2>5, <3>1
    <2> HIDE DEF Still, unsettled
    <2>7. level[n - 1 + 2][v] = level[n - 1 + 1][v]
      BY <1>4, <2>4, <2>6
    <2> QED BY <2>2, <2>4, <2>7
  <1> DEFINE f == [v \in Nodes |-> level[depth[v] + 1][v]]
  <1>6. ASSUME NEW w \in Nodes, NEW n \in Nat, depth[w] < n
        PROVE  f[w] = level[n][w]
    <2> DEFINE T == {i \in 0..n : depth[w] < i => level[i][w] = f[w]}
    <2>1. depth[w] \in Nat /\ depth[w] + 1 \in Nat /\ f[w] = level[depth[w] + 1][w]
      OBVIOUS
    <2> HIDE DEF f
    <2>2. 0 \in T
      BY <2>1
    <2>3. ASSUME NEW i \in 1..n, i - 1 \in T PROVE i \in T
      <3>1. i - 1 \in Nat /\ i - 1 + 1 = i /\ i \in 0..n
        OBVIOUS
      <3>2. CASE depth[w] < i - 1
        <4>1. level[i][w] = level[i - 1][w]
          BY <1>5, <3>1, <3>2
        <4> QED BY <2>3, <3>1, <3>2, <4>1
      <3>3. CASE ~(depth[w] < i - 1)
        <4>1. depth[w] < i => i = depth[w] + 1
          BY <2>1, <3>3
        <4> QED BY <2>1, <3>1, <4>1
      <3> QED BY <3>2, <3>3
    <2>4. n \in 0..n
      OBVIOUS
    <2> HIDE DEF T
    <2>5. n \in T
      BY <2>2, <2>3, <2>4, UpTo
    <2> QED BY <1>6, <2>5 DEF T
  <1>7. f \in [Nodes -> V]
    <2>1. ASSUME NEW v \in Nodes PROVE level[depth[v] + 1][v] \in V
      <3>1. depth[v] + 1 \in Nat
        OBVIOUS
      <3> QED BY <1>3, <3>1
    <2> QED BY <2>1
  <1>8. ASSUME NEW v \in Nodes PROVE f[v] = step[f][v]
    <2>1. depth[v] \in Nat /\ level[depth[v]] \in [Nodes -> V]
      BY <1>3
    <2>2. \A w \in Nodes : depth[w] < depth[v] => f[w] = level[depth[v]][w]
      BY <1>6, <2>1
    <2>3. f[v] = step[level[depth[v]]][v]
      BY <1>2, <2>1
    <2> HIDE DEF f
    <2>4. step[f][v] = step[level[depth[v]]][v]
      BY <1>0, <1>7, <2>1, <2>2
    <2> QED BY <2>3, <2>4
  <1> HIDE DEF f
  <1>9. step[f] \in [Nodes -> V]
    BY <1>7
  <1>10. f = step[f]
    BY <1>7, <1>8, <1>9
  <1> QED BY <1>7, <1>10 DEF FixedBy

(* FlattenSeq appends one sequence after the other.                        *)
Flattening(f, s) == f[0] = << >> /\ \A i \in 1..Len(s) : f[i] = f[i - 1] \o s[i]
LEMMA FlattenSteps ==
    ASSUME NEW S, NEW s \in Seq(Seq(S))
    PROVE  \E f \in [0..Len(s) -> Seq(S)] : Flattening(f, s) /\ FlattenSeq(s) = f[Len(s)]
PROOF
  <1> DEFINE N == Len(s)
             V == Seq(S)
             none == << >>
             step == [n \in 1..N |-> [t \in V |-> t \o s[n]]]
  <1>1. N \in Nat /\ \A n \in 1..N : s[n] \in V
    BY LenProperties, ElementOfSeq
  <1>2. none \in V
    OBVIOUS
  <1>3. step \in [1..N -> [V -> V]]
    <2>1. \A n \in 1..N : \A t \in V : t \o s[n] \in V
      BY <1>1, ConcatProperties
    <2> HIDE DEF V
    <2> QED BY <2>1
  <1>4. \A n \in 1..N : \A t \in V : step[n][t] = t \o s[n]
    OBVIOUS
  <1>5. none \o s[1] = s[1] \/ N = 0
    BY <1>1, ConcatEmptySeq
  <1>6. N = 0 => FlattenSeq(s) = none
    BY EmptySeq DEF FlattenSeq
  <1> DEFINE next(g, i) == IF i = 1 THEN s[i] ELSE g[i - 1] \o s[i]
             Is(g) == g = [i \in 1..N |-> next(g, i)]
             flatten == CHOOSE g : Is(g)
  <1>7. N # 0 => FlattenSeq(s) = flatten[N]
    BY DEF FlattenSeq
  <1> HIDE DEF step, N, V, none
  <1>8. PICK r \in [0..N -> V] : r[0] = none /\ \A i \in 1..N : r[i] = step[i][r[i - 1]]
    <2>1. N \in Nat
      BY <1>1
    <2>2. \E r \in [0..N -> V] : StepByStep(r, none, N, step)
      BY <1>2, <1>3, <2>1, RecursionExists, Zenon
    <2> QED BY <2>2 DEF StepByStep
  <1>9. \A i \in 1..N : r[i] = r[i - 1] \o s[i]
    <2> TAKE i \in 1..N
    <2>1. i - 1 \in 0..N
      BY <1>1
    <2>2. r[i - 1] \in V
      BY <1>8, <2>1
    <2> QED BY <1>4, <1>8, <2>2
  <1>10. \A i \in 1..N : r[i] = next(r, i)
    <2> TAKE i \in 1..N
    <2>1. CASE i = 1
      <3>0. i - 1 = 0
        BY <2>1
      <3>1. r[i] = none \o s[i]
        BY <1>8, <1>9, <3>0
      <3>2. none \o s[i] = s[i]
        BY <1>1, <1>5, <2>1
      <3> QED BY <2>1, <3>1, <3>2
    <2>2. CASE i # 1
      BY <1>9, <2>2
    <2> QED BY <2>1, <2>2
  <1> DEFINE h == [i \in 1..N |-> r[i]]
  <1>11. Is(h)
    <2>1. \A i \in 1..N : i = 1 \/ i - 1 \in 1..N
      BY <1>1
    <2>2. \A i \in 1..N : h[i] = next(h, i)
      BY <1>10, <2>1
    <2> HIDE DEF next
    <2> QED BY <2>2
  <1>12. Is(flatten)
    <2> HIDE DEF Is
    <2> QED BY <1>11
  <1>13. \A i \in 1..N : flatten[i] = next(flatten, i)
    <2> HIDE DEF flatten, next
    <2> QED BY <1>12
  <1> HIDE DEF flatten, Is, h
  <1> DEFINE T == {i \in 0..N : i = 0 \/ flatten[i] = r[i]}
  <1>14. \A i \in 0..N : i \in T
    <2>1. 0 \in T
      BY <1>1
    <2>2. ASSUME NEW i \in 1..N, i - 1 \in T PROVE i \in T
      <3>1. flatten[i] = r[i]
        <4>1. CASE i = 1
          BY <1>10, <1>13, <4>1
        <4>2. CASE i # 1
          <5>1. flatten[i - 1] = r[i - 1]
            BY <2>2, <4>2
          <5> QED BY <1>10, <1>13, <4>2, <5>1
        <4> QED BY <4>1, <4>2
      <3> QED BY <3>1
    <2> HIDE DEF T
    <2> QED BY <1>1, <2>1, <2>2, UpTo
  <1>15. FlattenSeq(s) = r[N]
    <2>1. CASE N = 0
      BY <1>6, <1>8, <2>1
    <2>2. CASE N # 0
      <3>1. N \in 1..N /\ N \in 0..N
        BY <1>1, <2>2
      <3>2. flatten[N] = r[N]
        BY <1>14, <2>2, <3>1
      <3> QED BY <1>7, <2>2, <3>2
    <2> QED BY <2>1, <2>2
  <1>16. Flattening(r, s)
    BY <1>8, <1>9 DEF Flattening, N, none
  <1> QED BY <1>15, <1>16 DEF N, V

LEMMA FlattenType ==
    ASSUME NEW S, NEW s \in Seq(Seq(S))
    PROVE  FlattenSeq(s) \in Seq(S)
PROOF
  <1>1. Len(s) \in Nat
    BY LenProperties
  <1>2. Len(s) \in 0..Len(s)
    BY <1>1
  <1> QED BY <1>2, FlattenSteps

(* Blank sequences leave nothing.                                          *)
LEMMA FlattenBlanks ==
    ASSUME NEW S, NEW s \in Seq(Seq(S)), \A i \in 1..Len(s) : s[i] = << >>
    PROVE  FlattenSeq(s) = << >>
PROOF
  <1>1. PICK f \in [0..Len(s) -> Seq(S)] : Flattening(f, s) /\ FlattenSeq(s) = f[Len(s)]
    BY FlattenSteps
  <1>2. Len(s) \in Nat
    BY LenProperties
  <1> DEFINE N == Len(s)
             none == << >>
             T == {i \in 0..N : f[i] = none}
  <1>3. none \o none = none
    BY ConcatEmptySeq
  <1>4. f[0] = none /\ \A i \in 1..N : f[i] = f[i - 1] \o none
    BY <1>1 DEF Flattening
  <1> HIDE DEF N, none
  <1>5. \A i \in 0..N : i \in T
    <2>1. 0 \in T
      BY <1>2, <1>4 DEF N
    <2>2. \A i \in 1..N : i - 1 \in T => i \in T
      BY <1>3, <1>4
    <2> HIDE DEF T
    <2> QED BY <1>2, <2>1, <2>2, UpTo DEF N
  <1>6. f[N] = none
    BY <1>2, <1>5 DEF N
  <1> QED BY <1>1, <1>6 DEF N, none

(* A finite set of numbers can be listed in ascending order.               *)
LEMMA AscendingExists ==
    ASSUME NEW T, T \subseteq Nat, IsFiniteSet(T)
    PROVE  \E s \in [1..Cardinality(T) -> T] :
               /\ \A i, j \in 1..Cardinality(T) : i < j => s[i] < s[j]
               /\ T = {s[i] : i \in 1..Cardinality(T)}
PROOF
  <1> DEFINE Good(n) == \A U \in SUBSET Nat : IsFiniteSet(U) /\ Cardinality(U) = n =>
                 \E s \in [1..n -> U] :
                     (\A i, j \in 1..n : i < j => s[i] < s[j]) /\ U = {s[i] : i \in 1..n}
             bad == {n \in Nat : ~Good(n)}
  <1>1. Good(0)
    <2> SUFFICES ASSUME NEW U \in SUBSET Nat, IsFiniteSet(U), Cardinality(U) = 0
                 PROVE  \E s \in [1..0 -> U] :
                            (\A i, j \in 1..0 : i < j => s[i] < s[j]) /\ U = {s[i] : i \in 1..0}
      OBVIOUS
    <2>1. U = {}
      BY FS_EmptySet
    <2> DEFINE s == [i \in 1..0 |-> 0]
    <2>2. s \in [1..0 -> U] /\ (\A i, j \in 1..0 : i < j => s[i] < s[j]) /\ U = {s[i] : i \in 1..0}
      BY <2>1
    <2> QED BY <2>2
  <1>2. ASSUME NEW n \in Nat \ {0}, Good(n - 1) PROVE Good(n)
    <2> SUFFICES ASSUME NEW U \in SUBSET Nat, IsFiniteSet(U), Cardinality(U) = n
                 PROVE  \E s \in [1..n -> U] :
                            (\A i, j \in 1..n : i < j => s[i] < s[j]) /\ U = {s[i] : i \in 1..n}
      OBVIOUS
    <2>1. U # {}
      BY FS_EmptySet
    <2>2. PICK m \in U : \A k \in U : m <= k
      BY <2>1, LeastNatural
    <2> DEFINE W == U \ {m}
    <2>3. IsFiniteSet(W) /\ Cardinality(W) = n - 1 /\ W \in SUBSET Nat
      BY FS_RemoveElement
    <2>4. PICK r \in [1..n - 1 -> W] :
              (\A i, j \in 1..n - 1 : i < j => r[i] < r[j]) /\ W = {r[i] : i \in 1..n - 1}
      BY <1>2, <2>3
    <2> HIDE DEF Good
    <2> DEFINE s == [i \in 1..n |-> IF i = 1 THEN m ELSE r[i - 1]]
    <2>5. \A i \in 1..n : i # 1 => i - 1 \in 1..n - 1
      OBVIOUS
    <2>6. s \in [1..n -> U]
      BY <2>5
    <2>7. ASSUME NEW i \in 1..n, NEW j \in 1..n, i < j PROVE s[i] < s[j]
      <3>1. j # 1 /\ j - 1 \in 1..n - 1 /\ s[j] = r[j - 1]
        BY <2>7
      <3>2. CASE i = 1
        <4>1. r[j - 1] \in U /\ r[j - 1] # m /\ s[i] = m
          BY <3>1, <3>2
        <4>2. m \in Nat /\ r[j - 1] \in Nat /\ m <= r[j - 1]
          BY <2>2, <4>1
        <4> HIDE DEF s
        <4> QED BY <3>1, <4>1, <4>2
      <3>3. CASE i # 1
        <4>1. i - 1 \in 1..n - 1 /\ s[i] = r[i - 1] /\ i - 1 < j - 1
          BY <2>7, <3>3
        <4> QED BY <2>4, <3>1, <4>1
      <3> QED BY <3>2, <3>3
    <2>8. U = {s[i] : i \in 1..n}
      <3>1. ASSUME NEW x \in U PROVE \E i \in 1..n : x = s[i]
        <4>1. CASE x = m
          BY <4>1
        <4>2. CASE x # m
          <5>1. PICK k \in 1..n - 1 : x = r[k]
            BY <2>4, <4>2
          <5>2. k + 1 \in 1..n /\ k + 1 # 1 /\ k + 1 - 1 = k
            OBVIOUS
          <5>3. s[k + 1] = r[k]
            BY <5>2
          <5> QED BY <5>1, <5>2, <5>3
        <4> QED BY <4>1, <4>2
      <3> HIDE DEF s
      <3>2. \A i \in 1..n : s[i] \in U
        BY <2>6
      <3> QED BY <3>1, <3>2, ZenonT(60)
    <2> HIDE DEF s
    <2> QED BY <2>6, <2>7, <2>8
  <1>3. Good(Cardinality(T))
    <2> HIDE DEF Good
    <2>1. bad = {}
      <3> SUFFICES ASSUME bad # {} PROVE FALSE
        OBVIOUS
      <3>1. PICK m \in bad : \A k \in bad : m <= k
        BY LeastNatural
      <3>2. m \in Nat \ {0} /\ m - 1 \in Nat /\ ~(m <= m - 1)
        BY <1>1, <3>1
      <3>3. Good(m - 1)
        BY <3>1, <3>2
      <3> QED BY <1>2, <3>1, <3>2, <3>3
    <2>2. Cardinality(T) \in Nat
      BY FS_CardinalityType
    <2> QED BY <2>1, <2>2
  <1> QED BY <1>3

(* The orders of a finite set.                                            *)
LEMMA OrderIs ==
    ASSUME NEW D, IsFiniteSet(D), NEW order \in SetToSeqs(D)
    PROVE  /\ order \in Seq(D) /\ Len(order) = Cardinality(D)
           /\ \A key \in D : \E i \in 1..Len(order) : order[i] = key
PROOF
  <1> DEFINE N == Cardinality(D)
  <1>1. N \in Nat
    BY FS_CardinalityType
  <1>2. order \in [1..N -> D] /\ \A i, j \in 1..N : i # j => order[i] # order[j]
    BY DEF SetToSeqs
  <1> HIDE DEF N
  <1>3. order \in Injection(1..N, D)
    BY <1>2 DEF Injection, IsInjective
  <1>4. Cardinality(1..N) = N /\ IsFiniteSet(1..N)
    <2>1. 1 \in Int /\ N \in Int
      BY <1>1
    <2>2. IsFiniteSet(1..N) /\ Cardinality(1..N) = IF 1 > N THEN 0 ELSE N - 1 + 1
      BY <2>1, FS_Interval, Zenon
    <2> QED BY <1>1, <2>2
  <1>5. order \in Surjection(1..N, D)
    BY <1>3, <1>4, FS_Injection DEF N
  <1>6. order \in Seq(D) /\ Len(order) = N
    BY <1>1, <1>2
  <1> QED BY <1>5, <1>6 DEF Surjection, N

LEMMA OrderExists ==
    ASSUME NEW D, IsFiniteSet(D)
    PROVE  /\ SetToSeqs(D) # {}
           /\ \A key \in D : \E order \in SetToSeqs(D) : order[1] = key
PROOF
  <1> DEFINE N == Cardinality(D)
  <1>1. N \in Nat
    BY FS_CardinalityType
  <1>2. SetToSeqs(D) = {f \in [1..N -> D] : \A i, j \in 1..N : i # j => f[i] # f[j]}
    BY DEF SetToSeqs
  <1>3. Cardinality(1..N) = N /\ IsFiniteSet(1..N)
    <2>1. 1 \in Int /\ N \in Int
      BY <1>1
    <2>2. IsFiniteSet(1..N) /\ Cardinality(1..N) = IF 1 > N THEN 0 ELSE N - 1 + 1
      BY <2>1, FS_Interval, Zenon
    <2> QED BY <1>1, <2>2
  <1>4. PICK b : b \in Bijection(1..N, D)
    BY <1>3, FS_SameCardinalityBij DEF ExistsBijection
  <1> HIDE DEF N
  <1>5. /\ b \in [1..N -> D] /\ \A i, j \in 1..N : i # j => b[i] # b[j]
        /\ \A key \in D : \E i \in 1..N : b[i] = key
    BY <1>4 DEF Bijection, Injection, Surjection, IsInjective
  <1>6. b \in SetToSeqs(D)
    BY <1>2, <1>5
  <1>7. ASSUME NEW key \in D PROVE \E order \in SetToSeqs(D) : order[1] = key
    <2>1. PICK k \in 1..N : b[k] = key
      BY <1>5
    <2>2. 1 \in 1..N
      BY <1>1
    <2> DEFINE at(j) == IF j = 1 THEN k ELSE IF j = k THEN 1 ELSE j
               order == [j \in 1..N |-> b[at(j)]]
    <2>3. /\ \A j \in 1..N : at(j) \in 1..N
          /\ \A i, j \in 1..N : i # j => at(i) # at(j)
          /\ at(1) = k
      BY <2>2
    <2> HIDE DEF at
    <2>4. order \in [1..N -> D] /\ order[1] = key
      BY <1>5, <2>1, <2>2, <2>3
    <2>5. \A i, j \in 1..N : i # j => order[i] # order[j]
      BY <1>5, <2>3
    <2> HIDE DEF order
    <2> QED BY <1>2, <2>4, <2>5
  <1> QED BY <1>6, <1>7

-----------------------------------------------------------------------------
(* Sums over the places of a sequence, as sizes of sets: at each place     *)
(* there is a pile, and the heap is all of them.  A heap does not know the *)
(* order in which the piles were put there.                                *)
Heap(place, size, n) == UNION {{place[k]} \X (1..size[k]) : k \in 1..n}
AddsUp(g, size, n) == g[0] = 0 /\ \A i \in 1..n : g[i] = g[i - 1] + size[i]

LEMMA IntervalSize ==
    ASSUME NEW n \in Nat
    PROVE  IsFiniteSet(1..n) /\ Cardinality(1..n) = n
PROOF
  <1>1. 1 \in Int /\ n \in Int
    OBVIOUS
  <1>2. IsFiniteSet(1..n) /\ Cardinality(1..n) = IF 1 > n THEN 0 ELSE n - 1 + 1
    BY <1>1, FS_Interval, Zenon
  <1> DEFINE c == Cardinality(1..n)
  <1>3. c = IF 1 > n THEN 0 ELSE n - 1 + 1
    BY <1>2
  <1> HIDE DEF c
  <1>4. c = n
    BY <1>3
  <1> QED BY <1>2, <1>4 DEF c

LEMMA HeapGrows ==
    ASSUME NEW n \in Nat, NEW K, NEW place \in [1..n -> K], IsInjective(place),
           NEW size \in [1..n -> Nat]
    PROVE  /\ \A i \in 0..n : IsFiniteSet(Heap(place, size, i))
           /\ AddsUp([i \in 0..n |-> Cardinality(Heap(place, size, i))], size, n)
PROOF
  <1> DEFINE H(i) == Heap(place, size, i)
             pile(i) == {place[i]} \X (1..size[i])
             finite == {i \in 0..n : IsFiniteSet(H(i))}
  <1>1. H(0) = {}
    <2>1. 1..0 = {}
      OBVIOUS
    <2> QED BY <2>1 DEF Heap
  <1>2. ASSUME NEW i \in 1..n PROVE H(i) = H(i - 1) \cup pile(i)
    <2>1. 1..i = (1..(i - 1)) \cup {i}
      OBVIOUS
    <2> QED BY <2>1 DEF Heap
  <1>3. ASSUME NEW i \in 1..n PROVE H(i - 1) \cap pile(i) = {}
    <2> SUFFICES ASSUME NEW p \in H(i - 1), p \in pile(i) PROVE FALSE
      OBVIOUS
    <2>1. PICK k \in 1..(i - 1) : p \in pile(k)
      BY DEF Heap
    <2>2. k \in DOMAIN place /\ i \in DOMAIN place /\ k # i
      OBVIOUS
    <2>3. p[1] = place[k] /\ p[1] = place[i]
      BY <2>1
    <2> QED BY <2>2, <2>3 DEF IsInjective
  <1>4. ASSUME NEW i \in 1..n PROVE IsFiniteSet(pile(i)) /\ Cardinality(pile(i)) = size[i]
    <2> DEFINE one == {place[i]}
               many == 1..size[i]
    <2>1. IsFiniteSet(one) /\ Cardinality(one) = 1
      BY FS_Singleton
    <2>2. size[i] \in Nat
      OBVIOUS
    <2>3. IsFiniteSet(many) /\ Cardinality(many) = size[i]
      BY <2>2, IntervalSize
    <2> HIDE DEF one, many
    <2>4. IsFiniteSet(one \X many)
          /\ Cardinality(one \X many) = Cardinality(one) * Cardinality(many)
      BY <2>1, <2>3, FS_Product
    <2>5. Cardinality(one \X many) = size[i]
      BY <2>1, <2>2, <2>3, <2>4
    <2> QED BY <2>4, <2>5 DEF one, many
  <1> HIDE DEF H, pile
  <1>5. \A i \in 0..n : i \in finite
    <2>1. 0 \in finite
      <3>1. IsFiniteSet({}) /\ 0 \in 0..n
        BY FS_EmptySet
      <3>2. IsFiniteSet(H(0))
        BY <1>1, <3>1
      <3> QED BY <3>1, <3>2
    <2>2. ASSUME NEW i \in 1..n, i - 1 \in finite PROVE i \in finite
      <3>1. IsFiniteSet(H(i - 1)) /\ IsFiniteSet(pile(i)) /\ i \in 0..n
        BY <1>4, <2>2
      <3>2. IsFiniteSet(H(i - 1) \cup pile(i))
        BY <3>1, FS_Union
      <3>3. IsFiniteSet(H(i))
        BY <1>2, <3>2
      <3> QED BY <3>1, <3>3
    <2> HIDE DEF finite
    <2> QED BY <2>1, <2>2, UpTo
  <1> DEFINE g == [i \in 0..n |-> Cardinality(H(i))]
  <1>6. g[0] = 0
    BY <1>1, FS_EmptySet
  <1>7. ASSUME NEW i \in 1..n PROVE g[i] = g[i - 1] + size[i]
    <2> DEFINE a == H(i - 1)
               b == pile(i)
    <2>1. i - 1 \in 0..n /\ i \in 0..n
      OBVIOUS
    <2>2. IsFiniteSet(a) /\ IsFiniteSet(b) /\ a \cap b = {} /\ Cardinality(b) = size[i]
      BY <1>3, <1>4, <1>5, <2>1
    <2>3. H(i) = a \cup b
      BY <1>2
    <2> HIDE DEF a, b
    <2>4. Cardinality(a \cup b) = Cardinality(a) + Cardinality(b) - Cardinality(a \cap b)
      BY <2>2, FS_Union
    <2>5. Cardinality(a) \in Nat /\ Cardinality(a \cap b) = 0 /\ size[i] \in Nat
      BY <2>2, FS_CardinalityType, FS_EmptySet
    <2>6. Cardinality(a \cup b) = Cardinality(a) + size[i]
      BY <2>2, <2>4, <2>5
    <2>7. g[i - 1] = Cardinality(a) /\ g[i] = Cardinality(a \cup b)
      BY <2>1, <2>3 DEF a
    <2> QED BY <2>6, <2>7
  <1>8. AddsUp(g, size, n)
    <2> HIDE DEF g
    <2> QED BY <1>6, <1>7 DEF AddsUp
  <1> QED BY <1>5, <1>8 DEF H

(* What adds up the same ends at the same.                                 *)
LEMMA HeapIs ==
    ASSUME NEW n \in Nat, NEW K, NEW place \in [1..n -> K], IsInjective(place),
           NEW size \in [1..n -> Nat], NEW g, AddsUp(g, size, n)
    PROVE  /\ \A i \in 0..n : g[i] \in Nat
           /\ g[n] = Cardinality(Heap(place, size, n))
PROOF
  <1> DEFINE h == [i \in 0..n |-> Cardinality(Heap(place, size, i))]
             same == {i \in 0..n : g[i] = h[i]}
  <1>1. AddsUp(h, size, n) /\ \A i \in 0..n : IsFiniteSet(Heap(place, size, i))
    BY HeapGrows
  <1>2. \A i \in 0..n : h[i] \in Nat
    BY <1>1, FS_CardinalityType
  <1>3. n \in 0..n /\ h[n] = Cardinality(Heap(place, size, n))
    OBVIOUS
  <1> HIDE DEF h
  <1>4. 0 \in same
    BY <1>1 DEF AddsUp
  <1>5. ASSUME NEW i \in 1..n, i - 1 \in same PROVE i \in same
    <2>1. g[i] = g[i - 1] + size[i] /\ h[i] = h[i - 1] + size[i]
      BY <1>1 DEF AddsUp
    <2> QED BY <1>5, <2>1
  <1> HIDE DEF same
  <1>6. \A i \in 0..n : i \in same
    BY <1>4, <1>5, UpTo
  <1> QED BY <1>2, <1>3, <1>6 DEF same

(* The weights of all elements of a sequence. *)
Total(s, w) ==
    LET n == Len(s) IN Cardinality(Heap([k \in 1..n |-> k], [k \in 1..n |-> w[s[k]]], n))
Summing(g, s, w) == g[0] = 0 /\ \A i \in 1..Len(s) : g[i] = g[i - 1] + w[s[i]]

LEMMA SumSteps ==
    ASSUME NEW S, NEW s \in Seq(S), NEW w \in [S -> Nat]
    PROVE  \E g \in [0..Len(s) -> Nat] : Summing(g, s, w) /\ Total(s, w) = g[Len(s)]
PROOF
  <1> DEFINE n == Len(s)
             place == [k \in 1..n |-> k]
             size == [k \in 1..n |-> w[s[k]]]
             g == [i \in 0..n |-> Cardinality(Heap(place, size, i))]
  <1>1. n \in Nat /\ \A k \in 1..n : s[k] \in S
    BY LenProperties, ElementOfSeq
  <1>2. place \in [1..n -> Nat] /\ IsInjective(place)
    BY DEF IsInjective
  <1>3. size \in [1..n -> Nat]
    BY <1>1
  <1>4. \A k \in 1..n : size[k] = w[s[k]]
    OBVIOUS
  <1>5. Total(s, w) = Cardinality(Heap(place, size, n))
    BY DEF Total
  <1> HIDE DEF n, place, size
  <1>6. AddsUp(g, size, n) /\ \A i \in 0..n : IsFiniteSet(Heap(place, size, i))
    BY <1>1, <1>2, <1>3, HeapGrows
  <1>7. \A i \in 0..n : g[i] \in Nat
    BY <1>6, FS_CardinalityType
  <1>8. g \in [0..n -> Nat] /\ n \in 0..n
    BY <1>1, <1>7
  <1>9. g[n] = Total(s, w)
    BY <1>5, <1>8
  <1> HIDE DEF g
  <1>10. Summing(g, s, w)
    BY <1>4, <1>6 DEF AddsUp, Summing, n
  <1> QED BY <1>8, <1>9, <1>10 DEF n

LEMMA SumIs ==
    ASSUME NEW S, NEW s \in Seq(S), NEW w \in [S -> Nat], NEW g, Summing(g, s, w)
    PROVE  Total(s, w) = g[Len(s)] /\ Total(s, w) \in Nat
PROOF
  <1> DEFINE n == Len(s)
  <1>1. PICK h \in [0..n -> Nat] : Summing(h, s, w) /\ Total(s, w) = h[n]
    BY SumSteps
  <1>2. n \in Nat /\ n \in 0..n
    BY LenProperties
  <1>3. g[0] = 0 /\ h[0] = 0
    BY <1>1 DEF Summing
  <1>4. \A i \in 1..n : g[i] = g[i - 1] + w[s[i]] /\ h[i] = h[i - 1] + w[s[i]]
    BY <1>1 DEF Summing
  <1> DEFINE same == {i \in 0..n : g[i] = h[i]}
  <1> HIDE DEF n
  <1>5. 0 \in same
    BY <1>2, <1>3
  <1>6. \A i \in 1..n : i - 1 \in same => i \in same
    BY <1>4
  <1> HIDE DEF same
  <1>7. \A i \in 0..n : i \in same
    BY <1>2, <1>5, <1>6, UpTo
  <1>8. g[n] = h[n] /\ h[n] \in Nat
    BY <1>2, <1>7 DEF same
  <1> QED BY <1>1, <1>8 DEF n

LEMMA SumType ==
    ASSUME NEW S, NEW s \in Seq(S), NEW w \in [S -> Nat]
    PROVE  Total(s, w) \in Nat
  BY SumSteps, SumIs

LEMMA SumOfNone ==
    ASSUME NEW w
    PROVE  Total(<< >>, w) = 0
PROOF
  <1>1. \A p, q : Heap(p, q, 0) = {}
    <2>1. 1..0 = {}
      OBVIOUS
    <2> QED BY <2>1 DEF Heap
  <1>2. Len(<< >>) = 0
    OBVIOUS
  <1> QED BY <1>1, <1>2, FS_EmptySet DEF Total

(* The sum is 0 if and only if each weight in it is.                       *)
LEMMA SumIsNothing ==
    ASSUME NEW S, NEW s \in Seq(S), NEW w \in [S -> Nat]
    PROVE  Total(s, w) = 0 <=> \A k \in 1..Len(s) : w[s[k]] = 0
PROOF
  <1> DEFINE n == Len(s)
             place == [k \in 1..n |-> k]
             size == [k \in 1..n |-> w[s[k]]]
  <1>1. n \in Nat /\ n \in 0..n /\ \A k \in 1..n : s[k] \in S
    BY LenProperties, ElementOfSeq
  <1>2. place \in [1..n -> Nat] /\ IsInjective(place) /\ \A k \in 1..n : place[k] = k
    BY DEF IsInjective
  <1>3. size \in [1..n -> Nat] /\ \A k \in 1..n : size[k] = w[s[k]]
    BY <1>1
  <1>4. Total(s, w) = Cardinality(Heap(place, size, n))
    BY DEF Total
  <1> HIDE DEF n, place, size
  <1>5. IsFiniteSet(Heap(place, size, n))
    BY <1>1, <1>2, <1>3, HeapGrows
  <1>6. Total(s, w) = 0 <=> Heap(place, size, n) = {}
    BY <1>4, <1>5, FS_EmptySet
  <1>7. Heap(place, size, n) = {} <=> \A k \in 1..n : {place[k]} \X (1..size[k]) = {}
    BY DEF Heap
  <1>8. \A k \in 1..n : {place[k]} \X (1..size[k]) = {} <=> size[k] = 0
    <2> TAKE k \in 1..n
    <2>1. size[k] \in Nat
      BY <1>3
    <2>2. CASE size[k] = 0
      <3>1. 1..size[k] = {}
        BY <2>2
      <3> QED BY <2>2, <3>1
    <2>3. CASE size[k] # 0
      <3>1. 1 \in 1..size[k]
        BY <2>1, <2>3
      <3>2. <<place[k], 1>> \in {place[k]} \X (1..size[k])
        BY <3>1
      <3> QED BY <2>3, <3>2
    <2> QED BY <2>2, <2>3
  <1> QED BY <1>3, <1>6, <1>7, <1>8 DEF n

LEMMA SumConcat ==
    ASSUME NEW S, NEW a \in Seq(S), NEW b \in Seq(S), NEW w \in [S -> Nat]
    PROVE  Total(a \o b, w) = Total(a, w) + Total(b, w)
PROOF
  <1> DEFINE n == Len(a)
             m == Len(b)
             c == a \o b
  <1>1. n \in Nat /\ m \in Nat
    BY LenProperties
  <1>2. c \in Seq(S)
    BY ConcatProperties
  <1>3. Len(c) = n + m
    BY ConcatProperties
  <1>4. \A i \in 1..n : c[i] = a[i]
    BY <1>1, ConcatProperties
  <1>5. \A i \in 1..m : c[n + i] = b[i]
    BY <1>1, ConcatProperties
  <1>6. PICK g \in [0..n -> Nat] : Summing(g, a, w) /\ Total(a, w) = g[n]
    BY SumSteps
  <1>7. PICK h \in [0..m -> Nat] : Summing(h, b, w) /\ Total(b, w) = h[m]
    BY SumSteps
  <1>8. g[0] = 0 /\ \A i \in 1..n : g[i] = g[i - 1] + w[a[i]]
    BY <1>6 DEF Summing
  <1>9. h[0] = 0 /\ \A i \in 1..m : h[i] = h[i - 1] + w[b[i]]
    BY <1>7 DEF Summing
  <1> HIDE DEF n, m, c
  <1> DEFINE f == [i \in 0..(n + m) |-> IF i <= n THEN g[i] ELSE g[n] + h[i - n]]
  <1>10. f[0] = 0
    BY <1>1, <1>8
  <1>11. ASSUME NEW i \in 1..(n + m) PROVE f[i] = f[i - 1] + w[c[i]]
    <2>1. CASE i <= n
      <3>1. i \in 1..n /\ i - 1 <= n /\ i \in 0..(n + m) /\ i - 1 \in 0..(n + m)
        BY <1>1, <2>1
      <3>2. f[i] = g[i] /\ f[i - 1] = g[i - 1] /\ c[i] = a[i]
        BY <1>4, <3>1
      <3> HIDE DEF f
      <3> QED BY <1>8, <3>1, <3>2
    <2>2. CASE i > n
      <3> DEFINE j == i - n
      <3>1. j \in 1..m /\ j - 1 \in 0..m /\ j \in 0..m /\ i = n + j
        BY <1>1, <2>2
      <3>2. i \in 0..(n + m) /\ i - 1 \in 0..(n + m) /\ ~(i <= n)
        BY <1>1, <2>2
      <3>3. f[i] = g[n] + h[j]
        BY <3>2
      <3>4. f[i - 1] = g[n] + h[j - 1]
        <4>1. CASE j = 1
          <5>1. i - 1 = n /\ j - 1 = 0 /\ g[n] \in Nat
            BY <1>1, <3>1, <4>1
          <5>2. f[i - 1] = g[n]
            BY <3>2, <5>1
          <5> QED BY <1>9, <5>1, <5>2
        <4>2. CASE j # 1
          <5>1. ~(i - 1 <= n) /\ (i - 1) - n = j - 1
            BY <1>1, <3>1, <4>2
          <5> QED BY <3>2, <5>1
        <4> QED BY <4>1, <4>2
      <3>5. c[i] = b[j] /\ h[j] = h[j - 1] + w[b[j]]
        BY <1>5, <1>9, <3>1
      <3>6. g[n] \in Nat /\ h[j - 1] \in Nat /\ h[j] \in Nat
        BY <1>1, <3>1
      <3>7. w[b[j]] \in Nat
        BY <3>1, ElementOfSeq DEF m
      <3> HIDE DEF f, j
      <3> QED BY <3>3, <3>4, <3>5, <3>6, <3>7, SMTT(30)
    <2> QED BY <1>1, <2>1, <2>2
  <1>12. f[n + m] = g[n] + h[m]
    <2>1. n + m \in 0..(n + m) /\ (n + m) - n = m
      BY <1>1
    <2>2. CASE m = 0
      <3>1. f[n + m] = g[n] /\ g[n] \in Nat /\ h[m] = 0
        BY <1>1, <1>9, <2>1, <2>2
      <3> HIDE DEF f
      <3> QED BY <3>1
    <2>3. CASE m # 0
      <3>1. ~(n + m <= n)
        BY <1>1, <2>3
      <3> QED BY <2>1, <3>1
    <2> QED BY <2>2, <2>3
  <1> HIDE DEF f
  <1>13. Summing(f, c, w)
    BY <1>3, <1>10, <1>11 DEF Summing
  <1>14. Total(c, w) = f[n + m]
    BY <1>2, <1>3, <1>13, SumIs
  <1> QED BY <1>6, <1>7, <1>12, <1>14 DEF c

LEMMA SumOfOne ==
    ASSUME NEW S, NEW e \in S, NEW w \in [S -> Nat]
    PROVE  Total(<<e>>, w) = w[e]
PROOF
  <1> DEFINE s == <<e>>
             g == [i \in 0..1 |-> IF i = 0 THEN 0 ELSE w[e]]
  <1>1. s \in Seq(S) /\ Len(s) = 1 /\ s[1] = e /\ w[e] \in Nat
    OBVIOUS
  <1>2. g[0] = 0 /\ g[1] = w[e]
    OBVIOUS
  <1> HIDE DEF s, g
  <1>3. \A i \in 1..1 : g[i] = g[i - 1] + w[s[i]]
    <2> TAKE i \in 1..1
    <2>1. i = 1 /\ i - 1 = 0
      OBVIOUS
    <2>2. g[1] = g[0] + w[s[1]]
      BY <1>1, <1>2
    <2> QED BY <2>1, <2>2
  <1>4. Summing(g, s, w)
    BY <1>1, <1>2, <1>3 DEF Summing
  <1>5. Total(s, w) = g[1]
    BY <1>1, <1>4, SumIs
  <1> QED BY <1>2, <1>5 DEF s

LEMMA SumAppend ==
    ASSUME NEW S, NEW s \in Seq(S), NEW e \in S, NEW w \in [S -> Nat]
    PROVE  Total(Append(s, e), w) = Total(s, w) + w[e]
PROOF
  <1> DEFINE one == <<e>>
  <1>1. one \in Seq(S) /\ Append(s, e) = s \o one /\ Total(one, w) = w[e]
    BY SumOfOne
  <1> HIDE DEF one
  <1>2. Total(s \o one, w) = Total(s, w) + Total(one, w)
    BY <1>1, SumConcat
  <1> QED BY <1>1, <1>2

LEMMA SumLength ==
    ASSUME NEW S, NEW s \in Seq(S), NEW w \in [S -> Nat], \A x \in S : w[x] = 1
    PROVE  Total(s, w) = Len(s)
PROOF
  <1> DEFINE n == Len(s)
             g == [i \in 0..n |-> i]
  <1>1. n \in Nat /\ \A k \in 1..n : s[k] \in S
    BY LenProperties, ElementOfSeq
  <1>2. \A k \in 1..n : w[s[k]] = 1
    BY <1>1
  <1> HIDE DEF n
  <1>3. g[0] = 0 /\ g[n] = n /\ \A i \in 1..n : g[i] = g[i - 1] + 1
    BY <1>1
  <1> HIDE DEF g
  <1>4. Summing(g, s, w)
    BY <1>2, <1>3 DEF Summing, n
  <1>5. Total(s, w) = g[n]
    BY <1>4, SumIs DEF n
  <1> QED BY <1>3, <1>5 DEF n

SumsUp(v, w, S) == \A x \in Seq(S) : v[x] = Total(x, w)
LEMMA SumFlatten ==
    ASSUME NEW S, NEW s \in Seq(Seq(S)), NEW w \in [S -> Nat],
           NEW v \in [Seq(S) -> Nat], SumsUp(v, w, S)
    PROVE  Total(FlattenSeq(s), w) = Total(s, v)
PROOF
  <1> DEFINE n == Len(s)
             S2 == Seq(S)
  <1>1. PICK f \in [0..n -> Seq(S)] : Flattening(f, s) /\ FlattenSeq(s) = f[n]
    BY FlattenSteps
  <1>2. n \in Nat /\ n \in 0..n /\ \A k \in 1..n : s[k] \in Seq(S)
    BY LenProperties, ElementOfSeq
  <1> DEFINE g == [i \in 0..n |-> Total(f[i], w)]
  <1>3. f[0] = << >> /\ \A i \in 1..n : f[i] = f[i - 1] \o s[i]
    BY <1>1 DEF Flattening
  <1> HIDE DEF n
  <1>4. g[0] = 0
    BY <1>2, <1>3, SumOfNone
  <1>5. ASSUME NEW i \in 1..n PROVE g[i] = g[i - 1] + v[s[i]]
    <2> DEFINE a == f[i - 1]
               b == s[i]
    <2>1. i \in 0..n /\ i - 1 \in 0..n
      BY <1>2
    <2>2. a \in Seq(S) /\ b \in Seq(S) /\ f[i] = a \o b
      BY <1>2, <1>3, <2>1
    <2>3. g[i] = Total(f[i], w) /\ g[i - 1] = Total(a, w) /\ v[b] = Total(b, w)
      BY <2>1, <2>2 DEF SumsUp
    <2> HIDE DEF a, b, g
    <2>4. Total(a \o b, w) = Total(a, w) + Total(b, w)
      BY <2>2, SumConcat
    <2>5. g[i] = g[i - 1] + v[b]
      BY <2>2, <2>3, <2>4
    <2> QED BY <2>5 DEF b
  <1>6. g[n] = Total(FlattenSeq(s), w)
    BY <1>1, <1>2
  <1> HIDE DEF g
  <1>7. Summing(g, s, v)
    BY <1>4, <1>5 DEF Summing, n
  <1>8. s \in Seq(S2) /\ v \in [S2 -> Nat]
    OBVIOUS
  <1> HIDE DEF S2
  <1>9. Total(s, v) = g[n]
    BY <1>7, <1>8, SumIs DEF n
  <1> QED BY <1>6, <1>9
=============================================================================
