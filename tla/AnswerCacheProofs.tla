------------------------- MODULE AnswerCacheProofs -------------------------
(***************************************************************************)
(* Proofs about api/cache.go for every set of keys and every capacity.     *)
(***************************************************************************)
EXTENDS AnswerCacheHistory, SequenceLemmas, FiniteSetTheorems

(* The inductive invariant.  Bounded alone is not inductive: that an       *)
(* eviction makes room needs the head of the order to be a stored key.     *)
CacheInv == TypeOK /\ OrderTracksValues /\ Bounded /\ IsFiniteSet(DOMAIN values)

(* RemoveFirst finds the place of a key that is there.                     *)
LEMMA RemoveFirstPlace ==
    ASSUME NEW s \in Seq(Keys), IsInjective(s), NEW i \in 1..Len(s)
    PROVE  RemoveFirst(s, s[i]) = RemoveAt(s, i)
PROOF
  <1>1. Len(s) \in Nat /\ DOMAIN s = 1..Len(s)
    BY LenProperties
  <1>2. {j \in 1..Len(s) : s[j] = s[i]} = {i}
    BY <1>1 DEF IsInjective
  <1>3. Min({i}) = i
    BY <1>1 DEF Min
  <1> QED BY <1>2, <1>3 DEF RemoveFirst, SelectInSeq

(* The list of an injective sequence is emptied of a key by RemoveFirst,   *)
(* and keeps all others: what touch relies on when it breaks out of its    *)
(* loop at the first occurrence.                                           *)
LEMMA RemoveFirstInjective ==
    ASSUME NEW s \in Seq(Keys), IsInjective(s), NEW key \in ToSet(s)
    PROVE  /\ RemoveFirst(s, key) \in Seq(Keys)
           /\ IsInjective(RemoveFirst(s, key))
           /\ ToSet(RemoveFirst(s, key)) = ToSet(s) \ {key}
PROOF
  <1>1. PICK i \in 1..Len(s) : s[i] = key
    BY DEF ToSet
  <1>2. RemoveFirst(s, key) = RemoveAt(s, i)
    BY <1>1, RemoveFirstPlace
  <1>3. RemoveAt(s, i) \in Seq(Keys)
    BY RemoveAtPlaces
  <1>4. IsInjective(RemoveAt(s, i)) /\ ToSet(RemoveAt(s, i)) = ToSet(s) \ {s[i]}
    BY RemoveAtInjective
  <1> QED BY <1>1, <1>2, <1>3, <1>4

(* Appending a new key to an injective list adds it to the set. *)
LEMMA AppendNewKey ==
    ASSUME NEW s \in Seq(Keys), IsInjective(s), NEW key \in Keys, key \notin ToSet(s)
    PROVE  /\ Append(s, key) \in Seq(Keys)
           /\ IsInjective(Append(s, key))
           /\ ToSet(Append(s, key)) = ToSet(s) \cup {key}
PROOF
  <1> DEFINE t == Append(s, key)
  <1>1. /\ t \in Seq(Keys) /\ DOMAIN t = 1..Len(s)+1 /\ DOMAIN s = 1..Len(s) /\ Len(s) \in Nat
        /\ t[Len(s)+1] = key
        /\ \A j \in 1..Len(s) : t[j] = s[j]
    OBVIOUS
  <1> HIDE DEF t
  <1>2. IsInjective(t)
    BY <1>1 DEF IsInjective, ToSet
  <1>3. ToSet(t) = ToSet(s) \cup {key}
    BY <1>1 DEF ToSet
  <1>4. t = Append(s, key)
    BY DEF t
  <1> QED BY <1>1, <1>2, <1>3, <1>4, Zenon

(* The tail of an injective list has lost its head and nothing else. *)
LEMMA TailInjective ==
    ASSUME NEW s \in Seq(Keys), IsInjective(s), s # << >>
    PROVE  /\ Head(s) \in ToSet(s)
           /\ Tail(s) \in Seq(Keys)
           /\ IsInjective(Tail(s))
           /\ ToSet(Tail(s)) = ToSet(s) \ {Head(s)}
PROOF
  <1> DEFINE t == Tail(s)
  <1>1. /\ t \in Seq(Keys) /\ Len(s) \in Nat \ {0} /\ Head(s) = s[1]
        /\ DOMAIN t = 1..Len(s)-1 /\ DOMAIN s = 1..Len(s)
        /\ \A j \in 1..Len(s)-1 : t[j] = s[j+1]
    BY HeadTailProperties, LenProperties, EmptySeq
  <1> HIDE DEF t
  <1>2. IsInjective(t)
    <2> SUFFICES ASSUME NEW j \in 1..Len(s)-1, NEW k \in 1..Len(s)-1, t[j] = t[k]
                 PROVE  j = k
      BY <1>1 DEF IsInjective
    <2>1. j+1 \in DOMAIN s /\ k+1 \in DOMAIN s /\ s[j+1] = s[k+1]
      BY <1>1
    <2>2. j+1 = k+1
      BY <2>1 DEF IsInjective
    <2> QED BY <2>2
  <1>3. ToSet(t) \subseteq ToSet(s) \ {s[1]}
    <2> SUFFICES ASSUME NEW j \in 1..Len(s)-1 PROVE t[j] \in ToSet(s) \ {s[1]}
      BY <1>1 DEF ToSet
    <2>1. t[j] = s[j+1] /\ j+1 \in DOMAIN s /\ 1 \in DOMAIN s /\ j+1 # 1
      BY <1>1
    <2>2. s[j+1] # s[1]
      BY <2>1 DEF IsInjective
    <2> QED BY <2>1, <2>2 DEF ToSet
  <1>4. ToSet(s) \ {s[1]} \subseteq ToSet(t)
    <2> SUFFICES ASSUME NEW k \in 2..Len(s) PROVE s[k] \in ToSet(t)
      BY <1>1 DEF ToSet
    <2>1. k - 1 \in DOMAIN t /\ t[k-1] = s[k]
      BY <1>1
    <2> QED BY <2>1 DEF ToSet
  <1>5. Head(s) \in ToSet(s)
    BY <1>1 DEF ToSet
  <1> QED BY <1>1, <1>2, <1>3, <1>4, <1>5 DEF t

(* touch keeps the list in step with the map when the key is stored. *)
LEMMA TouchTracks ==
    ASSUME TypeOK, OrderTracksValues, NEW key \in DOMAIN values
    PROVE  /\ Touch(key) \in Seq(Keys)
           /\ IsInjective(Touch(key))
           /\ ToSet(Touch(key)) = DOMAIN values
PROOF
  <1> DEFINE r == RemoveFirst(order, key)
  <1>1. r \in Seq(Keys) /\ IsInjective(r) /\ ToSet(r) = DOMAIN values \ {key}
    BY RemoveFirstInjective DEF TypeOK, OrderTracksValues
  <1>2. key \in Keys
    BY DEF TypeOK
  <1> HIDE DEF r
  <1>3. /\ Append(r, key) \in Seq(Keys)
        /\ IsInjective(Append(r, key))
        /\ ToSet(Append(r, key)) = ToSet(r) \cup {key}
    <2>1. key \notin ToSet(r)
      BY <1>1
    <2> QED BY <1>1, <1>2, <2>1, AppendNewKey, Zenon
  <1> QED BY <1>1, <1>3 DEF r, Touch

LEMMA InitInv == Init => CacheInv
PROOF
  <1> SUFFICES ASSUME Init PROVE CacheInv
    OBVIOUS
  <1>1. DOMAIN values = {} /\ DOMAIN order = {} /\ order \in Seq(Keys)
    BY EmptySeq DEF Init
  <1>2. IsFiniteSet({}) /\ Cardinality({}) = 0
    BY FS_EmptySet
  <1> QED
    BY <1>1, <1>2, CacheAssumption
    DEF CacheInv, TypeOK, OrderTracksValues, Bounded, ToSet, IsInjective

LEMMA GetInv ==
    ASSUME CacheInv, NEW key \in Keys, Get(key)
    PROVE  CacheInv'
PROOF
  <1>1. values' = values
    BY DEF Get
  <1>2. CASE key \in DOMAIN values
    BY <1>1, <1>2, TouchTracks
    DEF Get, CacheInv, TypeOK, OrderTracksValues, Bounded
  <1>3. CASE key \notin DOMAIN values
    BY <1>1, <1>3 DEF Get, CacheInv, TypeOK, OrderTracksValues, Bounded
  <1> QED BY <1>2, <1>3

LEMMA OverwriteInv ==
    ASSUME CacheInv, NEW key \in Keys, NEW value \in Answers, Overwrite(key, value)
    PROVE  CacheInv'
PROOF
  <1>1. DOMAIN values' = DOMAIN values /\ \A k \in DOMAIN values : values'[k] \in Answers
    BY DEF Overwrite, CacheInv, TypeOK
  <1> QED
    BY <1>1, TouchTracks DEF Overwrite, CacheInv, TypeOK, OrderTracksValues, Bounded

LEMMA InsertInv ==
    ASSUME CacheInv, NEW key \in Keys, NEW value \in Answers, Insert(key, value)
    PROVE  CacheInv'
PROOF
  <1> USE DEF CacheInv
  <1>1. /\ key \notin ToSet(order)
        /\ Cardinality(DOMAIN values) \in Nat
    BY FS_CardinalityType DEF Insert, OrderTracksValues
  <1>2. CASE Cardinality(DOMAIN values) >= Capacity
    <2>1. Cardinality(DOMAIN values) = Capacity
      BY <1>1, <1>2, CacheAssumption DEF Bounded
    <2>2. order # << >>
      <3>1. DOMAIN values # {}
        BY <2>1, FS_EmptySet, CacheAssumption
      <3> QED BY <3>1 DEF OrderTracksValues, ToSet
    <2>3. /\ Head(order) \in DOMAIN values
          /\ Tail(order) \in Seq(Keys)
          /\ IsInjective(Tail(order))
          /\ ToSet(Tail(order)) = DOMAIN values \ {Head(order)}
      BY <2>2, TailInjective DEF TypeOK, OrderTracksValues
    <2> DEFINE rest == DOMAIN values \ {Head(order)}
    <2>4. /\ DOMAIN values' = rest \cup {key}
          /\ \A k \in DOMAIN values' : values'[k] \in Answers
      BY <1>2, <2>3 DEF Insert, Store, TypeOK
    <2>5. /\ order' \in Seq(Keys)
          /\ IsInjective(order')
          /\ ToSet(order') = DOMAIN values'
      <3>1. order' = Append(Tail(order), key)
        BY <1>2 DEF Insert
      <3>2. key \notin ToSet(Tail(order))
        BY <1>1, <2>3 DEF OrderTracksValues
      <3>3. /\ Append(Tail(order), key) \in Seq(Keys)
            /\ IsInjective(Append(Tail(order), key))
            /\ ToSet(Append(Tail(order), key)) = ToSet(Tail(order)) \cup {key}
        BY <3>2, <2>3, AppendNewKey, Zenon
      <3> QED BY <3>1, <3>3, <2>3, <2>4, Zenon
    <2>6. IsFiniteSet(rest) /\ Cardinality(rest) = Capacity - 1
      BY <2>1, <2>3, FS_RemoveElement
    <2>7. IsFiniteSet(rest \cup {key}) /\ Cardinality(rest \cup {key}) <= Capacity
      <3>1. /\ IsFiniteSet(rest \cup {key})
            /\ Cardinality(rest \cup {key}) =
                 IF key \in rest THEN Cardinality(rest) ELSE Cardinality(rest) + 1
        BY <2>6, FS_AddElement, Zenon
      <3>2. CASE key \in rest
        BY <3>1, <3>2, <2>6, CacheAssumption
      <3>3. CASE key \notin rest
        BY <3>1, <3>3, <2>6, CacheAssumption
      <3> QED BY <3>2, <3>3
    <2> QED
      BY <2>4, <2>5, <2>7 DEF TypeOK, OrderTracksValues, Bounded
  <1>3. CASE Cardinality(DOMAIN values) < Capacity
    <2>1. /\ DOMAIN values' = DOMAIN values \cup {key}
          /\ \A k \in DOMAIN values' : values'[k] \in Answers
          /\ order' = Append(order, key)
      BY <1>1, <1>3, CacheAssumption DEF Insert, Store, TypeOK
    <2>2. /\ order' \in Seq(Keys)
          /\ IsInjective(order')
          /\ ToSet(order') = DOMAIN values'
      <3>1. /\ Append(order, key) \in Seq(Keys)
            /\ IsInjective(Append(order, key))
            /\ ToSet(Append(order, key)) = ToSet(order) \cup {key}
        BY <1>1, AppendNewKey, Zenon DEF TypeOK, OrderTracksValues
      <3> QED BY <3>1, <2>1, Zenon DEF OrderTracksValues
    <2>3. /\ IsFiniteSet(DOMAIN values \cup {key})
          /\ Cardinality(DOMAIN values \cup {key}) <= Capacity
      <3>1. /\ IsFiniteSet(DOMAIN values \cup {key})
            /\ Cardinality(DOMAIN values \cup {key}) = Cardinality(DOMAIN values) + 1
        BY FS_AddElement, Zenon DEF Insert
      <3> QED BY <3>1, <1>1, <1>3, CacheAssumption
    <2> QED
      BY <2>1, <2>2, <2>3 DEF TypeOK, OrderTracksValues, Bounded
  <1> QED BY <1>1, <1>2, <1>3, CacheAssumption

LEMMA StepInv == CacheInv /\ [Next]_vars => CacheInv'
PROOF
  <1> SUFFICES ASSUME CacheInv, [Next]_vars PROVE CacheInv'
    OBVIOUS
  <1>1. ASSUME NEW key \in Keys, Get(key) PROVE CacheInv'
    BY <1>1, GetInv
  <1>2. ASSUME NEW key \in Keys, NEW value \in Answers, Set(key, value) PROVE CacheInv'
    BY <1>2, OverwriteInv, InsertInv DEF Set
  <1>3. CASE UNCHANGED vars
    BY <1>3 DEF vars, CacheInv, TypeOK, OrderTracksValues, Bounded
  <1> QED BY <1>1, <1>2, <1>3 DEF Next

(* The map and the list stay in step for ever, whatever the calls. *)
THEOREM CacheInvariant == Spec => []CacheInv
PROOF BY InitInv, StepInv, PTL DEF Spec

(* What is stored is an answer, never the zero value of a miss. *)
THEOREM CacheTypeCorrect == Spec => []TypeOK
PROOF
  <1>1. CacheInv => TypeOK
    BY DEF CacheInv
  <1> QED BY <1>1, CacheInvariant, PTL

(* Every stored key is listed for eviction exactly once. *)
THEOREM OrderTracksValuesAlways == Spec => []OrderTracksValues
PROOF
  <1>1. CacheInv => OrderTracksValues
    BY DEF CacheInv
  <1> QED BY <1>1, CacheInvariant, PTL

(* The cache never outgrows its capacity, for every capacity above zero. *)
THEOREM BoundedAlways == Spec => []Bounded
PROOF
  <1>1. CacheInv => Bounded
    BY DEF CacheInv
  <1> QED BY <1>1, CacheInvariant, PTL

-----------------------------------------------------------------------------
(* The refinement.  A sequence of entries with different keys, as `recent` *)
(* is, and what becomes of it when a key is taken out.                     *)
Distinct(s) == \A i, j \in DOMAIN s : s[i].key = s[j].key => i = j
Names(s, key) == \E i \in DOMAIN s : s[i].key = key

LEMMA WithoutPlace ==
    ASSUME NEW S, NEW s \in Seq(S), Distinct(s), NEW i \in 1..Len(s)
    PROVE  Recent!Without(s, s[i].key) = RemoveAt(s, i)
PROOF
  <1> DEFINE key == s[i].key
  <1>1. Len(s) \in Nat /\ DOMAIN s = 1..Len(s)
    BY LenProperties
  <1>2. {j \in 1..Len(s) : s[j].key = key} = {i}
    BY <1>1 DEF Distinct
  <1>3. Recent!Min({i}) = i
    BY <1>1 DEF Recent!Min
  <1>4. \E j \in 1..Len(s) : s[j].key = key
    OBVIOUS
  <1> HIDE DEF key
  <1>5. Recent!Without(s, key) = Recent!RemoveAt(s, i)
    BY <1>2, <1>3, <1>4 DEF Recent!Without, Recent!RemoveFirstMatch, Recent!SelectInSeq
  <1> QED BY <1>5 DEF Recent!RemoveAt, RemoveAt, key

LEMMA WithoutAbsent ==
    ASSUME NEW S, NEW s \in Seq(S), NEW key, ~Names(s, key)
    PROVE  Recent!Without(s, key) = s
PROOF
  <1>1. DOMAIN s = 1..Len(s)
    BY LenProperties
  <1>2. ~ \E j \in 1..Len(s) : s[j].key = key
    BY <1>1 DEF Names
  <1> QED BY <1>2 DEF Recent!Without, Recent!RemoveFirstMatch

(* What is left has no entry of that key, and nothing new. *)
LEMMA WithoutKey ==
    ASSUME NEW S, NEW s \in Seq(S), Distinct(s), NEW key
    PROVE  LET t == Recent!Without(s, key) IN
           /\ t \in Seq(S) /\ Distinct(t) /\ ~Names(t, key)
           /\ \A other : Names(t, other) => Names(s, other)
PROOF
  <1>1. CASE ~Names(s, key)
    BY <1>1, WithoutAbsent
  <1>2. CASE Names(s, key)
    <2>0. Len(s) \in Nat /\ DOMAIN s = 1..Len(s)
      BY LenProperties
    <2>1. PICK k \in 1..Len(s) : s[k].key = key
      BY <1>2, <2>0 DEF Names
    <2> DEFINE t == RemoveAt(s, k)
    <2>2. /\ t \in Seq(S) /\ DOMAIN t = 1..Len(s) - 1
          /\ \A i \in 1..Len(s) - 1 : t[i] = IF i < k THEN s[i] ELSE s[i + 1]
      BY RemoveAtPlaces, LenProperties
    <2>3. Recent!Without(s, key) = t
      BY <2>1, WithoutPlace
    <2> HIDE DEF t
    <2> DEFINE at(n) == IF n < k THEN n ELSE n + 1
    <2>4. ASSUME NEW i \in DOMAIN t PROVE at(i) \in DOMAIN s /\ t[i] = s[at(i)] /\ at(i) # k
      BY <2>0, <2>2
    <2>5. ASSUME NEW i \in DOMAIN t, NEW j \in DOMAIN t, t[i].key = t[j].key PROVE i = j
      <3>1. at(i) = at(j)
        BY <2>4, <2>5 DEF Distinct
      <3> QED BY <2>0, <2>2, <3>1
    <2>6. ASSUME NEW i \in DOMAIN t PROVE t[i].key # key
      BY <2>0, <2>1, <2>4 DEF Distinct
    <2>7. ASSUME NEW other, Names(t, other) PROVE Names(s, other)
      BY <2>4, <2>7 DEF Names
    <2> QED BY <2>2, <2>3, <2>5, <2>6, <2>7 DEF Distinct, Names
  <1> QED BY <1>1, <1>2

LEMMA AppendDistinct ==
    ASSUME NEW S, NEW s \in Seq(S), Distinct(s), NEW entry \in S, ~Names(s, entry.key)
    PROVE  Append(s, entry) \in Seq(S) /\ Distinct(Append(s, entry))
PROOF
  <1> DEFINE t == Append(s, entry)
  <1>1. /\ t \in Seq(S) /\ DOMAIN t = 1..Len(s)+1 /\ DOMAIN s = 1..Len(s) /\ Len(s) \in Nat
        /\ t[Len(s)+1] = entry
        /\ \A j \in 1..Len(s) : t[j] = s[j]
    OBVIOUS
  <1> HIDE DEF t
  <1>2. ASSUME NEW i \in DOMAIN t, NEW j \in DOMAIN t, t[i].key = t[j].key PROVE i = j
    <2>1. CASE i \in 1..Len(s) /\ j \in 1..Len(s)
      BY <1>1, <1>2, <2>1 DEF Distinct
    <2>2. CASE i = Len(s) + 1 /\ j \in 1..Len(s)
      BY <1>1, <1>2, <2>2 DEF Names
    <2>3. CASE i \in 1..Len(s) /\ j = Len(s) + 1
      BY <1>1, <1>2, <2>3 DEF Names
    <2> QED BY <1>1, <2>1, <2>2, <2>3
  <1> QED BY <1>1, <1>2 DEF Distinct, t

LEMMA ConcatAppend ==
    ASSUME NEW S, NEW a \in Seq(S), NEW b \in Seq(S), NEW e \in S
    PROVE  a \o Append(b, e) = Append(a \o b, e)
OBVIOUS

LEMMA DistinctPrefix ==
    ASSUME NEW S, NEW a \in Seq(S), NEW b \in Seq(S), Distinct(a \o b)
    PROVE  Distinct(a)
PROOF
  <1> DEFINE c == a \o b
  <1>1. /\ c \in Seq(S) /\ Len(c) = Len(a) + Len(b) /\ Len(a) \in Nat /\ Len(b) \in Nat
        /\ DOMAIN a = 1..Len(a) /\ DOMAIN c = 1..Len(c)
        /\ \A i \in 1..Len(a) + Len(b) : c[i] = IF i <= Len(a) THEN a[i] ELSE b[i - Len(a)]
    BY ConcatProperties, LenProperties
  <1> HIDE DEF c
  <1> SUFFICES ASSUME NEW i \in 1..Len(a), NEW j \in 1..Len(a), a[i].key = a[j].key PROVE i = j
    BY <1>1 DEF Distinct
  <1>2. i \in DOMAIN c /\ j \in DOMAIN c /\ c[i] = a[i] /\ c[j] = a[j]
    BY <1>1
  <1> QED BY <1>2 DEF Distinct, c

LEMMA WithoutLeft ==
    ASSUME NEW S, NEW a \in Seq(S), NEW b \in Seq(S), Distinct(a \o b), NEW key, ~Names(b, key)
    PROVE  Recent!Without(a \o b, key) = Recent!Without(a, key) \o b
PROOF
  <1> DEFINE c == a \o b
  <1>1. /\ c \in Seq(S) /\ Len(c) = Len(a) + Len(b) /\ Len(a) \in Nat /\ Len(b) \in Nat
        /\ DOMAIN a = 1..Len(a) /\ DOMAIN b = 1..Len(b) /\ DOMAIN c = 1..Len(c)
        /\ \A i \in 1..Len(a) + Len(b) : c[i] = IF i <= Len(a) THEN a[i] ELSE b[i - Len(a)]
    BY ConcatProperties, LenProperties
  <1> HIDE DEF c
  <1>2. CASE Names(a, key)
    <2>1. PICK k \in 1..Len(a) : a[k].key = key
      BY <1>1, <1>2 DEF Names
    <2>2. k \in 1..Len(c) /\ c[k] = a[k]
      BY <1>1
    <2>3. Distinct(a)
      BY DistinctPrefix
    <2>4. Recent!Without(c, key) = RemoveAt(c, k)
      BY <1>1, <2>1, <2>2, WithoutPlace DEF c
    <2>5. Recent!Without(a, key) = RemoveAt(a, k)
      BY <2>1, <2>3, WithoutPlace
    <2> QED BY <2>4, <2>5, RemoveAtLeft DEF c
  <1>3. CASE ~Names(a, key)
    <2>1. ~Names(c, key)
      <3> SUFFICES ASSUME NEW i \in 1..Len(c), c[i].key = key PROVE FALSE
        BY <1>1 DEF Names
      <3>1. CASE i <= Len(a)
        BY <1>1, <1>3, <3>1, SMTT(30) DEF Names
      <3>2. CASE i > Len(a)
        <4>1. i - Len(a) \in 1..Len(b) /\ c[i] = b[i - Len(a)]
          BY <1>1, <3>2
        <4> QED BY <1>1, <4>1 DEF Names
      <3> QED BY <1>1, <3>1, <3>2
    <2>2. Recent!Without(c, key) = c /\ Recent!Without(a, key) = a
      BY <1>1, <1>3, <2>1, WithoutAbsent
    <2> QED BY <2>2 DEF c
  <1> QED BY <1>2, <1>3 DEF c

LEMMA WithoutRight ==
    ASSUME NEW S, NEW a \in Seq(S), NEW b \in Seq(S), Distinct(a \o b), NEW k \in 1..Len(b)
    PROVE  Recent!Without(a \o b, b[k].key) = a \o RemoveAt(b, k)
PROOF
  <1> DEFINE c == a \o b
  <1>1. /\ c \in Seq(S) /\ Len(c) = Len(a) + Len(b) /\ Len(a) \in Nat /\ Len(b) \in Nat
        /\ \A i \in 1..Len(a) + Len(b) : c[i] = IF i <= Len(a) THEN a[i] ELSE b[i - Len(a)]
    BY ConcatProperties, LenProperties
  <1> HIDE DEF c
  <1>2. Len(a) + k \in 1..Len(c) /\ c[Len(a) + k] = b[k]
    <2>1. Len(a) + k \in 1..Len(a) + Len(b) /\ ~(Len(a) + k <= Len(a)) /\ Len(a) + k - Len(a) = k
      BY <1>1
    <2> QED BY <1>1, <2>1
  <1>3. Recent!Without(c, c[Len(a) + k].key) = RemoveAt(c, Len(a) + k)
    BY <1>1, <1>2, WithoutPlace DEF c
  <1> QED BY <1>2, <1>3, RemoveAtRight DEF c

(* The entries of a list of keys under a map. *)
Pair(key, value) == [key |-> key, value |-> value]
Listing(o, v) == [i \in DOMAIN o |-> Pair(o[i], v[o[i]])]
PairsOf(v) == [key : Keys, value : {v[key] : key \in Keys}]

LEMMA ListingPlaces ==
    ASSUME NEW o \in Seq(Keys), NEW v
    PROVE  /\ Len(Listing(o, v)) = Len(o) /\ DOMAIN Listing(o, v) = 1..Len(o)
           /\ \A i \in 1..Len(o) : Listing(o, v)[i] = Pair(o[i], v[o[i]])
           /\ Listing(o, v) \in Seq(PairsOf(v))
PROOF
  <1> DEFINE l == Listing(o, v)
             S == PairsOf(v)
  <1>1. Len(o) \in Nat /\ DOMAIN o = 1..Len(o) /\ \A i \in 1..Len(o) : o[i] \in Keys
    BY LenProperties, ElementOfSeq
  <1>2. l = [i \in 1..Len(o) |-> Pair(o[i], v[o[i]])]
    BY <1>1 DEF Listing
  <1>3. \A i \in 1..Len(o) : Pair(o[i], v[o[i]]) \in S
    BY <1>1 DEF Pair, PairsOf
  <1> HIDE DEF S
  <1>4. l \in [1..Len(o) -> S]
    BY <1>2, <1>3
  <1>5. l \in Seq(S)
    BY <1>1, <1>4, SeqDef
  <1>6. Len(l) = Len(o) /\ DOMAIN l = 1..Len(o)
    BY <1>1, <1>4, <1>5
  <1>7. \A i \in 1..Len(o) : l[i] = Pair(o[i], v[o[i]])
    BY <1>2
  <1> HIDE DEF l
  <1> QED BY <1>5, <1>6, <1>7 DEF l, S

LEMMA ListingSame ==
    ASSUME NEW o \in Seq(Keys), NEW v, NEW w, \A key \in ToSet(o) : v[key] = w[key]
    PROVE  Listing(o, v) = Listing(o, w)
PROOF
  <1>1. \A i \in DOMAIN o : v[o[i]] = w[o[i]]
    BY DEF ToSet
  <1> QED BY <1>1 DEF Listing

LEMMA ListingRemove ==
    ASSUME NEW o \in Seq(Keys), NEW v, NEW k \in 1..Len(o)
    PROVE  Listing(RemoveAt(o, k), v) = RemoveAt(Listing(o, v), k)
PROOF
  <1> DEFINE S == PairsOf(v)
             p == RemoveAt(o, k)
             l == Listing(p, v)
             m == Listing(o, v)
             r == RemoveAt(m, k)
  <1>0. Len(o) \in Nat
    BY LenProperties
  <1>1. /\ p \in Seq(Keys) /\ Len(p) = Len(o) - 1
        /\ \A i \in 1..Len(o) - 1 : p[i] = IF i < k THEN o[i] ELSE o[i + 1]
    BY RemoveAtPlaces
  <1>2. /\ m \in Seq(S) /\ Len(m) = Len(o)
        /\ \A i \in 1..Len(o) : m[i] = Pair(o[i], v[o[i]])
    BY ListingPlaces, Zenon
  <1> HIDE DEF p
  <1>3. /\ l \in Seq(S) /\ Len(l) = Len(p)
        /\ \A i \in 1..Len(p) : l[i] = Pair(p[i], v[p[i]])
    BY <1>1, ListingPlaces, Zenon
  <1> HIDE DEF m, S
  <1>4. /\ r \in Seq(S) /\ Len(r) = Len(m) - 1
        /\ \A i \in 1..Len(m) - 1 : r[i] = IF i < k THEN m[i] ELSE m[i + 1]
    BY <1>2, RemoveAtPlaces
  <1> HIDE DEF l, r
  <1>5. ASSUME NEW i \in 1..Len(o) - 1 PROVE l[i] = r[i]
    <2>1. CASE i < k
      <3>1. i \in 1..Len(o) /\ i \in 1..Len(p) /\ i \in 1..Len(m) - 1
        BY <1>0, <1>1, <1>2
      <3> QED BY <1>1, <1>2, <1>3, <1>4, <2>1, <3>1
    <2>2. CASE ~(i < k)
      <3>1. i + 1 \in 1..Len(o) /\ i \in 1..Len(p) /\ i \in 1..Len(m) - 1
        BY <1>0, <1>1, <1>2
      <3> QED BY <1>1, <1>2, <1>3, <1>4, <2>2, <3>1
    <2> QED BY <2>1, <2>2
  <1>6. l = r
    <2>1. Len(l) = Len(r) /\ 1..Len(l) = 1..Len(o) - 1
      BY <1>1, <1>2, <1>3, <1>4
    <2> QED BY <1>3, <1>4, <1>5, <2>1, SeqEqual
  <1> QED BY <1>6 DEF l, r, m, p

LEMMA ListingAppend ==
    ASSUME NEW o \in Seq(Keys), NEW v, NEW key \in Keys
    PROVE  Listing(Append(o, key), v) = Append(Listing(o, v), Pair(key, v[key]))
PROOF
  <1> DEFINE S == PairsOf(v)
             p == Append(o, key)
             l == Listing(p, v)
             m == Listing(o, v)
             r == Append(m, Pair(key, v[key]))
  <1>0. Len(o) \in Nat
    BY LenProperties
  <1>1. /\ p \in Seq(Keys) /\ Len(p) = Len(o) + 1 /\ p[Len(o) + 1] = key
        /\ \A i \in 1..Len(o) : p[i] = o[i]
    OBVIOUS
  <1>2. /\ m \in Seq(S) /\ Len(m) = Len(o)
        /\ \A i \in 1..Len(o) : m[i] = Pair(o[i], v[o[i]])
    BY ListingPlaces
  <1> HIDE DEF p
  <1>3. /\ l \in Seq(S) /\ Len(l) = Len(p)
        /\ \A i \in 1..Len(p) : l[i] = Pair(p[i], v[p[i]])
    BY <1>1, ListingPlaces
  <1>4. Pair(key, v[key]) \in S
    BY DEF Pair, PairsOf
  <1> HIDE DEF m, S
  <1>5. /\ r \in Seq(S) /\ Len(r) = Len(m) + 1 /\ r[Len(m) + 1] = Pair(key, v[key])
        /\ \A i \in 1..Len(m) : r[i] = m[i]
    BY <1>2, <1>4
  <1> HIDE DEF l, r
  <1>6. ASSUME NEW i \in 1..Len(o) + 1 PROVE l[i] = r[i]
    <2>1. CASE i = Len(o) + 1
      BY <1>0, <1>1, <1>2, <1>3, <1>5, <2>1
    <2>2. CASE i \in 1..Len(o)
      BY <1>0, <1>1, <1>2, <1>3, <1>5, <2>2, SMTT(40)
    <2> QED BY <1>0, <2>1, <2>2
  <1>7. l = r
    <2>1. Len(l) = Len(r) /\ 1..Len(l) = 1..Len(o) + 1
      BY <1>1, <1>2, <1>3, <1>5
    <2> QED BY <1>3, <1>5, <1>6, <2>1, SeqEqual
  <1> QED BY <1>7 DEF l, r, m, p

(* As many keys are listed as stored. *)
LEMMA ListedAsStored ==
    ASSUME CacheInv
    PROVE  Len(order) = Cardinality(DOMAIN values)
PROOF
  <1>1. Len(order) \in Nat /\ DOMAIN order = 1..Len(order)
    BY LenProperties DEF CacheInv, TypeOK
  <1>2. order \in [1..Len(order) -> DOMAIN values]
    BY <1>1 DEF CacheInv, TypeOK, OrderTracksValues, ToSet
  <1>3. order \in Bijection(1..Len(order), DOMAIN values)
    BY <1>1, <1>2
    DEF CacheInv, OrderTracksValues, ToSet, IsInjective, Bijection, Injection, Surjection
  <1>4. ExistsBijection(1..Len(order), DOMAIN values)
    BY <1>3, Zenon DEF ExistsBijection
  <1>5. IsFiniteSet(1..Len(order)) /\ Cardinality(1..Len(order)) = Len(order)
    <2>0. 1 \in Int /\ Len(order) \in Int
      BY <1>1
    <2>1. /\ IsFiniteSet(1..Len(order))
          /\ Cardinality(1..Len(order)) = IF 1 > Len(order) THEN 0 ELSE Len(order) - 1 + 1
      BY <2>0, FS_Interval, Zenon
    <2> QED BY <1>1, <2>1
  <1> QED BY <1>4, <1>5, FS_Bijection, Zenon

(* The inductive invariant of the history: every key has one place in the  *)
(* sequence of all that was stored, and nothing is dropped from a cache    *)
(* that is not full, so that what is kept are the last `Capacity` places.  *)
Recents == evicted \o ListedEntries
HistoryInv ==
    /\ CacheInv
    /\ evicted \in Seq(Recent!Entries)
    /\ Distinct(Recents)
    /\ evicted # << >> => Len(order) = Capacity

LEMMA RecentsPlaces ==
    ASSUME HistoryInv
    PROVE  /\ ListedEntries = Listing(order, values) /\ ListedEntries \in Seq(Recent!Entries)
           /\ Len(ListedEntries) = Len(order) /\ Len(order) \in Nat /\ Len(evicted) \in Nat
           /\ DOMAIN order = 1..Len(order)
           /\ \A i \in 1..Len(order) :
                  order[i] \in DOMAIN values /\ ListedEntries[i] = Pair(order[i], values[order[i]])
           /\ Recents \in Seq(Recent!Entries) /\ Len(Recents) = Len(evicted) + Len(order)
           /\ \A i \in 1..Len(evicted) + Len(order) :
                  Recents[i] = IF i <= Len(evicted) THEN evicted[i] ELSE ListedEntries[i - Len(evicted)]
PROOF
  <1> DEFINE l == ListedEntries
  <1>1. l = Listing(order, values)
    BY DEF ListedEntries, Listing, Entry, Pair
  <1>2. order \in Seq(Keys) /\ Len(order) \in Nat /\ Len(evicted) \in Nat /\ DOMAIN order = 1..Len(order)
    BY LenProperties DEF HistoryInv, CacheInv, TypeOK
  <1>3. /\ Len(l) = Len(order) /\ DOMAIN l = 1..Len(order) /\ l \in Seq(PairsOf(values))
        /\ \A i \in 1..Len(order) : l[i] = Pair(order[i], values[order[i]])
    BY <1>1, <1>2, ListingPlaces, Zenon
  <1>4. \A i \in 1..Len(order) : order[i] \in DOMAIN values
    BY <1>2 DEF HistoryInv, CacheInv, OrderTracksValues, ToSet
  <1> HIDE DEF l
  <1>5. \A i \in 1..Len(l) : l[i] \in Recent!Entries
    BY <1>2, <1>3, <1>4 DEF HistoryInv, CacheInv, TypeOK, Pair, Recent!Entries
  <1>6. l \in Seq(Recent!Entries)
    BY <1>2, <1>3, <1>5, IsASeq
  <1>7. evicted \in Seq(Recent!Entries)
    BY DEF HistoryInv
  <1> DEFINE r == evicted \o l
  <1>8. /\ r \in Seq(Recent!Entries) /\ Len(r) = Len(evicted) + Len(l)
        /\ \A i \in 1..Len(evicted) + Len(l) :
               r[i] = IF i <= Len(evicted) THEN evicted[i] ELSE l[i - Len(evicted)]
    BY <1>6, <1>7, ConcatProperties
  <1>9. r = Recents
    BY DEF Recents, l
  <1> HIDE DEF r
  <1> QED BY <1>1, <1>2, <1>3, <1>4, <1>6, <1>8, <1>9 DEF l

(* What is kept is what is listed. *)
LEMMA KeptIsListed ==
    ASSUME HistoryInv
    PROVE  /\ \A i \in 1..Len(order) : ListedEntries[i] \in Recent!Kept
           /\ \A entry \in Recent!Kept : entry.key \in DOMAIN values
PROOF
  <1> DEFINE from == Len(Recents) - Capacity
  <1>1. /\ Len(order) \in Nat /\ Len(evicted) \in Nat /\ Len(order) <= Capacity /\ Capacity \in Nat
        /\ Len(Recents) = Len(evicted) + Len(order)
    BY RecentsPlaces, ListedAsStored, CacheAssumption DEF HistoryInv, CacheInv, Bounded
  <1>2. Recent!Kept = {Recents[i] : i \in {j \in 1..Len(Recents) : j > from}}
    BY RecentsPlaces, LenProperties DEF Recent!Kept, Recents
  <1>0. \A i \in 1..Len(order) : ListedEntries[i].key \in DOMAIN values
    <2> SUFFICES ASSUME NEW i \in 1..Len(order) PROVE ListedEntries[i].key \in DOMAIN values
      OBVIOUS
    <2>1. order[i] \in DOMAIN values /\ ListedEntries[i] = Pair(order[i], values[order[i]])
      BY RecentsPlaces, Zenon
    <2> QED BY <2>1 DEF Pair
  <1>3. CASE evicted = << >>
    <2>1. Len(evicted) = 0 /\ from <= 0
      BY <1>1, <1>3, EmptySeq
    <2>2. \A i \in 1..Len(order) : Recents[i] = ListedEntries[i]
      BY <1>1, <2>1, RecentsPlaces
    <2>3. Recent!Kept = {ListedEntries[i] : i \in 1..Len(order)}
      <3>1. 1..Len(Recents) = 1..Len(order) /\ {j \in 1..Len(order) : j > from} = 1..Len(order)
        BY <1>1, <2>1
      <3> QED BY <1>2, <2>2, <3>1
    <2> QED BY <1>0, <2>3
  <1>4. CASE evicted # << >>
    <2>1. from = Len(evicted)
      BY <1>1, <1>4 DEF HistoryInv
    <2>2. ASSUME NEW i \in 1..Len(order)
          PROVE  i + Len(evicted) \in 1..Len(Recents) /\ Recents[i + Len(evicted)] = ListedEntries[i]
      <3>1. i + Len(evicted) \in 1..Len(evicted) + Len(order) /\ ~(i + Len(evicted) <= Len(evicted))
            /\ i + Len(evicted) - Len(evicted) = i
        BY <1>1
      <3> QED BY <1>1, <3>1, RecentsPlaces
    <2>3. \A i \in 1..Len(order) : ListedEntries[i] \in Recent!Kept
      BY <1>1, <1>2, <2>1, <2>2
    <2>4. ASSUME NEW j \in 1..Len(Recents), j > from PROVE Recents[j].key \in DOMAIN values
      <3>1. j - Len(evicted) \in 1..Len(order) /\ Recents[j] = ListedEntries[j - Len(evicted)]
        BY <1>1, <2>1, <2>4, RecentsPlaces
      <3> QED BY <1>0, <3>1
    <2> QED BY <1>2, <2>3, <2>4
  <1> QED BY <1>3, <1>4

(* A step that takes the entry of a key out and puts a new one last keeps  *)
(* every key in one place.                                                 *)
LEMMA StaysDistinct ==
    ASSUME HistoryInv, NEW key, NEW entry \in Recent!Entries, entry.key = key,
           Recents' = Append(Recent!Without(Recents, key), entry)
    PROVE  Distinct(Recents)'
PROOF
  <1> DEFINE t == Recent!Without(Recents, key)
  <1>1. t \in Seq(Recent!Entries) /\ Distinct(t) /\ ~Names(t, entry.key)
    BY RecentsPlaces, WithoutKey, Zenon DEF HistoryInv
  <1> HIDE DEF t
  <1>2. Distinct(Append(t, entry))
    BY <1>1, AppendDistinct, Zenon
  <1> QED BY <1>2 DEF t, Distinct

(* A hit: the entry goes to the end, the rest stays where it was. *)
LEMMA HitRecents ==
    ASSUME HistoryInv, CacheInv', NEW key \in Keys, HGet(key), key \in DOMAIN values
    PROVE  LET entry == Pair(key, values[key]) IN
           /\ entry \in Recent!Kept /\ entry \in Recent!Entries
           /\ Recents' = Append(Recent!Without(Recents, key), entry)
           /\ Len(order') = Len(order)
PROOF
  <1> DEFINE entry == Pair(key, values[key])
             l == ListedEntries
  <1>0. order \in Seq(Keys) /\ IsInjective(order) /\ key \in ToSet(order)
    BY DEF HistoryInv, CacheInv, TypeOK, OrderTracksValues
  <1>1. PICK k \in 1..Len(order) : order[k] = key
    BY <1>0, RecentsPlaces DEF ToSet
  <1>2. order' = Append(RemoveAt(order, k), key)
    BY <1>0, <1>1, RemoveFirstPlace DEF HGet, Get, Touch
  <1>3. /\ l = Listing(order, values) /\ l \in Seq(Recent!Entries) /\ l[k] = entry
        /\ Len(l) = Len(order)
    BY <1>1, RecentsPlaces
  <1>4. entry \in Recent!Kept
    BY <1>1, <1>3, KeptIsListed
  <1>5. entry \in Recent!Entries
    BY <1>1, <1>3, ElementOfSeq
  <1>6. RemoveAt(order, k) \in Seq(Keys) /\ Len(RemoveAt(order, k)) = Len(order) - 1
    BY <1>0, <1>1, RemoveAtPlaces
  <1>7. Listing(order', values) = Append(RemoveAt(l, k), entry)
    <2>1. Listing(order', values) = Append(Listing(RemoveAt(order, k), values), entry)
      BY <1>2, <1>6, ListingAppend
    <2>2. Listing(RemoveAt(order, k), values) = RemoveAt(Listing(order, values), k)
      BY <1>0, ListingRemove
    <2> QED BY <1>3, <2>1, <2>2
  <1>8. ListedEntries' = Listing(order', values) /\ evicted' = evicted
    BY DEF HGet, Get, ListedEntries, Listing, Entry, Pair
  <1>9. Recents' = evicted \o Append(RemoveAt(l, k), entry)
    BY <1>7, <1>8 DEF Recents
  <1>10. RemoveAt(l, k) \in Seq(Recent!Entries) /\ evicted \in Seq(Recent!Entries)
    BY <1>1, <1>3, RemoveAtPlaces DEF HistoryInv
  <1>11. evicted \o Append(RemoveAt(l, k), entry) = Append(evicted \o RemoveAt(l, k), entry)
    BY <1>5, <1>10, ConcatAppend
  <1>12. Recent!Without(Recents, key) = evicted \o RemoveAt(l, k)
    <2>1. Distinct(evicted \o l) /\ l[k].key = key
      BY <1>3 DEF HistoryInv, Recents, Pair
    <2>2. Recent!Without(evicted \o l, l[k].key) = evicted \o RemoveAt(l, k)
      BY <1>1, <1>3, <1>10, <2>1, WithoutRight
    <2> QED BY <2>1, <2>2 DEF Recents
  <1>13. Len(order') = Len(order)
    <2>1. Len(order) \in Nat
      BY RecentsPlaces
    <2>2. Len(Append(RemoveAt(order, k), key)) = Len(RemoveAt(order, k)) + 1
      BY <1>6
    <2> QED BY <1>2, <1>6, <2>1, <2>2
  <1> HIDE DEF entry
  <1> QED BY <1>4, <1>5, <1>9, <1>11, <1>12, <1>13 DEF entry

(* A set of a stored key: its entry is replaced, and goes to the end. *)
LEMMA OverwriteRecents ==
    ASSUME HistoryInv, NEW key \in Keys, NEW value \in Answers,
           HSet(key, value), Overwrite(key, value)
    PROVE  /\ Recents' = Append(Recent!Without(Recents, key), Pair(key, value))
           /\ Len(order') = Len(order) /\ evicted' = evicted
PROOF
  <1> DEFINE entry == Pair(key, value)
             l == ListedEntries
  <1>0. /\ order \in Seq(Keys) /\ IsInjective(order) /\ key \in ToSet(order)
        /\ evicted \in Seq(Recent!Entries)
    BY DEF HistoryInv, CacheInv, TypeOK, OrderTracksValues, Overwrite
  <1>1. PICK k \in 1..Len(order) : order[k] = key
    BY <1>0, RecentsPlaces DEF ToSet
  <1>2. order' = Append(RemoveAt(order, k), key)
    BY <1>0, <1>1, RemoveFirstPlace DEF Overwrite, Touch
  <1>3. /\ l = Listing(order, values) /\ l \in Seq(Recent!Entries) /\ Len(l) = Len(order)
        /\ l[k].key = key
    <2>1. l[k] = Pair(order[k], values[order[k]])
      BY <1>1, RecentsPlaces
    <2>2. l[k].key = key
      BY <1>1, <2>1 DEF Pair
    <2> QED BY <2>2, RecentsPlaces
  <1>4. entry \in Recent!Entries
    BY DEF Pair, Recent!Entries
  <1>5. /\ values'[key] = value /\ DOMAIN values' = DOMAIN values
        /\ \A other \in ToSet(order) \ {key} : values'[other] = values[other]
    BY DEF Overwrite, HistoryInv, CacheInv, OrderTracksValues
  <1>6. /\ RemoveAt(order, k) \in Seq(Keys) /\ Len(RemoveAt(order, k)) = Len(order) - 1
        /\ ToSet(RemoveAt(order, k)) = ToSet(order) \ {key}
    BY <1>0, <1>1, RemoveAtPlaces, RemoveAtInjective
  <1>7. Listing(order', values') = Append(RemoveAt(l, k), entry)
    <2>1. Listing(order', values') = Append(Listing(RemoveAt(order, k), values'), entry)
      BY <1>2, <1>5, <1>6, ListingAppend
    <2>2. Listing(RemoveAt(order, k), values') = Listing(RemoveAt(order, k), values)
      BY <1>5, <1>6, ListingSame
    <2>3. Listing(RemoveAt(order, k), values) = RemoveAt(Listing(order, values), k)
      BY <1>0, ListingRemove
    <2> QED BY <1>3, <2>1, <2>2, <2>3
  <1>8. ListedEntries' = Listing(order', values')
    BY DEF ListedEntries, Listing, Entry, Pair
  <1>9. Recent!Without(Recents, key) = evicted \o RemoveAt(l, k)
    <2>1. Distinct(evicted \o l)
      BY DEF HistoryInv, Recents
    <2>2. Recent!Without(evicted \o l, l[k].key) = evicted \o RemoveAt(l, k)
      BY <1>0, <1>1, <1>3, <2>1, WithoutRight
    <2> QED BY <1>3, <2>2 DEF Recents
  <1>10. evicted' = evicted
    <2>1. ~Names(evicted, key)
      <3> SUFFICES ASSUME NEW i \in DOMAIN evicted, evicted[i].key = key PROVE FALSE
        BY DEF Names
      <3>1. /\ i \in 1..Len(evicted) /\ Len(evicted) \in Nat /\ Len(order) \in Nat
            /\ DOMAIN Recents = 1..Len(evicted) + Len(order)
        BY <1>0, RecentsPlaces, LenProperties
      <3>2. Recents[i].key = key
        BY <3>1, RecentsPlaces
      <3>3. Recents[Len(evicted) + k] = l[k]
        <4>1. /\ Len(evicted) + k \in 1..Len(evicted) + Len(order)
              /\ ~(Len(evicted) + k <= Len(evicted)) /\ Len(evicted) + k - Len(evicted) = k
          BY <3>1
        <4> QED BY <4>1, RecentsPlaces
      <3>4. i = Len(evicted) + k
        <4>1. i \in DOMAIN Recents /\ Len(evicted) + k \in DOMAIN Recents
          BY <3>1
        <4> QED BY <1>3, <3>2, <3>3, <4>1 DEF HistoryInv, Distinct
      <3> QED BY <3>1, <3>4
    <2>2. Recent!Without(evicted, key) = evicted
      BY <1>0, <2>1, WithoutAbsent
    <2> QED BY <1>5, <2>2 DEF HSet
  <1>11. RemoveAt(l, k) \in Seq(Recent!Entries)
    BY <1>1, <1>3, RemoveAtPlaces
  <1>12. Recents' = Append(evicted \o RemoveAt(l, k), entry)
    BY <1>0, <1>4, <1>7, <1>8, <1>10, <1>11, ConcatAppend DEF Recents
  <1>13. Len(order') = Len(order)
    <2>1. Len(order) \in Nat
      BY RecentsPlaces
    <2>2. Len(Append(RemoveAt(order, k), key)) = Len(RemoveAt(order, k)) + 1
      BY <1>6
    <2> QED BY <1>2, <1>6, <2>1, <2>2
  <1> QED BY <1>9, <1>10, <1>12, <1>13

(* A set of a new key into a cache with room: what was dropped of that key *)
(* before is replaced.                                                     *)
LEMMA InsertRecents ==
    ASSUME HistoryInv, NEW key \in Keys, NEW value \in Answers,
           HSet(key, value), Insert(key, value), Cardinality(DOMAIN values) < Capacity
    PROVE  /\ Recents' = Append(Recent!Without(Recents, key), Pair(key, value))
           /\ evicted = << >> /\ evicted' = << >>
PROOF
  <1> DEFINE entry == Pair(key, value)
             l == ListedEntries
  <1>0. /\ order \in Seq(Keys) /\ ToSet(order) = DOMAIN values /\ key \notin ToSet(order)
        /\ evicted \in Seq(Recent!Entries) /\ Len(order) \in Nat
    BY RecentsPlaces DEF HistoryInv, CacheInv, TypeOK, OrderTracksValues, Insert
  <1>1. evicted = << >>
    BY <1>0, ListedAsStored, CacheAssumption DEF HistoryInv
  <1>2. order' = Append(order, key) /\ values' = Store({}, key, value)
    BY <1>0, ListedAsStored, CacheAssumption DEF Insert, HistoryInv
  <1>3. /\ DOMAIN values \subseteq DOMAIN values' /\ values'[key] = value
        /\ \A other \in ToSet(order) : values'[other] = values[other]
    BY <1>0, <1>2 DEF Store
  <1>4. l = Listing(order, values) /\ l \in Seq(Recent!Entries) /\ entry \in Recent!Entries
    BY RecentsPlaces DEF Pair, Recent!Entries
  <1>5. Listing(order', values') = Append(l, entry)
    BY <1>0, <1>2, <1>3, <1>4, ListingAppend, ListingSame, SMTT(30)
  <1>6. ListedEntries' = Listing(order', values')
    BY DEF ListedEntries, Listing, Entry, Pair
  <1>7. ~Names(l, key)
    <2> SUFFICES ASSUME NEW i \in DOMAIN l, l[i].key = key PROVE FALSE
      BY DEF Names
    <2>1. i \in 1..Len(order)
      BY RecentsPlaces, LenProperties
    <2>2. l[i] = Pair(order[i], values[order[i]]) /\ order[i] \in DOMAIN values
      BY <2>1, RecentsPlaces
    <2>3. l[i].key = order[i]
      BY <2>2 DEF Pair
    <2> QED BY <1>0, <2>2, <2>3
  <1>8. Recent!Without(evicted \o l, key) = Recent!Without(evicted, key) \o l
    BY <1>0, <1>4, <1>7, WithoutLeft DEF HistoryInv, Recents
  <1>9. Recent!Without(evicted, key) = evicted
    <2>1. ~Names(evicted, key)
      BY <1>1, EmptySeq DEF Names
    <2> QED BY <1>0, <2>1, WithoutAbsent
  <1>10. evicted' = evicted
    BY <1>3, <1>9 DEF HSet
  <1>11. Recents' = Append(evicted \o l, entry)
    BY <1>0, <1>4, <1>5, <1>6, <1>10, ConcatAppend DEF Recents
  <1> QED BY <1>1, <1>8, <1>9, <1>10, <1>11 DEF Recents

(* A set of a new key into a full cache: the least recently used entry     *)
(* moves from the list to what was dropped, its place among all stays.     *)
LEMMA EvictRecents ==
    ASSUME HistoryInv, NEW key \in Keys, NEW value \in Answers,
           HSet(key, value), Insert(key, value), Cardinality(DOMAIN values) >= Capacity
    PROVE  /\ Recents' = Append(Recent!Without(Recents, key), Pair(key, value))
           /\ evicted' \in Seq(Recent!Entries)
           /\ Len(order') = Capacity
PROOF
  <1> DEFINE entry == Pair(key, value)
             l == ListedEntries
             dropped == Append(evicted, l[1])
             rest == RemoveAt(l, 1)
             kept == RemoveAt(order, 1)
  <1>0. /\ order \in Seq(Keys) /\ ToSet(order) = DOMAIN values /\ key \notin ToSet(order)
        /\ IsInjective(order) /\ evicted \in Seq(Recent!Entries) /\ Len(order) \in Nat
        /\ DOMAIN order = 1..Len(order)
    BY RecentsPlaces DEF HistoryInv, CacheInv, TypeOK, OrderTracksValues, Insert
  <1>1. Len(order) = Capacity /\ Capacity \in Nat \ {0} /\ 1 \in 1..Len(order)
    <2>1. CacheInv /\ Cardinality(DOMAIN values) <= Capacity
      BY DEF HistoryInv, CacheInv, Bounded
    <2>2. Len(order) = Cardinality(DOMAIN values)
      BY <2>1, ListedAsStored
    <2> QED BY <1>0, <2>1, <2>2, CacheAssumption
  <1>2. /\ kept \in Seq(Keys) /\ Len(kept) = Len(order) - 1
        /\ ToSet(kept) = ToSet(order) \ {order[1]} /\ order[1] \in ToSet(order)
    BY <1>0, <1>1, RemoveAtPlaces, RemoveAtInjective DEF ToSet
  <1>3. Tail(order) = kept /\ Head(order) = order[1]
    <2> DEFINE t == Tail(order)
    <2>1. order # << >>
      BY <1>0, <1>1, EmptySeq
    <2>2. /\ t \in Seq(Keys) /\ Len(t) = Len(order) - 1 /\ Head(order) = order[1]
          /\ \A i \in 1..Len(order) - 1 : t[i] = order[i + 1]
      BY <1>0, <2>1, HeadTailProperties
    <2> HIDE DEF t, kept
    <2>3. \A i \in 1..Len(order) - 1 : kept[i] = IF i < 1 THEN order[i] ELSE order[i + 1]
      BY <1>0, <1>1, RemoveAtPlaces DEF kept
    <2>4. \A i \in 1..Len(t) : t[i] = kept[i]
      BY <1>0, <2>2, <2>3
    <2>5. t = kept
      BY <1>2, <2>2, <2>4, SeqEqual
    <2> QED BY <2>2, <2>5 DEF t
  <1>4. order' = Append(kept, key) /\ values' = Store({order[1]}, key, value)
    BY <1>3 DEF Insert
  <1>5. /\ ~(DOMAIN values \subseteq DOMAIN values') /\ values'[key] = value
        /\ \A other \in ToSet(kept) : values'[other] = values[other]
    BY <1>0, <1>2, <1>4 DEF Store
  <1>6. /\ l = Listing(order, values) /\ l \in Seq(Recent!Entries) /\ entry \in Recent!Entries
        /\ Len(l) = Len(order)
    BY RecentsPlaces DEF Pair, Recent!Entries
  <1>7. l[1] = Entry(Head(order)) /\ l[1] \in Recent!Entries
    <2>1. l[1] = Pair(order[1], values[order[1]])
      BY <1>1, RecentsPlaces
    <2>2. l[1] \in Recent!Entries
      BY <1>1, <1>6, ElementOfSeq
    <2> QED BY <1>3, <2>1, <2>2 DEF Pair, Entry
  <1>8. /\ rest \in Seq(Recent!Entries) /\ rest = Listing(kept, values)
        /\ dropped \in Seq(Recent!Entries)
    <2>1. 1 \in 1..Len(l)
      BY <1>1, <1>6
    <2> QED BY <1>0, <1>1, <1>6, <1>7, <2>1, RemoveAtPlaces, ListingRemove
  <1>9. Listing(order', values') = Append(rest, entry)
    <2> HIDE DEF kept, rest
    <2>1. Listing(order', values') = Append(Listing(kept, values'), entry)
      BY <1>2, <1>4, <1>5, ListingAppend
    <2>2. Listing(kept, values') = Listing(kept, values)
      BY <1>2, <1>5, ListingSame
    <2> QED BY <1>8, <2>1, <2>2
  <1>10. ListedEntries' = Listing(order', values')
    BY DEF ListedEntries, Listing, Entry, Pair
  <1>11. dropped \o rest = Recents
    <2>1. Len(l) \in Nat \ {0} /\ l # << >> /\ l = <<l[1]>> \o rest
      <3> DEFINE head == <<l[1]>>
                 both == head \o rest
      <3>1. head \in Seq(Recent!Entries) /\ Len(head) = 1 /\ head[1] = l[1]
        BY <1>7
      <3>2. /\ Len(rest) = Len(l) - 1 /\ Len(l) \in Nat \ {0}
            /\ \A i \in 1..Len(l) - 1 : rest[i] = IF i < 1 THEN l[i] ELSE l[i + 1]
        BY <1>0, <1>1, <1>6, RemoveAtPlaces, ZenonT(60)
      <3> HIDE DEF head, rest
      <3>3. /\ both \in Seq(Recent!Entries) /\ Len(both) = Len(head) + Len(rest)
            /\ \A i \in 1..Len(head) + Len(rest) :
                   both[i] = IF i <= Len(head) THEN head[i] ELSE rest[i - Len(head)]
        BY <1>8, <3>1, ConcatProperties
      <3> HIDE DEF both, l
      <3>4. ASSUME NEW i \in 1..Len(l) PROVE l[i] = both[i]
        <4>1. CASE i = 1
          BY <3>1, <3>2, <3>3, <4>1
        <4>2. CASE i # 1
          <5>1. i \in 1..1 + Len(rest) /\ ~(i <= 1) /\ i - 1 \in 1..Len(l) - 1 /\ ~(i - 1 < 1)
                /\ i - 1 + 1 = i
            BY <3>2, <4>2
          <5> QED BY <3>1, <3>2, <3>3, <5>1
        <4> QED BY <4>1, <4>2
      <3>5. Len(l) = Len(both)
        BY <3>1, <3>2, <3>3
      <3>6. l = both
        BY <1>6, <3>3, <3>4, <3>5, SeqEqual
      <3> QED BY <1>6, <3>2, <3>6, EmptySeq DEF both, head
    <2> HIDE DEF rest, l
    <2>2. dropped \o rest = evicted \o (<<l[1]>> \o rest)
      BY <1>0, <1>7, <1>8
    <2> QED BY <2>1, <2>2 DEF Recents, l
  <1>12. ~Names(rest, key)
    <2> SUFFICES ASSUME NEW i \in DOMAIN rest, rest[i].key = key PROVE FALSE
      BY DEF Names
    <2> HIDE DEF kept
    <2>1. i \in 1..Len(kept) /\ i \in DOMAIN kept /\ rest[i] = Pair(kept[i], values[kept[i]])
      <3>1. /\ DOMAIN Listing(kept, values) = 1..Len(kept) /\ DOMAIN kept = 1..Len(kept)
            /\ \A j \in 1..Len(kept) : Listing(kept, values)[j] = Pair(kept[j], values[kept[j]])
        BY <1>2, ListingPlaces, LenProperties
      <3> QED BY <1>8, <3>1
    <2>2. rest[i].key = kept[i]
      BY <2>1 DEF Pair
    <2> QED BY <1>0, <1>2, <2>1, <2>2 DEF ToSet
  <1> HIDE DEF dropped, rest, kept, entry, l
  <1>13. Distinct(dropped \o rest)
    BY <1>11 DEF HistoryInv
  <1>14. Recent!Without(dropped \o rest, key) = Recent!Without(dropped, key) \o rest
    BY <1>8, <1>12, <1>13, WithoutLeft
  <1>15. evicted' = Recent!Without(dropped, key)
    BY <1>5, <1>7 DEF HSet, dropped
  <1>16. evicted' \in Seq(Recent!Entries)
    BY <1>8, <1>13, <1>15, DistinctPrefix, WithoutKey
  <1>17. Recents' = Append(evicted' \o rest, entry)
    <2>1. Recents' = evicted' \o Append(rest, entry)
      BY <1>9, <1>10 DEF Recents
    <2> QED BY <1>6, <1>8, <1>16, <2>1, ConcatAppend
  <1>18. Len(order') = Capacity
    <2>1. Len(Append(kept, key)) = Len(kept) + 1
      BY <1>2
    <2> QED BY <1>1, <1>2, <1>4, <2>1
  <1> QED BY <1>11, <1>14, <1>15, <1>16, <1>17, <1>18 DEF entry

-----------------------------------------------------------------------------
LEMMA HistoryInit == HInit => HistoryInv /\ Recent!Init
PROOF
  <1> SUFFICES ASSUME HInit PROVE HistoryInv /\ Recent!Init
    OBVIOUS
  <1>1. CacheInv
    BY InitInv DEF HInit
  <1>2. order = << >> /\ evicted = << >> /\ reply = NoAnswer
    BY DEF HInit, Init
  <1>3. ListedEntries = << >>
    BY <1>2 DEF ListedEntries
  <1>4. Recents = << >>
    BY <1>2, <1>3 DEF Recents
  <1> QED BY <1>1, <1>2, <1>4 DEF HistoryInv, Distinct, Recent!Init, Recents

(* Each call of get and set is one step of the promised cache, and keeps   *)
(* the invariant.                                                          *)
LEMMA GetImplements ==
    ASSUME HistoryInv, CacheInv', NEW key \in Keys, HGet(key)
    PROVE  HistoryInv' /\ (Recent!Find(key) \/ Recent!Miss(key))
PROOF
  <1>1. CASE key \in DOMAIN values
    <2> DEFINE entry == Pair(key, values[key])
    <2>1. /\ entry \in Recent!Kept /\ entry \in Recent!Entries
          /\ Recents' = Append(Recent!Without(Recents, key), entry)
          /\ Len(order') = Len(order)
      BY <1>1, HitRecents
    <2>2. entry.key = key /\ entry.value = values[key] /\ reply' = values[key]
      BY <1>1 DEF Pair, HGet, Lookup
    <2> HIDE DEF entry
    <2>3. Distinct(Recents)'
      BY <2>1, <2>2, StaysDistinct
    <2>4. HistoryInv'
      <3>1. evicted' = evicted
        BY DEF HGet
      <3> QED BY <2>1, <2>3, <3>1 DEF HistoryInv
    <2>5. Recent!Find(key)
      BY <2>1, <2>2 DEF Recent!Find, Recent!Others, Recents
    <2> QED BY <2>4, <2>5
  <1>2. CASE key \notin DOMAIN values
    <2>1. UNCHANGED <<values, order, evicted>> /\ reply' = NoAnswer
      BY <1>2 DEF HGet, Get, Lookup
    <2>2. Recents' = Recents /\ Distinct(Recents)'
      <3>1. ListedEntries' = ListedEntries
        BY <2>1 DEF ListedEntries, Entry
      <3>2. Recents' = Recents
        BY <2>1, <3>1 DEF Recents
      <3>3. Distinct(Recents)
        BY DEF HistoryInv
      <3> QED BY <3>2, <3>3 DEF Distinct
    <2>3. HistoryInv'
      BY <2>1, <2>2 DEF HistoryInv
    <2>4. Recent!Miss(key)
      BY <1>2, <2>1, <2>2, KeptIsListed DEF Recent!Miss, Recents
    <2> QED BY <2>3, <2>4
  <1> QED BY <1>1, <1>2

LEMMA SetImplements ==
    ASSUME HistoryInv, CacheInv', NEW key \in Keys, NEW value \in Answers, HSet(key, value)
    PROVE  HistoryInv' /\ Recent!Put(key, value)
PROOF
  <1>1. Recents' = Append(Recent!Without(Recents, key), Pair(key, value)) => Recent!Put(key, value)
    BY DEF HSet, Recent!Put, Recent!Others, Recents, Pair
  <1>2. Recents' = Append(Recent!Without(Recents, key), Pair(key, value)) => Distinct(Recents)'
    <2>1. Pair(key, value) \in Recent!Entries /\ Pair(key, value).key = key
      BY DEF Pair, Recent!Entries
    <2> QED BY <2>1, StaysDistinct
  <1>3. CASE Overwrite(key, value)
    BY <1>1, <1>2, <1>3, OverwriteRecents DEF HistoryInv
  <1>4. CASE Insert(key, value)
    <2>1. CASE Cardinality(DOMAIN values) < Capacity
      <3>1. << >> \in Seq(Recent!Entries)
        OBVIOUS
      <3> QED BY <1>1, <1>2, <1>4, <2>1, <3>1, InsertRecents DEF HistoryInv
    <2>2. CASE Cardinality(DOMAIN values) >= Capacity
      BY <1>1, <1>2, <1>4, <2>2, EvictRecents DEF HistoryInv
    <2>3. Cardinality(DOMAIN values) \in Nat /\ Capacity \in Nat
      BY FS_CardinalityType, CacheAssumption DEF HistoryInv, CacheInv
    <2> QED BY <2>1, <2>2, <2>3
  <1> QED BY <1>3, <1>4 DEF HSet, Set

LEMMA HistoryStep == HistoryInv /\ [HNext]_historyVars => HistoryInv' /\ [Recent!Next]_(Recent!vars)
PROOF
  <1> SUFFICES ASSUME HistoryInv, [HNext]_historyVars
               PROVE  HistoryInv' /\ [Recent!Next]_(Recent!vars)
    OBVIOUS
  <1>1. CacheInv'
    <2>1. [Next]_vars
      BY DEF HNext, HGet, HSet, Next, historyVars, vars
    <2> QED BY <2>1, StepInv DEF HistoryInv
  <1>2. ASSUME NEW key \in Keys, HGet(key) PROVE HistoryInv' /\ Recent!Next
    BY <1>1, <1>2, GetImplements DEF Recent!Next
  <1>3. ASSUME NEW key \in Keys, NEW value \in Answers, HSet(key, value)
        PROVE  HistoryInv' /\ Recent!Next
    BY <1>1, <1>3, SetImplements DEF Recent!Next
  <1>4. CASE UNCHANGED historyVars
    <2>1. UNCHANGED <<values, order, evicted, reply>>
      BY <1>4 DEF historyVars
    <2>2. Recents' = Recents /\ Distinct(Recents)'
      <3>1. ListedEntries' = ListedEntries
        BY <2>1 DEF ListedEntries, Entry
      <3>2. Recents' = Recents
        BY <2>1, <3>1 DEF Recents
      <3>3. Distinct(Recents)
        BY DEF HistoryInv
      <3> QED BY <3>2, <3>3 DEF Distinct
    <2>3. HistoryInv'
      BY <1>1, <2>1, <2>2 DEF HistoryInv
    <2> QED BY <2>1, <2>2, <2>3 DEF Recent!vars, Recents
  <1> QED BY <1>2, <1>3, <1>4 DEF HNext

(* The cache of api/cache.go answers every get as the promised one does,   *)
(* for every capacity, whatever the keys, the answers and the calls.       *)
THEOREM ImplementsRecentAnswers == HSpec => LeastRecentlyUsed
PROOF BY HistoryInit, HistoryStep, PTL DEF HSpec, LeastRecentlyUsed, Recent!Spec
=============================================================================
