--------------------------- MODULE TrainingProofs ---------------------------
(***************************************************************************)
(* What is trained and what is answered from it, for every folder, every   *)
(* question and any number of trainings: the readers give documents, live  *)
(* catalogs stay out, an answer is about its question and opens with the   *)
(* best sentence, taught facts outlive trainings, the order in which an    *)
(* object is read does not show.                                           *)
(***************************************************************************)
EXTENDS Training, SequenceLemmas

(* Whether a file loads depends on its candidates alone. *)
LEMMA FactsDoNotSpoil ==
    ASSUME NEW model, NEW facts, Validate(model)
    PROVE  Validate([candidates |-> model.candidates, facts |-> facts])
PROOF BY DEF Validate

LEMMA KeptAtFirst == Init => FactsKept
PROOF BY TrainingAssumption DEF Init, FactsKept

LEMMA KeptByTrain ==
    ASSUME FactsKept, Train
    PROVE  FactsKept'
PROOF
  <1> SUFFICES ASSUME ~spoiled' PROVE Validate(file)' /\ file'.facts = said'
    BY DEF FactsKept
  <1>1. ~spoiled /\ Validate(file')
    BY DEF Train
  <1>2. Validate(file) /\ file.facts = said
    BY <1>1 DEF FactsKept
  <1>3. PICK texts \in trainFrom(folder) :
            file' = [candidates |-> TrainTexts(texts),
                     facts |-> IF Validate(file) THEN file.facts ELSE NoFacts]
    BY DEF Train
  <1>4. file'.facts = file.facts /\ said' = said
    BY <1>2, <1>3 DEF Train
  <1>5. Validate(file)'
    BY <1>1 DEF Validate
  <1> QED BY <1>2, <1>4, <1>5

LEMMA KeptByTeach ==
    ASSUME NEW question, NEW answer, FactsKept, Teach(question, answer)
    PROVE  FactsKept'
PROOF
  <1> SUFFICES ASSUME ~spoiled' PROVE Validate(file)' /\ file'.facts = said'
    BY DEF FactsKept
  <1>1. ~spoiled /\ Validate(file) /\ file.facts = said
    BY DEF FactsKept, Teach
  <1>2. /\ file' = [candidates |-> file.candidates, facts |-> TeachFact(file.facts, question, answer)]
        /\ said' = TeachFact(said, question, answer)
    BY DEF Teach
  <1>3. Validate([candidates |-> file.candidates, facts |-> TeachFact(file.facts, question, answer)])
    BY <1>1, FactsDoNotSpoil
  <1>4. Validate(file)'
    BY <1>2, <1>3 DEF Validate
  <1>5. file'.facts = said'
    BY <1>1, <1>2
  <1> QED BY <1>4, <1>5

LEMMA KeptByStep == FactsKept /\ [Next]_vars => FactsKept'
PROOF
  <1> SUFFICES ASSUME FactsKept, [Next]_vars PROVE FactsKept'
    OBVIOUS
  <1>1. CASE Train
    BY <1>1, KeptByTrain
  <1>2. ASSUME NEW question \in Questions, NEW answer \in Answers, Teach(question, answer)
        PROVE  FactsKept'
    BY <1>2, KeptByTeach
  <1>3. CASE UNCHANGED <<file, said, spoiled>>
    BY <1>3 DEF FactsKept, Validate
  <1>4. ChangeFolder \/ UNCHANGED vars => UNCHANGED <<file, said, spoiled>>
    BY DEF ChangeFolder, vars
  <1>5. \A question : Ask(question) => UNCHANGED <<file, said, spoiled>>
    BY DEF Ask
  <1> QED BY <1>1, <1>2, <1>3, <1>4, <1>5 DEF Next

(* Taught facts outlive every training, as long as no training has saved a *)
(* file that does not load.                                                *)
THEOREM FactsKeptAlways == Spec => []FactsKept
PROOF BY KeptAtFirst, KeptByStep, PTL DEF Spec

-----------------------------------------------------------------------------
(* Only keeps, place after place, what is in the set. *)
Keeping(f, s, T) ==
    /\ f[0] = << >>
    /\ \A i \in 1..Len(s) : f[i] = IF s[i] \in T THEN Append(f[i - 1], s[i]) ELSE f[i - 1]
LEMMA OnlySteps ==
    ASSUME NEW S, NEW s \in Seq(S), NEW T
    PROVE  \E f \in [0..Len(s) -> Seq(S \cap T)] : Keeping(f, s, T) /\ Only(s, T) = f[Len(s)]
PROOF
  <1> DEFINE N == Len(s)
             V == Seq(S \cap T)
             base == << >>
             step == [k \in 1..N |-> [x \in V |-> IF s[k] \in T THEN Append(x, s[k]) ELSE x]]
  <1>1. N \in Nat /\ \A n \in 1..N : s[n] \in S
    BY LenProperties, ElementOfSeq
  <1>2. base \in V
    OBVIOUS
  <1>3. step \in [1..N -> [V -> V]]
    <2>1. \A n \in 1..N : \A x \in V : s[n] \in T => Append(x, s[n]) \in V
      BY <1>1, AppendProperties
    <2> HIDE DEF V
    <2> QED BY <2>1
  <1>4. \A k \in 1..N : \A x \in V : step[k][x] = IF s[k] \in T THEN Append(x, s[k]) ELSE x
    OBVIOUS
  <1> DEFINE next(g, i) == IF i = 0 THEN base
                           ELSE IF s[i] \in T THEN Append(g[i - 1], s[i]) ELSE g[i - 1]
             Is(g) == g = [i \in 0..N |-> next(g, i)]
             chosen == CHOOSE g : Is(g)
  <1>5. Only(s, T) = chosen[N]
    BY DEF Only, N, base
  <1> HIDE DEF step, N, V, base
  <1>6. PICK r \in [0..N -> V] : r[0] = base /\ \A i \in 1..N : r[i] = step[i][r[i - 1]]
    <2>1. N \in Nat
      BY <1>1
    <2>2. \E r \in [0..N -> V] : StepByStep(r, base, N, step)
      BY <1>2, <1>3, <2>1, RecursionExists, Zenon
    <2> QED BY <2>2 DEF StepByStep
  <1>7. \A i \in 1..N : r[i] = IF s[i] \in T THEN Append(r[i - 1], s[i]) ELSE r[i - 1]
    <2> TAKE i \in 1..N
    <2>1. i - 1 \in 0..N
      BY <1>1
    <2>2. r[i - 1] \in V
      BY <1>6, <2>1
    <2> QED BY <1>4, <1>6, <2>2
  <1>8. \A i \in 0..N : r[i] = next(r, i)
    <2> TAKE i \in 0..N
    <2>1. CASE i = 0
      BY <1>6, <2>1
    <2>2. CASE i # 0
      <3>1. i \in 1..N
        BY <1>1, <2>2
      <3> QED BY <1>7, <2>2, <3>1
    <2> QED BY <2>1, <2>2
  <1>9. Is(r)
    <2> HIDE DEF next
    <2>1. r = [i \in 0..N |-> r[i]]
      OBVIOUS
    <2> QED BY <1>8, <2>1
  <1>10. Is(chosen)
    <2> HIDE DEF Is
    <2> QED BY <1>9
  <1>11. \A i \in 0..N : chosen[i] = next(chosen, i)
    <2> HIDE DEF chosen, next
    <2> QED BY <1>10
  <1> HIDE DEF chosen, Is
  <1> DEFINE same == {i \in 0..N : chosen[i] = r[i]}
  <1>12. \A i \in 0..N : i \in same
    <2>1. 0 \in same
      BY <1>1, <1>6, <1>11
    <2>2. ASSUME NEW i \in 1..N, i - 1 \in same PROVE i \in same
      <3>1. i \in 0..N /\ i # 0 /\ chosen[i - 1] = r[i - 1]
        BY <1>1, <2>2
      <3>2. chosen[i] = r[i]
        BY <1>7, <1>11, <3>1
      <3> QED BY <3>1, <3>2
    <2> HIDE DEF same
    <2> QED BY <1>1, <2>1, <2>2, UpTo
  <1>13. Only(s, T) = r[N]
    BY <1>1, <1>5, <1>12
  <1>14. Keeping(r, s, T)
    BY <1>6, <1>7 DEF Keeping, N, base
  <1> QED BY <1>13, <1>14 DEF N, V

(* Each of the outcomes behind each of the others.                         *)
Each(x, y) == {d \o e : d \in x, e \in y}
FromEach(z, x, y) == \E v \in x, w \in y : z = v \o w
LEMMA EachHas ==
    ASSUME NEW x, NEW y, NEW z \in Each(x, y)
    PROVE  FromEach(z, x, y)
  BY DEF Each, FromEach
LEMMA EachMakes ==
    ASSUME NEW x, NEW y, NEW v \in x, NEW w \in y
    PROVE  v \o w \in Each(x, y)
  BY DEF Each
LEMMA EachIs ==
    ASSUME NEW S, NEW x \in SUBSET Seq(S), NEW y \in SUBSET Seq(S)
    PROVE  Each(x, y) \in SUBSET Seq(S)
PROOF
  <1> SUFFICES ASSUME NEW z \in Each(x, y) PROVE z \in Seq(S)
    OBVIOUS
  <1>1. PICK d \in x, e \in y : z = d \o e
    BY DEF Each
  <1> QED BY <1>1, ConcatProperties

(* InTurn: the outcomes so far, each with each of the next one behind it. *)
Turning(f, o, n) == f[0] = {<< >>} /\ \A i \in 1..n : f[i] = Each(f[i - 1], o[i])
LEMMA InTurnSteps ==
    ASSUME NEW S, NEW n \in Nat, NEW o \in [1..n -> SUBSET Seq(S)]
    PROVE  \E f \in [0..n -> SUBSET Seq(S)] : Turning(f, o, n) /\ InTurn(o) = f[n]
PROOF
  <1> DEFINE N == n
             V == SUBSET Seq(S)
             base == {<< >>}
             step == [k \in 1..N |-> [x \in V |-> Each(x, o[k])]]
  <1>1. N \in Nat /\ Len(o) = N /\ \A k \in 1..N : o[k] \in V
    OBVIOUS
  <1>2. base \in V
    OBVIOUS
  <1>3. step \in [1..N -> [V -> V]]
    <2>1. \A k \in 1..N : \A x \in V : Each(x, o[k]) \in V
      BY <1>1, EachIs
    <2> HIDE DEF V
    <2> QED BY <2>1
  <1>4. \A k \in 1..N : \A x \in V : step[k][x] = Each(x, o[k])
    OBVIOUS
  <1> DEFINE next(g, i) == IF i = 0 THEN base ELSE Each(g[i - 1], o[i])
             Is(g) == g = [i \in 0..N |-> next(g, i)]
             chosen == CHOOSE g : Is(g)
  <1>5. InTurn(o) = chosen[N]
    BY <1>1 DEF InTurn, Each, base
  <1> HIDE DEF step, N, V, base
  <1>6. PICK r \in [0..N -> V] : r[0] = base /\ \A i \in 1..N : r[i] = step[i][r[i - 1]]
    <2>1. N \in Nat
      BY <1>1
    <2>2. \E r \in [0..N -> V] : StepByStep(r, base, N, step)
      BY <1>2, <1>3, <2>1, RecursionExists, Zenon
    <2> QED BY <2>2 DEF StepByStep
  <1>7. \A i \in 1..N : r[i] = Each(r[i - 1], o[i])
    <2> TAKE i \in 1..N
    <2>1. i - 1 \in 0..N
      BY <1>1
    <2>2. r[i - 1] \in V
      BY <1>6, <2>1
    <2> QED BY <1>4, <1>6, <2>2
  <1>8. \A i \in 0..N : r[i] = next(r, i)
    <2> TAKE i \in 0..N
    <2>1. CASE i = 0
      BY <1>6, <2>1
    <2>2. CASE i # 0
      <3>1. i \in 1..N
        BY <1>1, <2>2
      <3> QED BY <1>7, <2>2, <3>1
    <2> QED BY <2>1, <2>2
  <1>9. Is(r)
    <2> HIDE DEF next
    <2>1. r = [i \in 0..N |-> r[i]]
      OBVIOUS
    <2> QED BY <1>8, <2>1
  <1>10. Is(chosen)
    <2> HIDE DEF Is
    <2> QED BY <1>9
  <1>11. \A i \in 0..N : chosen[i] = next(chosen, i)
    <2> HIDE DEF chosen, next
    <2> QED BY <1>10
  <1> HIDE DEF chosen, Is
  <1> DEFINE same == {i \in 0..N : chosen[i] = r[i]}
  <1>12. \A i \in 0..N : i \in same
    <2>1. 0 \in same
      BY <1>1, <1>6, <1>11
    <2>2. ASSUME NEW i \in 1..N, i - 1 \in same PROVE i \in same
      <3>1. i \in 0..N /\ i # 0 /\ chosen[i - 1] = r[i - 1]
        BY <1>1, <2>2
      <3>2. chosen[i] = r[i]
        BY <1>7, <1>11, <3>1
      <3> QED BY <3>1, <3>2
    <2> HIDE DEF same
    <2> QED BY <1>1, <2>1, <2>2, UpTo
  <1>13. InTurn(o) = r[N]
    BY <1>1, <1>5, <1>12
  <1>14. Turning(r, o, n)
    BY <1>6, <1>7 DEF Turning, N, base
  <1> QED BY <1>13, <1>14 DEF N, V

LEMMA OnlyType ==
    ASSUME NEW S, NEW s \in Seq(S), NEW T
    PROVE  Only(s, T) \in Seq(S \cap T)
PROOF
  <1>1. Len(s) \in Nat
    BY LenProperties
  <1>2. Len(s) \in 0..Len(s)
    BY <1>1
  <1> QED BY <1>2, OnlySteps

LEMMA OnlyAll ==
    ASSUME NEW S, NEW s \in Seq(S), NEW T, S \subseteq T
    PROVE  Only(s, T) = s
PROOF
  <1>1. PICK f \in [0..Len(s) -> Seq(S \cap T)] : Keeping(f, s, T) /\ Only(s, T) = f[Len(s)]
    BY OnlySteps
  <1> DEFINE N == Len(s)
             none == << >>
             same == {i \in 0..N : f[i] = SubSeq(s, 1, i)}
  <1>2. N \in Nat /\ \A i \in 1..N : s[i] \in S
    BY LenProperties, ElementOfSeq
  <1>3. f[0] = none /\ \A i \in 1..N : f[i] = Append(f[i - 1], s[i])
    BY <1>1, <1>2 DEF Keeping
  <1>4. SubSeq(s, 1, 0) = none
    BY SubSeqEmpty
  <1>5. ASSUME NEW i \in 1..N PROVE SubSeq(s, 1, i) = Append(SubSeq(s, 1, i - 1), s[i])
    <2> DEFINE a == SubSeq(s, 1, i - 1)
               one == <<s[i]>>
    <2>1. 1 \in 1..Len(s) /\ i \in 1..Len(s)
      BY <1>2
    <2>2. SubSeq(s, 1, i) = a \o one
      BY <2>1, SubSeqRecursiveSecond
    <2>3. \A j \in 1..i - 1 : s[j] \in S
      BY <1>2
    <2>4. a \in Seq(S)
      BY <2>3, SubSeqProperties
    <2>5. s[i] \in S
      BY <1>2
    <2> HIDE DEF a
    <2> QED BY <2>2, <2>4, <2>5, AppendIsConcat DEF a
  <1> HIDE DEF N, none
  <1>6. \A i \in 0..N : i \in same
    <2>1. 0 \in same
      BY <1>2, <1>3, <1>4
    <2>2. ASSUME NEW i \in 1..N, i - 1 \in same PROVE i \in same
      <3>1. i \in 0..N
        BY <1>2
      <3> QED BY <1>3, <1>5, <2>2, <3>1
    <2> HIDE DEF same
    <2> QED BY <1>2, <2>1, <2>2, UpTo
  <1>7. f[N] = SubSeq(s, 1, N)
    BY <1>2, <1>6
  <1>8. SubSeq(s, 1, N) = s
    BY SubSeqFull DEF N
  <1> QED BY <1>1, <1>7, <1>8 DEF N

(* If nothing is kept there was nothing to keep.                           *)
LEMMA OnlySome ==
    ASSUME NEW S, NEW s \in Seq(S), NEW T, NEW k \in 1..Len(s), s[k] \in T
    PROVE  Only(s, T) # << >>
PROOF
  <1>1. PICK f \in [0..Len(s) -> Seq(S \cap T)] : Keeping(f, s, T) /\ Only(s, T) = f[Len(s)]
    BY OnlySteps
  <1> DEFINE N == Len(s)
             V == Seq(S \cap T)
             none == << >>
             same == {i \in 0..N : k <= i => f[i] # none}
  <1>2. N \in Nat /\ \A i \in 1..N : s[i] \in S
    BY LenProperties, ElementOfSeq
  <1>3. \A i \in 1..N : f[i] = IF s[i] \in T THEN Append(f[i - 1], s[i]) ELSE f[i - 1]
    BY <1>1 DEF Keeping
  <1>5. ASSUME NEW i \in 1..N, s[i] \in T PROVE Append(f[i - 1], s[i]) # none
    <2>1. i - 1 \in 0..N
      BY <1>2
    <2>2. f[i - 1] \in V
      BY <1>1, <2>1
    <2>3. s[i] \in S \cap T
      BY <1>2, <1>5
    <2>4. Len(f[i - 1]) \in Nat
      BY <2>2, LenProperties
    <2>5. Len(Append(f[i - 1], s[i])) = Len(f[i - 1]) + 1
      BY <2>2, <2>3, AppendProperties
    <2>6. Len(none) = 0
      BY EmptySeq
    <2> DEFINE more == Append(f[i - 1], s[i])
               n == Len(f[i - 1])
    <2> HIDE DEF more, none, n
    <2>7. n \in Nat /\ Len(more) = n + 1 /\ Len(none) = 0
      BY <2>4, <2>5, <2>6 DEF more, n
    <2>8. more # none
      BY <2>7
    <2> QED BY <2>8 DEF more
  <1> HIDE DEF N, none, V
  <1>6. \A i \in 0..N : i \in same
    <2>1. 0 \in same
      BY <1>2
    <2>2. ASSUME NEW i \in 1..N, i - 1 \in same PROVE i \in same
      <3>1. CASE s[i] \in T
        <4>1. i \in 0..N
          BY <1>2
        <4>2. f[i] = Append(f[i - 1], s[i])
          BY <1>3, <3>1
        <4>3. f[i] # none
          BY <1>5, <3>1, <4>2
        <4> QED BY <4>1, <4>3
      <3>2. CASE s[i] \notin T
        <4>1. i \in 0..N /\ (k <= i => k <= i - 1)
          BY <1>2, <3>2 DEF N
        <4> QED BY <1>3, <2>2, <3>2, <4>1
      <3> QED BY <3>1, <3>2
    <2> HIDE DEF same
    <2> QED BY <1>2, <2>1, <2>2, UpTo
  <1>7. N \in 0..N /\ k <= N
    BY <1>2 DEF N
  <1> QED BY <1>1, <1>6, <1>7 DEF N, none

AppendsAfter(x, y, e) == Append(x \o y, e) = x \o Append(y, e)
LEMMA AppendToConcat ==
    ASSUME NEW S, NEW x \in Seq(S), NEW y \in Seq(S), NEW e \in S
    PROVE  AppendsAfter(x, y, e)
PROOF
  <1> DEFINE one == <<e>>
  <1>1. one \in Seq(S)
    OBVIOUS
  <1>2. x \o y \in Seq(S)
    BY ConcatProperties
  <1>3. Append(x \o y, e) = (x \o y) \o one
    BY <1>2, AppendIsConcat
  <1>4. Append(y, e) = y \o one
    BY AppendIsConcat
  <1> HIDE DEF one
  <1> QED BY <1>1, <1>3, <1>4, ConcatAssociative, SMTT(40) DEF AppendsAfter

OnlySplits(a, b, T) == Only(a \o b, T) = Only(a, T) \o Only(b, T)
LEMMA OnlyConcat ==
    ASSUME NEW S, NEW a \in Seq(S), NEW b \in Seq(S), NEW T
    PROVE  OnlySplits(a, b, T)
PROOF
  <1> DEFINE c == a \o b
             V == Seq(S \cap T)
             A == Len(a)
             B == Len(b)
             none == << >>
  <1>1. c \in Seq(S) /\ Len(c) = A + B
        /\ \A i \in 1..A + B : c[i] = IF i <= A THEN a[i] ELSE b[i - A]
    BY ConcatProperties
  <1>2. A \in Nat /\ B \in Nat
    BY LenProperties
  <1>3. PICK f \in [0..Len(c) -> V] : Keeping(f, c, T) /\ Only(c, T) = f[Len(c)]
    BY <1>1, OnlySteps
  <1>4. PICK fa \in [0..A -> V] : Keeping(fa, a, T) /\ Only(a, T) = fa[A]
    BY OnlySteps
  <1>5. PICK fb \in [0..B -> V] : Keeping(fb, b, T) /\ Only(b, T) = fb[B]
    BY OnlySteps
  <1>6. /\ f[0] = none
        /\ \A i \in 1..A + B : f[i] = IF c[i] \in T THEN Append(f[i - 1], c[i]) ELSE f[i - 1]
    BY <1>1, <1>3 DEF Keeping
  <1>7. /\ fa[0] = none
        /\ \A i \in 1..A : fa[i] = IF a[i] \in T THEN Append(fa[i - 1], a[i]) ELSE fa[i - 1]
    BY <1>4 DEF Keeping
  <1>8. /\ fb[0] = none
        /\ \A i \in 1..B : fb[i] = IF b[i] \in T THEN Append(fb[i - 1], b[i]) ELSE fb[i - 1]
    BY <1>5 DEF Keeping
  <1>9. fa[A] \in V /\ fa[A] \o none = fa[A]
    <2>1. A \in 0..A
      BY <1>2
    <2>2. fa[A] \in V
      BY <1>4, <2>1
    <2> QED BY <2>2, ConcatEmptySeq
  <1>10. ASSUME NEW j \in 1..B, b[j] \in T
         PROVE  Append(fa[A] \o fb[j - 1], b[j]) = fa[A] \o Append(fb[j - 1], b[j])
    <2>1. j - 1 \in 0..B /\ b[j] \in S \cap T
      BY <1>2, <1>10, ElementOfSeq
    <2>2. fb[j - 1] \in V
      BY <1>5, <2>1
    <2> DEFINE K == S \cap T
               x == fa[A]
               y == fb[j - 1]
               e == b[j]
    <2>3. x \in Seq(K) /\ y \in Seq(K) /\ e \in K
      BY <1>9, <2>1, <2>2
    <2> HIDE DEF K, x, y, e
    <2>4. AppendsAfter(x, y, e)
      BY <2>3, AppendToConcat, Zenon
    <2> QED BY <2>4 DEF x, y, e, AppendsAfter
  <1> HIDE DEF c, V, A, B, none
  <1> DEFINE first == {i \in 0..A : f[i] = fa[i]}
  <1>11. f[A] = fa[A]
    <2>1. 0 \in first
      BY <1>2, <1>6, <1>7
    <2>2. ASSUME NEW i \in 1..A, i - 1 \in first PROVE i \in first
      <3>1. i \in 0..A /\ i \in 1..A + B /\ i <= A
        BY <1>2
      <3>2. c[i] = a[i]
        BY <1>1, <3>1
      <3> QED BY <1>6, <1>7, <2>2, <3>1, <3>2
    <2> HIDE DEF first
    <2>3. \A i \in 0..A : i \in first
      BY <1>2, <2>1, <2>2, UpTo
    <2>4. A \in 0..A
      BY <1>2
    <2> QED BY <2>3, <2>4 DEF first
  <1> DEFINE second == {j \in 0..B : f[A + j] = fa[A] \o fb[j]}
  <1>12. f[A + B] = fa[A] \o fb[B]
    <2>1. 0 \in second
      BY <1>2, <1>8, <1>9, <1>11
    <2>2. ASSUME NEW j \in 1..B, j - 1 \in second PROVE j \in second
      <3>1. j \in 0..B /\ A + j \in 1..A + B /\ ~(A + j <= A) /\ A + j - A = j
            /\ A + j - 1 = A + (j - 1)
        BY <1>2

      <3>6. A + j - 1 = A + (j - 1)
        BY <1>2
      <3>3. f[A + (j - 1)] = fa[A] \o fb[j - 1]
        BY <2>2
      <3>4. f[A + j] = IF b[j] \in T THEN Append(f[A + (j - 1)], b[j]) ELSE f[A + (j - 1)]
        <4> DEFINE p == A + j
        <4>1. p \in 1..A + B /\ p - 1 = A + (j - 1) /\ p - A = j /\ ~(p <= A)
          BY <1>2
        <4>2. f[p] = IF c[p] \in T THEN Append(f[p - 1], c[p]) ELSE f[p - 1]
          BY <1>6, <4>1
        <4>3. c[p] = b[p - A]
          BY <1>1, <4>1
        <4> HIDE DEF p
        <4>4. f[p] = IF b[j] \in T THEN Append(f[A + (j - 1)], b[j]) ELSE f[A + (j - 1)]
          BY <4>1, <4>2, <4>3
        <4> QED BY <4>4 DEF p
      <3>5. f[A + j] = fa[A] \o fb[j]
        BY <1>8, <1>10, <3>3, <3>4
      <3> QED BY <3>1, <3>5
    <2> HIDE DEF second
    <2>3. \A j \in 0..B : j \in second
      BY <1>2, <2>1, <2>2, UpTo
    <2>4. B \in 0..B
      BY <1>2
    <2> QED BY <2>3, <2>4 DEF second
  <1> QED BY <1>1, <1>3, <1>4, <1>5, <1>12 DEF c, OnlySplits

(* Two sets that agree on the elements keep the same.                      *)
LEMMA OnlySame ==
    ASSUME NEW S, NEW s \in Seq(S), NEW T, NEW U, \A e \in S : e \in T <=> e \in U
    PROVE  Only(s, T) = Only(s, U)
PROOF
  <1> DEFINE N == Len(s)
  <1>1. PICK f \in [0..N -> Seq(S \cap T)] : Keeping(f, s, T) /\ Only(s, T) = f[N]
    BY OnlySteps
  <1>2. PICK g \in [0..N -> Seq(S \cap U)] : Keeping(g, s, U) /\ Only(s, U) = g[N]
    BY OnlySteps
  <1>3. N \in Nat /\ \A i \in 1..N : s[i] \in T <=> s[i] \in U
    BY LenProperties, ElementOfSeq
  <1>4. f[0] = g[0]
    BY <1>1, <1>2 DEF Keeping
  <1>5. ASSUME NEW i \in 1..N, f[i - 1] = g[i - 1] PROVE f[i] = g[i]
    BY <1>1, <1>2, <1>3, <1>5 DEF Keeping
  <1> HIDE DEF N
  <1> DEFINE same == {i \in 0..N : f[i] = g[i]}
  <1>6. 0 \in same
    BY <1>3, <1>4
  <1>7. \A i \in 1..N : i - 1 \in same => i \in same
    BY <1>3, <1>5
  <1> HIDE DEF same
  <1>8. \A i \in 0..N : i \in same
    BY <1>3, <1>6, <1>7, UpTo
  <1>9. N \in 0..N
    BY <1>3
  <1> QED BY <1>1, <1>2, <1>8, <1>9 DEF same

-----------------------------------------------------------------------------
LEMMA InTurnType ==
    ASSUME NEW S, NEW n \in Nat, NEW o \in [1..n -> SUBSET Seq(S)]
    PROVE  InTurn(o) \in SUBSET Seq(S)
PROOF
  <1>1. n \in 0..n
    OBVIOUS
  <1> QED BY <1>1, InTurnSteps

LEMMA InAnyOrderType ==
    ASSUME NEW S, NEW o, IsFiniteSet(DOMAIN o), \A key \in DOMAIN o : o[key] \in SUBSET Seq(S)
    PROVE  InAnyOrder(o) \in SUBSET Seq(S)
PROOF
  <1>1. Cardinality(DOMAIN o) \in Nat
    BY FS_CardinalityType
  <1>2. ASSUME NEW order \in SetToSeqs(DOMAIN o)
        PROVE  InTurn([k \in DOMAIN order |-> o[order[k]]]) \in SUBSET Seq(S)
    <2> DEFINE n == Cardinality(DOMAIN o)
               V == SUBSET Seq(S)
    <2>1. order \in [1..n -> DOMAIN o]
      BY DEF SetToSeqs
    <2>2. \A k \in 1..n : o[order[k]] \in V
      BY <2>1
    <2> HIDE DEF n, V
    <2>3. [k \in DOMAIN order |-> o[order[k]]] \in [1..n -> V]
      BY <2>1, <2>2
    <2> QED BY <1>1, <2>3, InTurnType DEF n, V
  <1> QED BY <1>2 DEF InAnyOrder

-----------------------------------------------------------------------------
(* The tokens of the texts, the labels among them.  *)
Token == STRING \cup {"table", "collection", "schema", "columns", "relationships"}
Sentence == Seq(Token)
Prose == Seq(Sentence)

LEMMA SeqWidens ==
    ASSUME NEW S, NEW R, S \subseteq R, NEW s \in Seq(S)
    PROVE  s \in Seq(R)
  OBVIOUS

LEMMA TextsAreProse ==
    ASSUME NEW text \in Texts
    PROVE  text \in Prose
PROOF
  <1>1. STRING \subseteq Token
    BY DEF Token
  <1>2. Seq(STRING) \subseteq Sentence
    BY <1>1, SeqWidens DEF Sentence
  <1> QED BY <1>2, SeqWidens DEF Prose, Texts

LEMMA StringText ==
    ASSUME NEW value \in Values, value.kind = "string"
    PROVE  value.text \in Prose
  BY DocumentsAssumption, TextsAreProse

Below(value) == {w \in Values : Depth[w] < Depth[value]}
LEMMA ArrayItems ==
    ASSUME NEW value \in Values, value.kind = "array"
    PROVE  /\ value.items \in Seq(Values) /\ Len(value.items) \in Nat
           /\ DOMAIN value.items = 1..Len(value.items)
           /\ \A k \in DOMAIN value.items : value.items[k] \in Below(value)
PROOF
  <1>1. /\ value.items \in Seq(Values)
        /\ \A item \in Range(value.items) : Depth[item] < Depth[value]
    BY DocumentsAssumption
  <1>2. Len(value.items) \in Nat /\ DOMAIN value.items = 1..Len(value.items)
    BY <1>1, LenProperties
  <1>3. \A k \in DOMAIN value.items : value.items[k] \in Values
    BY <1>1, <1>2, ElementOfSeq
  <1>4. \A k \in DOMAIN value.items : value.items[k] \in Range(value.items)
    BY DEF Range
  <1> QED BY <1>1, <1>2, <1>3, <1>4 DEF Below

LEMMA ObjectEntries ==
    ASSUME NEW value \in Values, value.kind = "object"
    PROVE  /\ IsFiniteSet(DOMAIN value.entries) /\ DOMAIN value.entries \subseteq STRING
           /\ \A key \in DOMAIN value.entries : value.entries[key] \in Below(value)
PROOF
  <1>1. /\ IsFiniteSet(DOMAIN value.entries) /\ DOMAIN value.entries \subseteq STRING
        /\ value.entries \in [DOMAIN value.entries -> Values]
        /\ \A entry \in Range(value.entries) : Depth[entry] < Depth[value]
    BY DocumentsAssumption
  <1>2. \A key \in DOMAIN value.entries : value.entries[key] \in Range(value.entries)
    BY DEF Range
  <1> QED BY <1>1, <1>2 DEF Below

(* The body of collectStrings. *)
Nested(g, value) == [k \in DOMAIN value.items |-> g[value.items[k]]]
Members(g, value, keys) == [key \in DOMAIN value.entries \cap keys |-> g[value.entries[key]]]
Strings(g, value) ==
    IF value.kind = "string" THEN {<<value.text>>}
    ELSE IF value.kind = "array" THEN InTurn(Nested(g, value))
    ELSE IF value.kind = "object"
         THEN InTurn(<<InAnyOrder(Members(g, value, {"subject"})),
                       InAnyOrder(Members(g, value, DOMAIN value.entries \ Labels))>>)
    ELSE {<< >>}
ManyProse == SUBSET Seq(Prose)

LEMMA PairInTurn ==
    ASSUME NEW S, NEW x \in SUBSET Seq(S), NEW y \in SUBSET Seq(S)
    PROVE  InTurn(<<x, y>>) \in SUBSET Seq(S)
PROOF
  <1> DEFINE o == <<x, y>>
  <1>1. o \in [1..2 -> SUBSET Seq(S)] /\ 2 \in Nat
    OBVIOUS
  <1> HIDE DEF o
  <1>2. InTurn(o) \in SUBSET Seq(S)
    BY <1>1, InTurnType
  <1> QED BY <1>2 DEF o

LEMMA NestedType ==
    ASSUME NEW S, NEW g, NEW value \in Values, value.kind = "array",
           \A w \in Below(value) : g[w] \in SUBSET Seq(S)
    PROVE  InTurn(Nested(g, value)) \in SUBSET Seq(S)
PROOF
  <1> DEFINE n == Len(value.items)
             o == Nested(g, value)
             V == SUBSET Seq(S)
  <1>1. n \in Nat /\ o = [k \in 1..n |-> g[value.items[k]]]
    BY ArrayItems DEF Nested
  <1>2. \A k \in 1..n : g[value.items[k]] \in V
    BY ArrayItems
  <1> HIDE DEF n, o, V
  <1>3. o \in [1..n -> V]
    BY <1>1, <1>2
  <1>4. InTurn(o) \in V
    BY <1>1, <1>3, InTurnType DEF V
  <1> QED BY <1>4 DEF o, V

LEMMA MembersType ==
    ASSUME NEW S, NEW g, NEW value \in Values, value.kind = "object", NEW keys,
           \A w \in Below(value) : g[w] \in SUBSET Seq(S)
    PROVE  InAnyOrder(Members(g, value, keys)) \in SUBSET Seq(S)
PROOF
  <1> DEFINE o == Members(g, value, keys)
  <1>1. DOMAIN o = DOMAIN value.entries \cap keys
    BY DEF Members
  <1>2. IsFiniteSet(DOMAIN o)
    <2>1. IsFiniteSet(DOMAIN value.entries)
      BY ObjectEntries
    <2> QED BY <1>1, <2>1, FS_Subset
  <1>3. \A key \in DOMAIN o : o[key] = g[value.entries[key]]
    BY DEF Members
  <1>4. \A key \in DOMAIN o : o[key] \in SUBSET Seq(S)
    BY <1>1, <1>3, ObjectEntries
  <1> HIDE DEF o
  <1>5. InAnyOrder(o) \in SUBSET Seq(S)
    BY <1>2, <1>4, InAnyOrderType
  <1> QED BY <1>5 DEF o

LEMMA StringsType ==
    ASSUME NEW g, NEW value \in Values, \A w \in Below(value) : g[w] \in ManyProse
    PROVE  Strings(g, value) \in ManyProse
PROOF
  <1>1. CASE value.kind = "string"
    <2>1. Strings(g, value) = {<<value.text>>}
      BY <1>1 DEF Strings
    <2>2. value.text \in Prose
      BY <1>1, StringText
    <2> QED BY <2>1, <2>2 DEF ManyProse
  <1>2. CASE value.kind = "array"
    <2>1. Strings(g, value) = InTurn(Nested(g, value))
      BY <1>2 DEF Strings
    <2> QED BY <1>2, <2>1, NestedType DEF ManyProse
  <1>3. CASE value.kind = "object"
    <2> DEFINE x == InAnyOrder(Members(g, value, {"subject"}))
               y == InAnyOrder(Members(g, value, DOMAIN value.entries \ Labels))
    <2>1. Strings(g, value) = InTurn(<<x, y>>)
      BY <1>3 DEF Strings
    <2>2. x \in SUBSET Seq(Prose) /\ y \in SUBSET Seq(Prose)
      BY <1>3, MembersType DEF ManyProse
    <2> HIDE DEF x, y
    <2> QED BY <2>1, <2>2, PairInTurn DEF ManyProse
  <1>4. CASE value.kind \notin {"string", "array", "object"}
    <2>1. Strings(g, value) = {<< >>}
      BY <1>4 DEF Strings
    <2> QED BY <2>1 DEF ManyProse
  <1> QED BY <1>1, <1>2, <1>3, <1>4

LEMMA StringsSame ==
    ASSUME NEW g, NEW h, NEW value \in Values, \A w \in Below(value) : g[w] = h[w]
    PROVE  Strings(g, value) = Strings(h, value)
PROOF
  <1>2. CASE value.kind = "array"
    <2>1. Nested(g, value) = Nested(h, value)
      BY <1>2, ArrayItems DEF Nested
    <2>2. \A f : Strings(f, value) = InTurn(Nested(f, value))
      BY <1>2 DEF Strings
    <2> QED BY <2>1, <2>2
  <1>3. CASE value.kind = "object"
    <2>1. \A keys : Members(g, value, keys) = Members(h, value, keys)
      BY <1>3, ObjectEntries DEF Members
    <2> QED BY <1>3, <2>1 DEF Strings
  <1>4. CASE value.kind \notin {"array", "object"}
    BY <1>4 DEF Strings
  <1> QED BY <1>2, <1>3, <1>4

(* What holds of a node if it holds of all that are less deep holds of all.*)
LEMMA Shallowest ==
    ASSUME NEW Nodes, NEW depth \in [Nodes -> Nat], NEW T,
           \A v \in Nodes : (\A w \in Nodes : depth[w] < depth[v] => w \in T) => v \in T
    PROVE  \A v \in Nodes : v \in T
PROOF
  <1> DEFINE bad == {depth[v] : v \in Nodes \ T}
  <1> SUFFICES ASSUME NEW x \in Nodes \ T PROVE FALSE
    OBVIOUS
  <1>1. bad \subseteq Nat /\ bad # {}
    OBVIOUS
  <1> HIDE DEF bad
  <1>2. PICK n \in bad : \A k \in bad : n <= k
    BY <1>1, LeastNatural
  <1>3. PICK v \in Nodes \ T : depth[v] = n
    BY <1>2 DEF bad
  <1>4. ASSUME NEW w \in Nodes, depth[w] < depth[v], w \notin T PROVE FALSE
    <2>1. depth[w] \in bad
      BY <1>4 DEF bad
    <2>2. n <= depth[w] /\ n \in Nat /\ depth[w] \in Nat
      BY <1>1, <1>2, <2>1
    <2> QED BY <1>3, <1>4, <2>2
  <1> QED BY <1>3, <1>4

LEMMA CollectedIs ==
    collectStrings = [value \in Values |-> Strings(collectStrings, value)]
PROOF
  <1> DEFINE V == ManyProse
             F == [Values -> V]
             step == [f \in F |-> [value \in Values |-> Strings(f, value)]]
             Is(f) == f = [value \in Values |-> Strings(f, value)]
  <1>1. {} \in V
    BY DEF ManyProse
  <1>2. Depth \in [Values -> Nat]
    BY DocumentsAssumption
  <1>3. \A f \in F : \A value \in Values : Strings(f, value) \in V
    BY StringsType DEF Below
  <1>4. \A f, g \in F : \A v \in Values :
            (\A w \in Values : Depth[w] < Depth[v] => f[w] = g[w])
                => Strings(f, v) = Strings(g, v)
    BY StringsSame DEF Below
  <1> HIDE DEF V
  <1>5. step \in [F -> F]
    BY <1>3
  <1>6. \A f \in F : \A v \in Values : step[f][v] = Strings(f, v)
    OBVIOUS
  <1>10. \A f \in F : step[f] = [value \in Values |-> Strings(f, value)]
    OBVIOUS
  <1> HIDE DEF step, F
  <1>7. \A f, g \in F : \A v \in Values :
            (\A w \in Values : Depth[w] < Depth[v] => f[w] = g[w]) => step[f][v] = step[g][v]
    BY <1>4, <1>6
  <1>8. \E f \in F : f = step[f]
    <2>1. Settles(step, Values, V, Depth)
      BY <1>7 DEF Settles, F
    <2>2. step \in [[Values -> V] -> [Values -> V]]
      BY <1>5 DEF F
    <2>3. \E f \in [Values -> V] : FixedBy(f, step)
      BY <1>1, <1>2, <2>1, <2>2, TreeRecursion, Zenon
    <2> QED BY <2>3 DEF F, FixedBy
  <1>9. \E f : Is(f)
    BY <1>8, <1>10, ZenonT(60)
  <1>11. collectStrings = CHOOSE f : Is(f)
    BY DEF collectStrings, Strings, Nested, Members
  <1> HIDE DEF Is
  <1>12. Is(collectStrings)
    BY <1>9, <1>11
  <1> QED BY <1>12 DEF Is

LEMMA CollectedType ==
    ASSUME NEW value \in Values
    PROVE  collectStrings[value] \in ManyProse
PROOF
  <1> DEFINE done == {v \in Values : collectStrings[v] \in ManyProse}
  <1>1. ASSUME NEW v \in Values, \A w \in Values : Depth[w] < Depth[v] => w \in done
        PROVE  v \in done
    <2>1. \A w \in Below(v) : collectStrings[w] \in ManyProse
      BY <1>1 DEF Below
    <2>2. Strings(collectStrings, v) \in ManyProse
      BY <2>1, StringsType
    <2>3. collectStrings[v] = Strings(collectStrings, v)
      BY CollectedIs
    <2> QED BY <2>2, <2>3
  <1>2. Depth \in [Values -> Nat]
    BY DocumentsAssumption
  <1> HIDE DEF done
  <1>3. value \in done
    BY <1>1, <1>2, Shallowest
  <1> QED BY <1>3 DEF done

(* The body of collectLabeledStrings. *)
Worded(g, value) ==
    [key \in DOMAIN value.entries |->
        LET nested == value.entries[key] IN
        IF nested.kind = "string" THEN {<<key>> \o FlattenSeq(nested.text)} ELSE g[nested]]
LabeledStrings(g, value) ==
    IF value.kind = "string" THEN {FlattenSeq(value.text)}
    ELSE IF value.kind = "array" THEN InTurn(Nested(g, value))
    ELSE IF value.kind = "object" THEN InAnyOrder(Worded(g, value))
    ELSE {<< >>}
ManyWords == SUBSET Seq(Token)

LEMMA WordsOf ==
    ASSUME NEW value \in Values, value.kind = "string"
    PROVE  FlattenSeq(value.text) \in Seq(Token)
  BY StringText, FlattenType DEF Prose, Sentence

LEMMA WordedHas ==
    ASSUME NEW g, NEW value \in Values, value.kind = "object",
           \A w \in Below(value) : g[w] \in ManyWords, NEW key \in DOMAIN value.entries
    PROVE  Worded(g, value)[key] \in SUBSET Seq(Token)
PROOF
  <1> DEFINE o == Worded(g, value)
             nested == value.entries[key]
  <1>1. nested \in Below(value) /\ nested \in Values /\ key \in Token
    BY ObjectEntries DEF Below, Token
  <1>2. CASE nested.kind = "string"
    <2> DEFINE one == <<key>>
               rest == FlattenSeq(nested.text)
    <2>1. o[key] = {one \o rest}
      BY <1>2 DEF Worded
    <2>2. one \in Seq(Token)
      BY <1>1
    <2>3. rest \in Seq(Token)
      BY <1>1, <1>2, WordsOf
    <2> HIDE DEF one, rest, o
    <2>4. one \o rest \in Seq(Token)
      BY <2>2, <2>3, ConcatProperties
    <2>5. o[key] \in SUBSET Seq(Token)
      BY <2>1, <2>4
    <2> QED BY <2>5 DEF o
  <1>3. CASE nested.kind # "string"
    <2>1. o[key] = g[nested]
      BY <1>3 DEF Worded
    <2> QED BY <1>1, <2>1 DEF ManyWords
  <1> QED BY <1>2, <1>3

LEMMA WordedType ==
    ASSUME NEW g, NEW value \in Values, value.kind = "object",
           \A w \in Below(value) : g[w] \in ManyWords
    PROVE  InAnyOrder(Worded(g, value)) \in ManyWords
PROOF
  <1> DEFINE o == Worded(g, value)
  <1>1. DOMAIN o = DOMAIN value.entries /\ IsFiniteSet(DOMAIN o)
    BY ObjectEntries DEF Worded
  <1>2. \A key \in DOMAIN o : o[key] \in SUBSET Seq(Token)
    BY <1>1, WordedHas
  <1> HIDE DEF o
  <1>3. InAnyOrder(o) \in SUBSET Seq(Token)
    BY <1>1, <1>2, InAnyOrderType
  <1> QED BY <1>3 DEF o, ManyWords

LEMMA LabeledStringsType ==
    ASSUME NEW g, NEW value \in Values, \A w \in Below(value) : g[w] \in ManyWords
    PROVE  LabeledStrings(g, value) \in ManyWords
PROOF
  <1>1. CASE value.kind = "string"
    <2>1. LabeledStrings(g, value) = {FlattenSeq(value.text)}
      BY <1>1 DEF LabeledStrings
    <2> QED BY <1>1, <2>1, WordsOf DEF ManyWords
  <1>2. CASE value.kind = "array"
    <2>1. LabeledStrings(g, value) = InTurn(Nested(g, value))
      BY <1>2 DEF LabeledStrings
    <2> QED BY <1>2, <2>1, NestedType DEF ManyWords
  <1>3. CASE value.kind = "object"
    <2>1. LabeledStrings(g, value) = InAnyOrder(Worded(g, value))
      BY <1>3 DEF LabeledStrings
    <2> QED BY <1>3, <2>1, WordedType
  <1>4. CASE value.kind \notin {"string", "array", "object"}
    <2>1. LabeledStrings(g, value) = {<< >>}
      BY <1>4 DEF LabeledStrings
    <2> QED BY <2>1 DEF ManyWords
  <1> QED BY <1>1, <1>2, <1>3, <1>4

LEMMA LabeledStringsSame ==
    ASSUME NEW g, NEW h, NEW value \in Values, \A w \in Below(value) : g[w] = h[w]
    PROVE  LabeledStrings(g, value) = LabeledStrings(h, value)
PROOF
  <1>2. CASE value.kind = "array"
    <2>1. Nested(g, value) = Nested(h, value)
      BY <1>2, ArrayItems DEF Nested
    <2>2. \A f : LabeledStrings(f, value) = InTurn(Nested(f, value))
      BY <1>2 DEF LabeledStrings
    <2> QED BY <2>1, <2>2
  <1>3. CASE value.kind = "object"
    <2>1. Worded(g, value) = Worded(h, value)
      BY <1>3, ObjectEntries DEF Worded
    <2> QED BY <1>3, <2>1 DEF LabeledStrings
  <1>4. CASE value.kind \notin {"array", "object"}
    BY <1>4 DEF LabeledStrings
  <1> QED BY <1>2, <1>3, <1>4

LEMMA LabeledIs ==
    collectLabeledStrings = [value \in Values |-> LabeledStrings(collectLabeledStrings, value)]
PROOF
  <1> DEFINE V == ManyWords
             F == [Values -> V]
             step == [f \in F |-> [value \in Values |-> LabeledStrings(f, value)]]
             Is(f) == f = [value \in Values |-> LabeledStrings(f, value)]
  <1>1. {} \in V
    BY DEF ManyWords
  <1>2. Depth \in [Values -> Nat]
    BY DocumentsAssumption
  <1>3. \A f \in F : \A value \in Values : LabeledStrings(f, value) \in V
    BY LabeledStringsType DEF Below
  <1>4. \A f, g \in F : \A v \in Values :
            (\A w \in Values : Depth[w] < Depth[v] => f[w] = g[w])
                => LabeledStrings(f, v) = LabeledStrings(g, v)
    BY LabeledStringsSame DEF Below
  <1> HIDE DEF V
  <1>5. step \in [F -> F]
    BY <1>3
  <1>6. \A f \in F : \A v \in Values : step[f][v] = LabeledStrings(f, v)
    OBVIOUS
  <1>10. \A f \in F : step[f] = [value \in Values |-> LabeledStrings(f, value)]
    OBVIOUS
  <1> HIDE DEF step, F
  <1>7. \A f, g \in F : \A v \in Values :
            (\A w \in Values : Depth[w] < Depth[v] => f[w] = g[w]) => step[f][v] = step[g][v]
    BY <1>4, <1>6
  <1>8. \E f \in F : f = step[f]
    <2>1. Settles(step, Values, V, Depth)
      BY <1>7 DEF Settles, F
    <2>2. step \in [[Values -> V] -> [Values -> V]]
      BY <1>5 DEF F
    <2>3. \E f \in [Values -> V] : FixedBy(f, step)
      BY <1>1, <1>2, <2>1, <2>2, TreeRecursion, Zenon
    <2> QED BY <2>3 DEF F, FixedBy
  <1>9. \E f : Is(f)
    BY <1>8, <1>10, ZenonT(60)
  <1>11. collectLabeledStrings = CHOOSE f : Is(f)
    BY DEF collectLabeledStrings, LabeledStrings, Worded, Nested
  <1> HIDE DEF Is
  <1>12. Is(collectLabeledStrings)
    BY <1>9, <1>11
  <1> QED BY <1>12 DEF Is

LEMMA LabeledType ==
    ASSUME NEW value \in Values
    PROVE  collectLabeledStrings[value] \in ManyWords
PROOF
  <1> DEFINE done == {v \in Values : collectLabeledStrings[v] \in ManyWords}
  <1>1. ASSUME NEW v \in Values, \A w \in Values : Depth[w] < Depth[v] => w \in done
        PROVE  v \in done
    <2>1. \A w \in Below(v) : collectLabeledStrings[w] \in ManyWords
      BY <1>1 DEF Below
    <2>2. LabeledStrings(collectLabeledStrings, v) \in ManyWords
      BY <2>1, LabeledStringsType
    <2>3. collectLabeledStrings[v] = LabeledStrings(collectLabeledStrings, v)
      BY LabeledIs
    <2> QED BY <2>2, <2>3
  <1>2. Depth \in [Values -> Nat]
    BY DocumentsAssumption
  <1> HIDE DEF done
  <1>3. value \in done
    BY <1>1, <1>2, Shallowest
  <1> QED BY <1>3 DEF done

-----------------------------------------------------------------------------
LEMMA MapStringType ==
    ASSUME NEW item \in Values, item.kind = "object", NEW S, NEW keys \in Seq(S)
    PROVE  mapString(item, keys) \in Sentence
PROOF
  <1> DEFINE texts == {key \in DOMAIN item.entries : item.entries[key].kind = "string"}
             found == Only(keys, texts)
             first == Head(found)
  <1>1. mapString(item, keys)
            = IF found = << >> THEN << >> ELSE FlattenSeq(item.entries[first].text)
    BY DEF mapString
  <1>2. found \in Seq(S \cap texts)
    BY OnlyType
  <1> HIDE DEF found
  <1>3. CASE found = << >>
    BY <1>1, <1>3 DEF Sentence
  <1>4. CASE found # << >>
    <2>1. first \in texts
      BY <1>2, <1>4, HeadTailProperties
    <2> HIDE DEF first
    <2>2. item.entries[first] \in Values /\ item.entries[first].kind = "string"
      BY <2>1, ObjectEntries DEF Below
    <2>3. FlattenSeq(item.entries[first].text) \in Sentence
      BY <2>2, WordsOf DEF Sentence
    <2> QED BY <1>1, <1>4, <2>3
  <1> QED BY <1>3, <1>4

LEMMA ConcatType ==
    ASSUME NEW x \in Sentence, NEW y \in Sentence
    PROVE  x \o y \in Sentence
  BY ConcatProperties DEF Sentence

LEMMA ColumnWordsType ==
    ASSUME NEW field \in Values
    PROVE  columnWords(field) \in Sentence
PROOF
  <1> DEFINE keys == <<"name", "path">>
             type == <<"type">>
             name == mapString(field, keys)
             rest == mapString(field, type)
  <1>1. CASE field.kind # "object"
    BY <1>1 DEF columnWords, Sentence
  <1>2. CASE field.kind = "object"
    <2>1. keys \in Seq({"name", "path"}) /\ type \in Seq({"type"})
      OBVIOUS
    <2>2. columnWords(field) = IF name = << >> THEN << >> ELSE name \o rest
      BY <1>2 DEF columnWords
    <2> HIDE DEF keys, type
    <2>3. name \in Sentence /\ rest \in Sentence
      BY <1>2, <2>1, MapStringType
    <2> HIDE DEF name, rest
    <2>4. name \o rest \in Sentence
      BY <2>3, ConcatType
    <2> QED BY <2>2, <2>3, <2>4
  <1> QED BY <1>1, <1>2

Arrays == {value \in Values : value.kind = "array"}
LEMMA ArrayAtType ==
    ASSUME NEW item \in Values, item.kind = "object", NEW key
    PROVE  ArrayAt(item, key) \in Seq(Arrays)
PROOF
  <1>1. CASE key \in DOMAIN item.entries /\ item.entries[key].kind = "array"
    <2>1. item.entries[key] \in Arrays
      BY <1>1, ObjectEntries DEF Arrays, Below
    <2>2. ArrayAt(item, key) = <<item.entries[key]>>
      BY <1>1 DEF ArrayAt
    <2> QED BY <2>1, <2>2
  <1>2. CASE ~(key \in DOMAIN item.entries /\ item.entries[key].kind = "array")
    BY <1>2 DEF ArrayAt
  <1> QED BY <1>1, <1>2

LEMMA NamedType ==
    ASSUME NEW label \in Token, NEW words \in Sentence
    PROVE  Named(label, words) \in Sentence
PROOF
  <1>1. <<label>> \in Sentence
    BY DEF Sentence
  <1>2. <<label>> \o words \in Sentence
    BY <1>1, ConcatType
  <1> QED BY <1>2 DEF Named

(* The parts of catalogItemDocument. *)
ColumnList(entries) ==
    <<"columns">> \o FlattenSeq([k \in DOMAIN entries.items |-> columnWords(entries.items[k])])
Listed(item) == ArrayAt(item, "columns") \o ArrayAt(item, "fields")
HeadWords(item, label) ==
    Named(label, mapString(item, <<"name">>)) \o Named("schema", mapString(item, <<"schema">>))
        \o FlattenSeq([k \in DOMAIN Listed(item) |-> ColumnList(Listed(item)[k])])
Relations(item) ==
    [k \in DOMAIN ArrayAt(item, "foreign_keys") |->
        {<<"relationships">> \o w : w \in collectLabeledStrings[ArrayAt(item, "foreign_keys")[k]]}]
ItemWords(item, label) == InTurn(<<{HeadWords(item, label)}>> \o Relations(item))

LEMMA LabelsAreTokens ==
    {"table", "collection", "schema", "columns", "relationships"} \subseteq Token
  BY DEF Token

LEMMA ColumnListType ==
    ASSUME NEW entries \in Arrays
    PROVE  ColumnList(entries) \in Sentence
PROOF
  <1> DEFINE n == Len(entries.items)
             s == [k \in DOMAIN entries.items |-> columnWords(entries.items[k])]
             label == <<"columns">>
  <1>1. n \in Nat /\ DOMAIN entries.items = 1..n /\ \A k \in 1..n : entries.items[k] \in Values
    BY ArrayItems DEF Arrays, Below
  <1>2. \A k \in 1..n : columnWords(entries.items[k]) \in Sentence
    BY <1>1, ColumnWordsType
  <1>3. s = [k \in 1..n |-> columnWords(entries.items[k])]
    BY <1>1
  <1> HIDE DEF n, s
  <1>4. s \in [1..n -> Sentence]
    BY <1>2, <1>3
  <1>5. s \in Seq(Sentence)
    BY <1>1, <1>4
  <1>6. FlattenSeq(s) \in Sentence
    BY <1>5, FlattenType DEF Sentence
  <1>7. label \in Sentence
    BY LabelsAreTokens DEF Sentence
  <1> HIDE DEF label
  <1>8. label \o FlattenSeq(s) \in Sentence
    BY <1>6, <1>7, ConcatType
  <1> QED BY <1>8 DEF ColumnList, label, s

LEMMA ListedType ==
    ASSUME NEW item \in Values, item.kind = "object"
    PROVE  FlattenSeq([k \in DOMAIN Listed(item) |-> ColumnList(Listed(item)[k])]) \in Sentence
PROOF
  <1> DEFINE listed == Listed(item)
             n == Len(listed)
             s == [k \in DOMAIN listed |-> ColumnList(listed[k])]
  <1>1. listed \in Seq(Arrays)
    BY ArrayAtType, ConcatProperties DEF Listed
  <1> HIDE DEF listed
  <1>2. n \in Nat /\ DOMAIN listed = 1..n /\ \A k \in 1..n : listed[k] \in Arrays
    BY <1>1, LenProperties, ElementOfSeq
  <1>3. \A k \in 1..n : ColumnList(listed[k]) \in Sentence
    BY <1>2, ColumnListType
  <1>4. s = [k \in 1..n |-> ColumnList(listed[k])]
    BY <1>2
  <1> HIDE DEF n, s
  <1>5. s \in [1..n -> Sentence]
    BY <1>3, <1>4
  <1>6. s \in Seq(Sentence)
    BY <1>2, <1>5
  <1>7. FlattenSeq(s) \in Sentence
    BY <1>6, FlattenType DEF Sentence
  <1> QED BY <1>7 DEF s, listed

LEMMA FrontType ==
    ASSUME NEW item \in Values, item.kind = "object", NEW label \in Token
    PROVE  HeadWords(item, label) \in Sentence
PROOF
  <1> DEFINE name == <<"name">>
             schema == <<"schema">>
             a == Named(label, mapString(item, name))
             b == Named("schema", mapString(item, schema))
             c == FlattenSeq([k \in DOMAIN Listed(item) |-> ColumnList(Listed(item)[k])])
  <1>1. name \in Seq({"name"}) /\ schema \in Seq({"schema"})
    OBVIOUS
  <1>2. "schema" \in Token
    BY LabelsAreTokens
  <1> HIDE DEF name, schema
  <1>3. mapString(item, name) \in Sentence /\ mapString(item, schema) \in Sentence
    BY <1>1, MapStringType
  <1>4. a \in Sentence /\ b \in Sentence
    BY <1>2, <1>3, NamedType
  <1>5. c \in Sentence
    BY ListedType
  <1>6. HeadWords(item, label) = a \o b \o c
    BY DEF HeadWords, name, schema
  <1> HIDE DEF a, b, c
  <1>7. a \o b \in Sentence
    BY <1>4, ConcatType
  <1>8. (a \o b) \o c \in Sentence
    BY <1>5, <1>7, ConcatType
  <1> QED BY <1>6, <1>8

LEMMA RelationsType ==
    ASSUME NEW item \in Values, item.kind = "object"
    PROVE  Relations(item) \in Seq(ManyWords)
PROOF
  <1> DEFINE keys == ArrayAt(item, "foreign_keys")
             n == Len(keys)
             label == <<"relationships">>
             linked(k) == {label \o w : w \in collectLabeledStrings[keys[k]]}
  <1>1. keys \in Seq(Arrays)
    BY ArrayAtType
  <1>2. Relations(item) = [k \in DOMAIN keys |-> linked(k)]
    BY DEF Relations
  <1>3. label \in Sentence
    BY LabelsAreTokens DEF Sentence
  <1> HIDE DEF keys, label
  <1>4. n \in Nat /\ DOMAIN keys = 1..n /\ \A k \in 1..n : keys[k] \in Values
    BY <1>1, LenProperties, ElementOfSeq DEF Arrays
  <1>5. ASSUME NEW k \in 1..n PROVE linked(k) \in ManyWords
    <2> SUFFICES ASSUME NEW z \in linked(k) PROVE z \in Sentence
      BY DEF ManyWords, Sentence
    <2>1. PICK w \in collectLabeledStrings[keys[k]] : z = label \o w
      OBVIOUS
    <2>2. w \in Sentence
      BY <1>4, LabeledType DEF ManyWords, Sentence
    <2> QED BY <1>3, <2>1, <2>2, ConcatType
  <1>6. Relations(item) = [k \in 1..n |-> linked(k)]
    BY <1>2, <1>4
  <1> HIDE DEF n, linked
  <1>7. Relations(item) \in [1..n -> ManyWords]
    BY <1>5, <1>6
  <1> QED BY <1>4, <1>7

LEMMA InTurnSeq ==
    ASSUME NEW S, NEW o \in Seq(SUBSET Seq(S))
    PROVE  InTurn(o) \in SUBSET Seq(S)
PROOF
  <1> DEFINE n == Len(o)
             V == SUBSET Seq(S)
  <1>1. n \in Nat /\ o \in [1..n -> V]
    BY LenProperties
  <1> HIDE DEF n
  <1> QED BY <1>1, InTurnType

LEMMA ItemWordsType ==
    ASSUME NEW item \in Values, item.kind = "object", NEW label \in Token
    PROVE  ItemWords(item, label) \in ManyWords
PROOF
  <1> DEFINE head == <<{HeadWords(item, label)}>>
             o == head \o Relations(item)
  <1>1. {HeadWords(item, label)} \in ManyWords
    BY FrontType DEF ManyWords, Sentence
  <1>2. head \in Seq(ManyWords)
    BY <1>1
  <1> HIDE DEF head
  <1>3. o \in Seq(ManyWords)
    BY <1>2, RelationsType, ConcatProperties
  <1>4. ItemWords(item, label) = InTurn(o)
    BY DEF ItemWords, head
  <1> HIDE DEF o
  <1>5. InTurn(o) \in ManyWords
    BY <1>3, InTurnSeq DEF ManyWords
  <1> QED BY <1>4, <1>5

(* What a reader makes of a file: documents that are not blank.            *)
Doc == Prose \ {<< >>}
ManyDocs == SUBSET Seq(Doc)

OneSentence(w) == IF w = << >> THEN << >> ELSE <<<<w>>>>
LEMMA CatalogItemType ==
    ASSUME NEW item \in Values, NEW label \in Token
    PROVE  catalogItemDocument(item, label) \in ManyDocs
PROOF
  <1>1. CASE item.kind # "object"
    BY <1>1 DEF catalogItemDocument, ManyDocs
  <1>2. CASE item.kind = "object"
    <2>1. catalogItemDocument(item, label) = {OneSentence(w) : w \in ItemWords(item, label)}
      BY <1>2 DEF catalogItemDocument, OneSentence, ItemWords, Relations, HeadWords, Listed,
                  ColumnList
    <2>2. ASSUME NEW w \in Sentence PROVE OneSentence(w) \in Seq(Doc)
      <3> DEFINE text == <<w>>
      <3>1. text \in Prose /\ text # << >>
        BY DEF Prose
      <3>2. text \in Doc
        BY <3>1 DEF Doc
      <3> HIDE DEF text
      <3>3. <<text>> \in Seq(Doc)
        BY <3>2
      <3>4. OneSentence(w) = << >> \/ OneSentence(w) = <<text>>
        BY DEF OneSentence, text
      <3>5. << >> \in Seq(Doc)
        OBVIOUS
      <3> QED BY <3>3, <3>4, <3>5
    <2> SUFFICES ASSUME NEW z \in catalogItemDocument(item, label) PROVE z \in Seq(Doc)
      BY DEF ManyDocs
    <2>3. PICK w \in ItemWords(item, label) : z = OneSentence(w)
      BY <2>1
    <2>4. w \in Sentence
      BY <1>2, ItemWordsType DEF ManyWords, Sentence
    <2> QED BY <2>2, <2>3, <2>4
  <1> QED BY <1>1, <1>2

Itemized(array, label) == [k \in DOMAIN array.items |-> catalogItemDocument(array.items[k], label)]
Section(value, key, label) ==
    IF ArrayAt(value, key) = << >> THEN {<< >>} ELSE InTurn(Itemized(ArrayAt(value, key)[1], label))
LEMMA SectionType ==
    ASSUME NEW value \in Values, value.kind = "object", NEW key, NEW label \in Token
    PROVE  Section(value, key, label) \in ManyDocs
PROOF
  <1> DEFINE lists == ArrayAt(value, key)
  <1>1. lists \in Seq(Arrays)
    BY ArrayAtType
  <1>2. CASE lists = << >>
    BY <1>2 DEF Section, ManyDocs
  <1>3. CASE lists # << >>
    <2> DEFINE array == lists[1]
               n == Len(array.items)
               o == Itemized(array, label)
    <2>1. Section(value, key, label) = InTurn(o)
      BY <1>3 DEF Section
    <2>2. array \in Arrays
      <3>1. Len(lists) \in Nat /\ Len(lists) # 0
        BY <1>1, <1>3, LenProperties, EmptySeq
      <3>2. 1 \in 1..Len(lists)
        BY <3>1
      <3> QED BY <1>1, <3>2, ElementOfSeq
    <2> HIDE DEF array
    <2>3. /\ n \in Nat /\ DOMAIN array.items = 1..n
          /\ \A k \in 1..n : array.items[k] \in Values
      BY <2>2, ArrayItems DEF Arrays, Below
    <2>4. \A k \in 1..n : catalogItemDocument(array.items[k], label) \in ManyDocs
      BY <2>3, CatalogItemType
    <2>5. o = [k \in 1..n |-> catalogItemDocument(array.items[k], label)]
      BY <2>3 DEF Itemized
    <2> HIDE DEF n, o
    <2>6. o \in [1..n -> ManyDocs]
      BY <2>4, <2>5
    <2>7. InTurn(o) \in ManyDocs
      BY <2>3, <2>6, InTurnType DEF ManyDocs
    <2> QED BY <2>1, <2>7
  <1> QED BY <1>2, <1>3

LEMMA CatalogType ==
    ASSUME NEW value \in Values
    PROVE  readCatalogJSON(value) \in ManyDocs
PROOF
  <1>1. CASE value.kind # "object"
    BY <1>1 DEF readCatalogJSON, ManyDocs
  <1>2. CASE value.kind = "object"
    <2> DEFINE x == Section(value, "tables", "table")
               y == Section(value, "collections", "collection")
    <2>1. readCatalogJSON(value) = InTurn(<<x, y>>)
      BY <1>2 DEF readCatalogJSON, Section, Itemized
    <2>2. x \in ManyDocs /\ y \in ManyDocs
      BY <1>2, SectionType, LabelsAreTokens
    <2> HIDE DEF x, y
    <2>3. InTurn(<<x, y>>) \in ManyDocs
      BY <2>2, PairInTurn DEF ManyDocs
    <2> QED BY <2>1, <2>3
  <1> QED BY <1>1, <1>2

LEMMA OneType ==
    ASSUME NEW text \in Prose
    PROVE  One(text) \in Seq(Doc)
PROOF
  <1>1. CASE text = << >>
    BY <1>1 DEF One
  <1>2. CASE text # << >>
    <2>1. text \in Doc
      BY <1>2 DEF Doc
    <2>2. <<text>> \in Seq(Doc)
      BY <2>1
    <2> QED BY <1>2, <2>2 DEF One
  <1> QED BY <1>1, <1>2

LEMMA MarksAreProse ==
    Marks \in Prose /\ Marks # << >>
PROOF
  <1>1. << >> \in Sentence
    BY DEF Sentence
  <1> QED BY <1>1 DEF Marks, Prose

LEMMA NonblankType ==
    ASSUME NEW texts \in Seq(Prose)
    PROVE  Nonblank(texts) \in Seq(Doc)
PROOF
  <1> DEFINE kept == Range(texts) \ {<< >>}
  <1>1. Nonblank(texts) \in Seq(Prose \cap kept)
    BY OnlyType DEF Nonblank
  <1>2. Prose \cap kept \subseteq Doc
    BY DEF Doc
  <1> HIDE DEF kept
  <1> QED BY <1>1, <1>2, SeqWidens

LEMMA ItemTextType ==
    ASSUME NEW texts \in Seq(Prose)
    PROVE  itemText(texts) \in Prose /\ Joined(texts) \in Prose
PROOF
  <1>1. FlattenSeq(texts) \in Prose
    BY FlattenType DEF Prose
  <1>2. Nonblank(texts) \in Seq(Prose)
    <2>1. Doc \subseteq Prose
      BY DEF Doc
    <2> QED BY <2>1, NonblankType, SeqWidens
  <1>3. FlattenSeq(Nonblank(texts)) \in Prose
    BY <1>2, FlattenType DEF Prose
  <1>4. itemText(texts) = Marks \/ itemText(texts) = FlattenSeq(texts)
    BY DEF itemText
  <1> QED BY <1>1, <1>3, <1>4, MarksAreProse DEF Joined

ItemDocuments(value) == {One(itemText(texts)) : texts \in collectStrings[value]}
JoinedDocument(value) == {One(Joined(texts)) : texts \in collectStrings[value]}
LEMMA ItemDocumentsType ==
    ASSUME NEW value \in Values
    PROVE  ItemDocuments(value) \in ManyDocs /\ JoinedDocument(value) \in ManyDocs
PROOF
  <1>1. \A texts \in collectStrings[value] : texts \in Seq(Prose)
    BY CollectedType DEF ManyProse
  <1>2. \A texts \in collectStrings[value] :
            One(itemText(texts)) \in Seq(Doc) /\ One(Joined(texts)) \in Seq(Doc)
    BY <1>1, ItemTextType, OneType
  <1>3. ItemDocuments(value) \in ManyDocs
    <2> SUFFICES ASSUME NEW z \in ItemDocuments(value) PROVE z \in Seq(Doc)
      BY DEF ManyDocs
    <2> QED BY <1>2 DEF ItemDocuments
  <1>4. JoinedDocument(value) \in ManyDocs
    <2> SUFFICES ASSUME NEW z \in JoinedDocument(value) PROVE z \in Seq(Doc)
      BY DEF ManyDocs
    <2> QED BY <1>2 DEF JoinedDocument
  <1> QED BY <1>3, <1>4

LEMMA JSONType ==
    ASSUME NEW value \in Values
    PROVE  readJSON(value) \in ManyDocs
PROOF
  <1> DEFINE o == [k \in DOMAIN value.items |-> ItemDocuments(value.items[k])]
  <1>1. readJSON(value) = IF readCatalogJSON(value) # {<< >>} THEN readCatalogJSON(value)
                          ELSE IF value.kind = "array" THEN InTurn(o) ELSE JoinedDocument(value)
    BY DEF readJSON, ItemDocuments, JoinedDocument
  <1> HIDE DEF o
  <1>2. readCatalogJSON(value) \in ManyDocs
    BY CatalogType
  <1>3. JoinedDocument(value) \in ManyDocs
    BY ItemDocumentsType
  <1>4. ASSUME value.kind = "array" PROVE InTurn(o) \in ManyDocs
    <2> DEFINE n == Len(value.items)
    <2>1. n \in Nat /\ DOMAIN value.items = 1..n /\ \A k \in 1..n : value.items[k] \in Values
      BY <1>4, ArrayItems DEF Below
    <2>2. \A k \in 1..n : ItemDocuments(value.items[k]) \in ManyDocs
      BY <2>1, ItemDocumentsType
    <2>3. o = [k \in 1..n |-> ItemDocuments(value.items[k])]
      BY <2>1 DEF o
    <2> HIDE DEF n
    <2>4. o \in [1..n -> ManyDocs]
      BY <2>2, <2>3
    <2> QED BY <2>1, <2>4, InTurnType DEF ManyDocs
  <1> QED BY <1>1, <1>2, <1>3, <1>4

LEMMA BesideType ==
    ASSUME NEW text \in Doc, NEW cell \in Doc
    PROVE  Beside(text, cell) \in Doc
PROOF
  <1> DEFINE n == Len(text)
             front == SubSeq(text, 1, n - 1)
             middle == <<text[n] \o Head(cell)>>
             rest == Tail(cell)
  <1>1. text \in Seq(Sentence) /\ cell \in Seq(Sentence) /\ text # << >> /\ cell # << >>
    BY DEF Doc, Prose
  <1>2. n \in Nat /\ n # 0 /\ \A i \in 1..n : text[i] \in Sentence
    BY <1>1, LenProperties, EmptySeq, ElementOfSeq
  <1>3. front \in Seq(Sentence)
    <2>1. \A i \in 1..n - 1 : text[i] \in Sentence
      BY <1>2
    <2> QED BY <1>2, <2>1, SubSeqProperties
  <1>4. text[n] \in Sentence /\ Head(cell) \in Sentence /\ rest \in Seq(Sentence)
    BY <1>1, <1>2, HeadTailProperties
  <1>5. text[n] \o Head(cell) \in Sentence
    BY <1>4, ConcatType
  <1>6. middle \in Seq(Sentence) /\ Len(middle) = 1
    BY <1>5
  <1>7. Beside(text, cell) = front \o middle \o rest
    BY DEF Beside, Front, Last
  <1> HIDE DEF front, middle, rest, n
  <1> DEFINE both == front \o middle
  <1>8. both \in Seq(Sentence) /\ Len(both) = Len(front) + 1
    <2>1. both \in Seq(Sentence)
      BY <1>3, <1>6, ConcatProperties
    <2>2. Len(both) = Len(front) + Len(middle)
      BY <1>3, <1>6, ConcatProperties
    <2> QED BY <1>6, <2>1, <2>2
  <1> HIDE DEF both
  <1>9. /\ both \o rest \in Seq(Sentence)
        /\ Len(both \o rest) = Len(front) + 1 + Len(rest)
    <2>1. both \o rest \in Seq(Sentence)
      BY <1>4, <1>8, ConcatProperties
    <2>2. Len(both \o rest) = Len(both) + Len(rest)
      BY <1>4, <1>8, ConcatProperties
    <2> QED BY <1>8, <2>1, <2>2
  <1>10. Len(front) \in Nat /\ Len(rest) \in Nat
    BY <1>3, <1>4, LenProperties
  <1>11. Beside(text, cell) # << >>
    <2> DEFINE whole == both \o rest
               a == Len(front)
               b == Len(rest)
               none == << >>
    <2> HIDE DEF whole, none, a, b
    <2>1. Len(whole) = a + 1 + b /\ a \in Nat /\ b \in Nat
      BY <1>9, <1>10 DEF whole, a, b
    <2>2. Len(none) = 0
      BY EmptySeq DEF none
    <2>3. whole # none
      BY <2>1, <2>2
    <2> QED BY <1>7, <2>3 DEF whole, none, both
  <1> QED BY <1>7, <1>9, <1>11 DEF Doc, Prose, both

LEMMA RowTextType ==
    ASSUME NEW row \in Seq(Prose)
    PROVE  rowText(row) \in Prose
PROOF
  <1> DEFINE full == Nonblank(row)
             N == Len(full)
             V == Doc
             step == [k \in 1..N |-> [x \in V |-> Beside(x, full[k])]]
             next(g, i) == IF i = 0 THEN Marks ELSE Beside(g[i - 1], full[i])
             Is(g) == g = [i \in 0..N |-> next(g, i)]
             chosen == CHOOSE g : Is(g)
  <1>0. full \in Seq(Doc)
    BY NonblankType
  <1>1. N \in Nat /\ \A k \in 1..N : full[k] \in V
    BY <1>0, LenProperties, ElementOfSeq
  <1>2. Marks \in V
    BY MarksAreProse DEF Doc
  <1>5. rowText(row) = IF full = << >> /\ Len(row) < 2 THEN << >> ELSE chosen[N]
    BY DEF rowText
  <1> HIDE DEF full, N
  <1>3. \A k \in 1..N : \A x \in V : Beside(x, full[k]) \in V
    BY <1>1, BesideType
  <1>4. \A k \in 1..N : \A x \in V : step[k][x] = Beside(x, full[k])
    OBVIOUS
  <1> HIDE DEF V
  <1>6. step \in [1..N -> [V -> V]]
    BY <1>3
  <1> HIDE DEF step
  <1>7. PICK r \in [0..N -> V] : r[0] = Marks /\ \A i \in 1..N : r[i] = step[i][r[i - 1]]
    <2>1. \E r \in [0..N -> V] : StepByStep(r, Marks, N, step)
      BY <1>1, <1>2, <1>6, RecursionExists, Zenon
    <2> QED BY <2>1 DEF StepByStep
  <1>8. \A i \in 1..N : r[i] = Beside(r[i - 1], full[i])
    <2> TAKE i \in 1..N
    <2>1. i - 1 \in 0..N
      BY <1>1
    <2>2. r[i - 1] \in V
      BY <1>7, <2>1
    <2> QED BY <1>4, <1>7, <2>2
  <1>9. \A i \in 0..N : r[i] = next(r, i)
    <2> TAKE i \in 0..N
    <2>1. CASE i = 0
      BY <1>7, <2>1
    <2>2. CASE i # 0
      <3>1. i \in 1..N
        BY <1>1, <2>2
      <3> QED BY <1>8, <2>2, <3>1
    <2> QED BY <2>1, <2>2
  <1>10. Is(r)
    <2> HIDE DEF next
    <2>1. r = [i \in 0..N |-> r[i]]
      OBVIOUS
    <2> QED BY <1>9, <2>1
  <1>11. Is(chosen)
    <2> HIDE DEF Is
    <2> QED BY <1>10
  <1>12. \A i \in 0..N : chosen[i] = next(chosen, i)
    <2> HIDE DEF chosen, next
    <2> QED BY <1>11
  <1> HIDE DEF chosen, Is
  <1> DEFINE typed == {i \in 0..N : chosen[i] \in V}
  <1>13. \A i \in 0..N : i \in typed
    <2>1. 0 \in typed
      BY <1>1, <1>2, <1>12
    <2>2. ASSUME NEW i \in 1..N, i - 1 \in typed PROVE i \in typed
      <3>1. i \in 0..N /\ i # 0 /\ chosen[i - 1] \in V
        BY <1>1, <2>2
      <3>2. chosen[i] = Beside(chosen[i - 1], full[i])
        BY <1>12, <3>1
      <3>3. chosen[i] \in V
        BY <1>1, <3>1, <3>2, BesideType DEF V
      <3> QED BY <3>1, <3>3
    <2> HIDE DEF typed
    <2> QED BY <1>1, <2>1, <2>2, UpTo
  <1>14. N \in 0..N
    BY <1>1
  <1>15. chosen[N] \in Doc
    BY <1>13, <1>14 DEF V
  <1>16. << >> \in Prose
    BY DEF Prose
  <1> QED BY <1>5, <1>15, <1>16 DEF Doc

LEMMA CSVType ==
    ASSUME NEW rows \in Seq(Seq(Texts))
    PROVE  readCSV(rows) \in ManyDocs
PROOF
  <1> DEFINE N == Len(rows)
             cells == [k \in DOMAIN Tail(rows) |-> rows[k + 1][2]]
             texts == [k \in DOMAIN rows |-> rowText(rows[k])]
  <1>1. rows \in Seq(Seq(Prose))
    <2>1. Texts \subseteq Prose
      BY TextsAreProse
    <2>2. Seq(Texts) \subseteq Seq(Prose)
      BY <2>1, SeqWidens
    <2> QED BY <2>2, SeqWidens
  <1>2. N \in Nat /\ DOMAIN rows = 1..N /\ \A k \in 1..N : rows[k] \in Seq(Prose)
    BY <1>1, LenProperties, ElementOfSeq
  <1>3. CASE \E k \in DOMAIN rows : Len(rows[k]) # Len(rows[1])
    BY <1>3 DEF readCSV, ManyDocs
  <1>4. CASE ~ \E k \in DOMAIN rows : Len(rows[k]) # Len(rows[1])
    <2>1. readCSV(rows) = {Nonblank(IF Explains(rows) THEN cells ELSE texts)}
      BY <1>4 DEF readCSV
    <2>2. texts \in Seq(Prose)
      <3>1. \A k \in 1..N : rowText(rows[k]) \in Prose
        BY <1>2, RowTextType
      <3>2. texts = [k \in 1..N |-> rowText(rows[k])]
        BY <1>2
      <3> HIDE DEF texts, N
      <3>3. texts \in [1..N -> Prose]
        BY <3>1, <3>2
      <3> QED BY <1>2, <3>3
    <2>3. ASSUME Explains(rows) PROVE cells \in Seq(Prose)
      <3>1. rows # << >> /\ Len(rows[1]) >= 2
        BY <2>3 DEF Explains
      <3>2. N # 0 /\ DOMAIN Tail(rows) = 1..N - 1
        BY <1>1, <1>2, <3>1, HeadTailProperties, EmptySeq, LenProperties
      <3>3. ASSUME NEW k \in 1..N - 1 PROVE rows[k + 1][2] \in Prose
        <4>1. k + 1 \in 1..N
          BY <1>2
        <4>2. rows[k + 1] \in Seq(Prose) /\ Len(rows[k + 1]) = Len(rows[1])
          BY <1>2, <1>4, <4>1
        <4>3. 2 \in 1..Len(rows[k + 1])
          BY <3>1, <4>2, LenProperties
        <4> QED BY <4>2, <4>3, ElementOfSeq
      <3>4. cells = [k \in 1..N - 1 |-> rows[k + 1][2]]
        BY <3>2
      <3>5. N - 1 \in Nat
        BY <1>2, <3>2
      <3> HIDE DEF cells, N
      <3>6. cells \in [1..N - 1 -> Prose]
        BY <3>3, <3>4
      <3> QED BY <3>5, <3>6
    <2> HIDE DEF cells, texts
    <2>4. Nonblank(IF Explains(rows) THEN cells ELSE texts) \in Seq(Doc)
      BY <2>2, <2>3, NonblankType
    <2> QED BY <2>1, <2>4 DEF ManyDocs
  <1> QED BY <1>3, <1>4

LEMMA ReadType ==
    ASSUME NEW f, IsFile(f)
    PROVE  Read(f) \in ManyDocs
PROOF
  <1>1. CASE f.format = "text"
    <2>1. f.content \in Prose
      BY <1>1, TextsAreProse DEF IsFile
    <2>2. Read(f) = {One(f.content)}
      BY <1>1 DEF Read
    <2> QED BY <2>1, <2>2, OneType DEF ManyDocs
  <1>2. CASE f.format = "json"
    <2>1. Read(f) = readJSON(f.content)
      BY <1>2 DEF Read
    <2>2. f.content \in Values
      BY <1>2 DEF IsFile
    <2> QED BY <2>1, <2>2, JSONType
  <1>3. CASE f.format = "csv"
    <2>1. Read(f) = readCSV(f.content)
      BY <1>3 DEF Read
    <2>2. f.content \in Seq(Seq(Texts))
      BY <1>3 DEF IsFile
    <2> QED BY <2>1, <2>2, CSVType
  <1>4. CASE f.format \notin {"text", "json", "csv"}
    <2>1. Read(f) = {} \/ Read(f) = {<< >>}
      BY <1>4 DEF Read
    <2>2. << >> \in Seq(Doc)
      OBVIOUS
    <2>3. {} \in ManyDocs /\ {<< >>} \in ManyDocs
      BY <2>2 DEF ManyDocs
    <2> QED BY <2>1, <2>3
  <1> QED BY <1>1, <1>2, <1>3, <1>4

-----------------------------------------------------------------------------
(* The files of a folder, and what Load makes of them place by place.      *)
IsFolder(files) == DOMAIN files \subseteq 1..Places /\ \A p \in DOMAIN files : IsFile(files[p])
Entry == [live : BOOLEAN, text : Doc]
Unlive == {e \in Entry : ~e.live}
Tagged(f, texts) == [k \in DOMAIN texts |-> [live |-> f.live, text |-> texts[k]]]
OfFile(f) == {Tagged(f, texts) : texts \in Read(f)}
Outcomes(files) ==
    [place \in 1..Places |-> IF place \in DOMAIN files THEN OfFile(files[place]) ELSE {<< >>}]
Kept(documents) == Only(documents, {d \in Range(documents) : ~d.live})
TextsOf(documents) == [k \in DOMAIN documents |-> documents[k].text]

LEMMA LoadIs ==
    ASSUME NEW files
    PROVE  Load(files) = InTurn(Outcomes(files)) \ {<< >>}
  BY DEF Load, Outcomes, OfFile, Tagged

LEMMA TrainFromIs ==
    ASSUME NEW files
    PROVE  trainFrom(files) = {TextsOf(Kept(documents)) : documents \in Load(files)} \ {<< >>}
  BY DEF trainFrom, TextsOf, Kept

LEMMA TaggedType ==
    ASSUME NEW f, IsFile(f), NEW texts \in Seq(Doc)
    PROVE  Tagged(f, texts) \in Seq({e \in Entry : e.live = f.live})
PROOF
  <1> DEFINE n == Len(texts)
             V == {e \in Entry : e.live = f.live}
             entry(k) == [live |-> f.live, text |-> texts[k]]
  <1>1. n \in Nat /\ DOMAIN texts = 1..n /\ \A k \in 1..n : texts[k] \in Doc
    BY LenProperties, ElementOfSeq
  <1>2. f.live \in BOOLEAN
    BY DEF IsFile
  <1>3. \A k \in 1..n : entry(k) \in V
    BY <1>1, <1>2 DEF Entry
  <1>4. Tagged(f, texts) = [k \in 1..n |-> entry(k)]
    BY <1>1 DEF Tagged
  <1> HIDE DEF n, V, entry
  <1>5. Tagged(f, texts) \in [1..n -> V]
    BY <1>3, <1>4
  <1>6. Tagged(f, texts) \in Seq(V)
    BY <1>1, <1>5
  <1> QED BY <1>6 DEF V

LEMMA OfFileType ==
    ASSUME NEW f, IsFile(f)
    PROVE  OfFile(f) \in SUBSET Seq({e \in Entry : e.live = f.live})
PROOF
  <1> SUFFICES ASSUME NEW z \in OfFile(f) PROVE z \in Seq({e \in Entry : e.live = f.live})
    OBVIOUS
  <1>1. PICK texts \in Read(f) : z = Tagged(f, texts)
    BY DEF OfFile
  <1>2. texts \in Seq(Doc)
    BY ReadType DEF ManyDocs
  <1> QED BY <1>1, <1>2, TaggedType

LEMMA OutcomesType ==
    ASSUME NEW files, IsFolder(files)
    PROVE  Outcomes(files) \in [1..Places -> SUBSET Seq(Entry)]
PROOF
  <1> DEFINE V == SUBSET Seq(Entry)
  <1>1. ASSUME NEW place \in 1..Places, place \in DOMAIN files PROVE OfFile(files[place]) \in V
    <2> DEFINE S == {e \in Entry : e.live = files[place].live}
    <2>1. IsFile(files[place])
      BY <1>1 DEF IsFolder
    <2>2. OfFile(files[place]) \in SUBSET Seq(S)
      BY <2>1, OfFileType
    <2>3. S \subseteq Entry
      OBVIOUS
    <2> HIDE DEF S
    <2>4. Seq(S) \subseteq Seq(Entry)
      BY <2>3, SeqWidens
    <2> QED BY <2>2, <2>4
  <1>2. {<< >>} \in V
    OBVIOUS
  <1> HIDE DEF V
  <1> QED BY <1>1, <1>2 DEF Outcomes, V

LEMMA LoadType ==
    ASSUME NEW files, IsFolder(files), NEW documents \in Load(files)
    PROVE  documents \in Seq(Entry)
PROOF
  <1>1. Places \in Nat
    BY DocumentsAssumption
  <1>2. InTurn(Outcomes(files)) \in SUBSET Seq(Entry)
    BY <1>1, OutcomesType, InTurnType
  <1> QED BY <1>2, LoadIs

LEMMA RangeSeq ==
    ASSUME NEW S, NEW s \in Seq(S)
    PROVE  s \in Seq(Range(s)) /\ Range(s) \subseteq S
PROOF
  <1>1. Len(s) \in Nat /\ DOMAIN s = 1..Len(s) /\ \A i \in 1..Len(s) : s[i] \in S
    BY LenProperties, ElementOfSeq
  <1>2. \A i \in DOMAIN s : s[i] \in Range(s)
    BY DEF Range
  <1>3. s = [i \in 1..Len(s) |-> s[i]]
    BY <1>1
  <1>4. s \in Seq(Range(s))
    BY <1>1, <1>2, <1>3
  <1>5. Range(s) \subseteq S
    BY <1>1 DEF Range
  <1> QED BY <1>4, <1>5

LEMMA KeptIs ==
    ASSUME NEW documents \in Seq(Entry)
    PROVE  Kept(documents) = Only(documents, Unlive) /\ Kept(documents) \in Seq(Unlive)
PROOF
  <1> DEFINE S == Range(documents)
             T == {d \in S : ~d.live}
  <1>1. documents \in Seq(S) /\ S \subseteq Entry
    BY RangeSeq
  <1>2. \A e \in S : e \in T <=> e \in Unlive
    BY <1>1 DEF Unlive
  <1>3. Kept(documents) = Only(documents, T)
    BY DEF Kept
  <1> HIDE DEF S, T
  <1>4. Only(documents, T) = Only(documents, Unlive)
    BY <1>1, <1>2, OnlySame
  <1>5. Only(documents, Unlive) \in Seq(Entry \cap Unlive)
    BY OnlyType
  <1>6. Entry \cap Unlive = Unlive
    BY DEF Unlive
  <1> QED BY <1>3, <1>4, <1>5, <1>6

LEMMA TextsOfType ==
    ASSUME NEW documents \in Seq(Entry)
    PROVE  TextsOf(documents) \in Seq(Doc) /\ (documents = << >> => TextsOf(documents) = << >>)
PROOF
  <1> DEFINE n == Len(documents)
  <1>1. n \in Nat /\ DOMAIN documents = 1..n /\ \A k \in 1..n : documents[k] \in Entry
    BY LenProperties, ElementOfSeq
  <1>2. \A k \in 1..n : documents[k].text \in Doc
    BY <1>1 DEF Entry
  <1>3. TextsOf(documents) = [k \in 1..n |-> documents[k].text]
    BY <1>1 DEF TextsOf
  <1>4. documents = << >> => n = 0
    BY EmptySeq
  <1> HIDE DEF n
  <1>5. TextsOf(documents) \in [1..n -> Doc]
    BY <1>2, <1>3
  <1>6. TextsOf(documents) \in Seq(Doc)
    BY <1>1, <1>5
  <1>7. n = 0 => TextsOf(documents) = << >>
    BY <1>3
  <1> QED BY <1>4, <1>6, <1>7

LEMMA TrainFromType ==
    ASSUME NEW files, IsFolder(files), NEW texts \in trainFrom(files)
    PROVE  texts \in Seq(Doc) /\ TrainTexts(texts) = texts
PROOF
  <1>1. PICK documents \in Load(files) : texts = TextsOf(Kept(documents))
    BY TrainFromIs
  <1>2. documents \in Seq(Entry)
    BY LoadType
  <1>3. Kept(documents) \in Seq(Entry)
    <2>1. Unlive \subseteq Entry
      BY DEF Unlive
    <2> QED BY <1>2, <2>1, KeptIs, SeqWidens
  <1>4. texts \in Seq(Doc)
    BY <1>1, <1>3, TextsOfType
  <1> DEFINE S == Range(texts)
             T == S \ {<< >>}
  <1>5. texts \in Seq(S) /\ S \subseteq Doc
    BY <1>4, RangeSeq
  <1>6. S \subseteq T
    BY <1>5 DEF Doc
  <1>7. TrainTexts(texts) = Only(texts, T)
    BY DEF TrainTexts, Nonblank
  <1> HIDE DEF S, T
  <1>8. Only(texts, T) = texts
    BY <1>5, <1>6, OnlyAll
  <1> QED BY <1>4, <1>7, <1>8

-----------------------------------------------------------------------------
(* Leaving the live catalogs out of what was read, or not reading them.    *)
Apart(files) == [p \in {q \in DOMAIN files : ~files[q].live} |-> files[p]]

LEMMA ApartIsFolder ==
    ASSUME NEW files, IsFolder(files)
    PROVE  IsFolder(Apart(files))
  BY DEF IsFolder, Apart

LEMMA OnlyEmpty ==
    ASSUME NEW T
    PROVE  Only(<< >>, T) = << >>
PROOF
  <1> DEFINE none == << >>
  <1>1. none \in Seq({}) /\ Len(none) = 0
    BY EmptySeq
  <1>2. PICK f \in [0..Len(none) -> Seq({} \cap T)] :
            Keeping(f, none, T) /\ Only(none, T) = f[Len(none)]
    BY <1>1, OnlySteps
  <1> QED BY <1>1, <1>2 DEF Keeping

LEMMA OnlyNone ==
    ASSUME NEW S, NEW s \in Seq(S), NEW T, S \cap T = {}
    PROVE  Only(s, T) = << >>
PROOF
  <1>1. Only(s, T) \in Seq({})
    BY OnlyType
  <1> DEFINE t == Only(s, T)
  <1> HIDE DEF t
  <1>2. Len(t) \in Nat /\ \A i \in 1..Len(t) : t[i] \in {}
    BY <1>1, LenProperties, ElementOfSeq DEF t
  <1>3. Len(t) = 0
    BY <1>2
  <1> QED BY <1>1, <1>3, EmptySeq DEF t

LEMMA PlaceApart ==
    ASSUME NEW files, IsFolder(files), NEW place \in 1..Places, NEW e \in Outcomes(files)[place]
    PROVE  Only(e, Unlive) \in Outcomes(Apart(files))[place]
PROOF
  <1>1. CASE place \notin DOMAIN files
    <2>1. place \notin DOMAIN Apart(files)
      BY <1>1 DEF Apart
    <2>2. e = << >> /\ Outcomes(Apart(files))[place] = {<< >>}
      BY <1>1, <2>1 DEF Outcomes
    <2> QED BY <2>2, OnlyEmpty
  <1>2. CASE place \in DOMAIN files /\ files[place].live
    <2> DEFINE f == files[place]
               S == {d \in Entry : d.live = f.live}
    <2>1. place \notin DOMAIN Apart(files)
      BY <1>2 DEF Apart
    <2>2. e \in OfFile(f) /\ Outcomes(Apart(files))[place] = {<< >>}
      BY <1>2, <2>1 DEF Outcomes
    <2>3. IsFile(f)
      BY <1>2 DEF IsFolder
    <2>4. e \in Seq(S)
      BY <2>2, <2>3, OfFileType
    <2>5. S \cap Unlive = {}
      BY <1>2 DEF Unlive
    <2> HIDE DEF S
    <2>6. Only(e, Unlive) = << >>
      BY <2>4, <2>5, OnlyNone
    <2> QED BY <2>2, <2>6
  <1>3. CASE place \in DOMAIN files /\ ~files[place].live
    <2> DEFINE f == files[place]
               S == {d \in Entry : d.live = f.live}
    <2>1. place \in DOMAIN Apart(files) /\ Apart(files)[place] = f
      BY <1>3 DEF Apart
    <2>2. e \in OfFile(f) /\ Outcomes(Apart(files))[place] = OfFile(f)
      BY <1>3, <2>1 DEF Outcomes
    <2>3. IsFile(f)
      BY <1>3 DEF IsFolder
    <2>4. e \in Seq(S)
      BY <2>2, <2>3, OfFileType
    <2>5. S \subseteq Unlive
      BY <1>3 DEF Unlive
    <2> HIDE DEF S
    <2>6. Only(e, Unlive) = e
      BY <2>4, <2>5, OnlyAll
    <2> QED BY <2>2, <2>6
  <1> QED BY <1>1, <1>2, <1>3

LEMMA TurningApart ==
    ASSUME NEW S, NEW U, NEW n \in Nat, NEW o \in [1..n -> SUBSET Seq(S)],
           NEW q \in [1..n -> SUBSET Seq(S)],
           \A i \in 1..n : \A e \in o[i] : Only(e, U) \in q[i]
    PROVE  \A d \in InTurn(o) : Only(d, U) \in InTurn(q)
PROOF
  <1>1. PICK f \in [0..n -> SUBSET Seq(S)] : Turning(f, o, n) /\ InTurn(o) = f[n]
    BY InTurnSteps
  <1>2. PICK g \in [0..n -> SUBSET Seq(S)] : Turning(g, q, n) /\ InTurn(q) = g[n]
    BY InTurnSteps
  <1>3. f[0] = {<< >>} /\ g[0] = {<< >>}
    BY <1>1, <1>2 DEF Turning
  <1> DEFINE done == {i \in 0..n : \A d \in f[i] : Only(d, U) \in g[i]}
  <1>4. 0 \in done
    BY <1>3, OnlyEmpty
  <1>5. ASSUME NEW i \in 1..n, i - 1 \in done PROVE i \in done
    <2>1. i \in 0..n /\ i - 1 \in 0..n
      OBVIOUS
    <2>2. ASSUME NEW d \in f[i] PROVE Only(d, U) \in g[i]
      <3>1. f[i] = Each(f[i - 1], o[i]) /\ g[i] = Each(g[i - 1], q[i])
        BY <1>1, <1>2 DEF Turning
      <3> DEFINE a == f[i - 1]
                 b == o[i]
      <3>2. PICK x \in a, e \in b : d = x \o e
        <4>1. d \in Each(a, b)
          BY <3>1
        <4> HIDE DEF a, b
        <4>2. FromEach(d, a, b)
          BY <4>1, EachHas, Zenon
        <4> QED BY <4>2 DEF FromEach
      <3>3. x \in Seq(S) /\ e \in Seq(S)
        BY <1>1, <2>1
      <3>4. Only(x \o e, U) = Only(x, U) \o Only(e, U)
        <4>1. OnlySplits(x, e, U)
          BY <3>3, OnlyConcat, Zenon
        <4> QED BY <4>1 DEF OnlySplits
      <3> DEFINE c == g[i - 1]
                 h == q[i]
                 left == Only(x, U)
                 right == Only(e, U)
      <3>5. left \in c /\ right \in h
        BY <1>5
      <3>6. left \o right \in Each(c, h)
        <4> HIDE DEF left, right, c, h
        <4> QED BY <3>5, EachMakes
      <3> QED BY <3>1, <3>2, <3>4, <3>6
    <2> QED BY <2>1, <2>2
  <1> HIDE DEF done
  <1>6. \A i \in 0..n : i \in done
    BY <1>4, <1>5, UpTo
  <1>7. n \in 0..n
    OBVIOUS
  <1>8. n \in done
    BY <1>6, <1>7
  <1> QED BY <1>1, <1>2, <1>8 DEF done

OfUnlive(d, texts) == d \in Seq(Entry) /\ Kept(d) = d /\ texts = TextsOf(d)
LEMMA ReadApart ==
    ASSUME NEW files, IsFolder(files), NEW texts \in trainFrom(files)
    PROVE  \E d \in Load(Apart(files)) : OfUnlive(d, texts)
PROOF
  <1>1. PICK documents \in Load(files) : texts = TextsOf(Kept(documents))
    BY TrainFromIs
  <1>2. documents \in Seq(Entry) /\ documents \in InTurn(Outcomes(files)) /\ texts # << >>
    BY LoadType, LoadIs, TrainFromIs
  <1> DEFINE kept == Only(documents, Unlive)
  <1>3. Kept(documents) = kept /\ kept \in Seq(Unlive)
    BY <1>2, KeptIs
  <1>4. kept \in InTurn(Outcomes(Apart(files)))
    <2>1. Places \in Nat
      BY DocumentsAssumption
    <2>2. Outcomes(files) \in [1..Places -> SUBSET Seq(Entry)]
      BY OutcomesType
    <2>3. Outcomes(Apart(files)) \in [1..Places -> SUBSET Seq(Entry)]
      BY OutcomesType, ApartIsFolder
    <2>4. \A i \in 1..Places : \A e \in Outcomes(files)[i] :
              Only(e, Unlive) \in Outcomes(Apart(files))[i]
      BY PlaceApart
    <2>5. \A d \in InTurn(Outcomes(files)) : Only(d, Unlive) \in InTurn(Outcomes(Apart(files)))
      <3> DEFINE o == Outcomes(files)
                 q == Outcomes(Apart(files))
      <3> HIDE DEF o, q
      <3>1. \A d \in InTurn(o) : Only(d, Unlive) \in InTurn(q)
        BY <2>1, <2>2, <2>3, <2>4, TurningApart DEF o, q
      <3> QED BY <3>1 DEF o, q
    <2> QED BY <1>2, <2>5
  <1> HIDE DEF kept
  <1>5. kept \in Seq(Entry)
    <2>1. Unlive \subseteq Entry
      BY DEF Unlive
    <2> QED BY <1>3, <2>1, SeqWidens
  <1>6. kept # << >>
    BY <1>1, <1>2, <1>3, <1>5, TextsOfType
  <1>7. kept \in Load(Apart(files))
    BY <1>4, <1>6, LoadIs
  <1>8. Kept(kept) = kept
    <2>1. Kept(kept) = Only(kept, Unlive)
      BY <1>5, KeptIs
    <2>2. Only(kept, Unlive) = kept
      BY <1>3, OnlyAll
    <2> QED BY <2>1, <2>2
  <1>9. OfUnlive(kept, texts)
    BY <1>1, <1>3, <1>5, <1>8 DEF OfUnlive
  <1> QED BY <1>7, <1>9

LEMMA TrainedApart ==
    ASSUME NEW files, IsFolder(files), NEW texts \in trainFrom(files)
    PROVE  texts \in trainFrom(Apart(files))
PROOF
  <1>1. PICK d \in Load(Apart(files)) : OfUnlive(d, texts)
    BY ReadApart
  <1>2. texts = TextsOf(Kept(d)) /\ texts # << >>
    BY <1>1, TrainFromIs DEF OfUnlive
  <1> QED BY <1>2, TrainFromIs

-----------------------------------------------------------------------------
(* The scores are natural numbers.                                         *)
LEMMA KeyFinite ==
    ASSUME NEW W, NEW words \in Seq(W)
    PROVE  IsFiniteSet(factKey(words))
PROOF
  <1> DEFINE token == [i \in DOMAIN words |->
                          <<words[i], Cardinality({j \in 1..i : words[j] = words[i]})>>]
  <1>1. IsFiniteSet(DOMAIN words)
    <2>1. Len(words) \in Nat /\ DOMAIN words = 1..Len(words)
      BY LenProperties
    <2>2. 1 \in Int /\ Len(words) \in Int
      BY <2>1
    <2>3. IsFiniteSet(1..Len(words))
      BY <2>2, FS_Interval, Zenon
    <2> QED BY <2>1, <2>3
  <1>2. factKey(words) = {token[i] : i \in DOMAIN words}
    BY DEF factKey
  <1>3. token \in [DOMAIN words -> factKey(words)]
    BY <1>2
  <1> HIDE DEF token
  <1>4. token \in Surjection(DOMAIN words, factKey(words))
    BY <1>2, <1>3 DEF Surjection
  <1> QED BY <1>1, <1>4, FS_Surjection

LEMMA EmbedFinite ==
    ASSUME NEW W, NEW words \in Seq(W)
    PROVE  IsFiniteSet(Embed(words)) /\ IsFiniteSet(Words(Embed(words)))
PROOF
  <1>1. IsFiniteSet(Embed(words))
    <2>1. Embed(words) \subseteq factKey(words)
      BY DEF Embed
    <2> QED BY <2>1, KeyFinite, FS_Subset
  <1> DEFINE v == Embed(words)
             w == Words(v)
             first == [token \in v |-> token[1]]
  <1>2. first \in [v -> w] /\ w = {first[token] : token \in v}
    BY DEF Words
  <1> HIDE DEF first, v, w
  <1>3. first \in Surjection(v, w)
    BY <1>2 DEF Surjection
  <1>4. IsFiniteSet(w)
    BY <1>1, <1>3, FS_Surjection DEF v
  <1> QED BY <1>1, <1>4 DEF w, v

LEMMA DotIsNat ==
    ASSUME NEW left, NEW right, IsFiniteSet(left), IsFiniteSet(right)
    PROVE  Dot(left, right) \in Nat
PROOF
  <1> DEFINE pairs == {p \in left \X right : p[1][1] = p[2][1]}
  <1>1. IsFiniteSet(left \X right)
    BY FS_Product
  <1>2. pairs \subseteq left \X right
    OBVIOUS
  <1>3. IsFiniteSet(pairs)
    BY <1>1, <1>2, FS_Subset
  <1> QED BY <1>3, FS_CardinalityType DEF Dot

LEMMA CosineIsNat ==
    ASSUME NEW left, NEW right, IsFiniteSet(left), IsFiniteSet(right)
    PROVE  Cosine(left, right) \in Nat
PROOF
  <1> DEFINE dot == Dot(left, right)
             m == Dot(left, left) * Dot(right, right)
             K == 1000000 * dot * dot
             top == 1000
             Under(c) == c * c * m <= K
             Over(c) == (c + 1) * (c + 1) * m > K
             T == {c \in 0..top : Under(c)}
  <1>1. dot \in Nat /\ m \in Nat
    <2>1. Dot(left, left) \in Nat /\ Dot(right, right) \in Nat
      BY DotIsNat
    <2> DEFINE x == Dot(left, left)
               y == Dot(right, right)
    <2> HIDE DEF x, y
    <2>2. x \in Nat /\ y \in Nat
      BY <2>1 DEF x, y
    <2>3. x * y \in Nat
      BY <2>2
    <2> QED BY <2>3, DotIsNat DEF x, y
  <1>2. Cosine(left, right) = IF dot = 0 THEN 0
                              ELSE CHOOSE c \in 0..top : Under(c) /\ (c = top \/ Over(c))
    BY DEF Cosine
  <1> HIDE DEF dot, m
  <1>3. K \in Nat
    BY <1>1
  <1>4. Under(0)
    BY <1>1, <1>3
  <1> HIDE DEF K
  <1>5. \A c \in Nat : ~Over(c) => Under(c + 1)
    <2> TAKE c \in Nat
    <2> DEFINE square == (c + 1) * (c + 1)
               z == square * m
    <2>1. z \in Nat
      <3>1. square \in Nat
        OBVIOUS
      <3> HIDE DEF square
      <3> QED BY <1>1, <3>1
    <2>2. Over(c) <=> z > K
      OBVIOUS
    <2>3. Under(c + 1) <=> z <= K
      OBVIOUS
    <2> HIDE DEF z, Over, Under
    <2> QED BY <1>3, <2>1, <2>2, <2>3
  <1> HIDE DEF Under, Over
  <1>6. T \subseteq 0..top /\ T # {} /\ top \in Nat
    BY <1>4
  <1>7. PICK c \in T : \A d \in T : d <= c
    <2> HIDE DEF T, top
    <2>1. Max(T) \in T /\ \A d \in T : d <= Max(T)
      BY <1>6, MaxIs
    <2> QED BY <2>1
  <1>8. c = top \/ Over(c)
    <2> SUFFICES ASSUME c # top, ~Over(c) PROVE FALSE
      OBVIOUS
    <2>1. c \in Nat /\ c + 1 \in 0..top
      BY <1>7
    <2>2. c + 1 \in T
      BY <1>5, <2>1
    <2>3. c + 1 <= c
      BY <1>7, <2>2
    <2> QED BY <2>1, <2>3
  <1>9. \E d \in 0..top : Under(d) /\ (d = top \/ Over(d))
    <2>1. c \in 0..top /\ Under(c)
      BY <1>7
    <2> HIDE DEF T, top
    <2> QED BY <1>8, <2>1, Zenon
  <1> DEFINE chosen == CHOOSE d \in 0..top : Under(d) /\ (d = top \/ Over(d))
  <1>10. chosen \in 0..top
    <2> HIDE DEF T, top
    <2> QED BY <1>9
  <1>11. Cosine(left, right) = IF dot = 0 THEN 0 ELSE chosen
    BY <1>2
  <1> HIDE DEF chosen
  <1>12. chosen \in Nat
    BY <1>10
  <1> QED BY <1>11, <1>12

LEMMA PhrasesFinite ==
    IsFiniteSet(Phrases)
PROOF
  <1>1. \A a, b, c, d, e : IsFiniteSet({a, b, c, d, e})
    <2> TAKE a, b, c, d, e
    <2>1. IsFiniteSet({} \cup {a})
      BY FS_EmptySet, FS_AddElement
    <2>2. IsFiniteSet({} \cup {a} \cup {b})
      BY <2>1, FS_AddElement
    <2>3. IsFiniteSet({} \cup {a} \cup {b} \cup {c})
      BY <2>2, FS_AddElement
    <2>4. IsFiniteSet({} \cup {a} \cup {b} \cup {c} \cup {d})
      BY <2>3, FS_AddElement
    <2>5. IsFiniteSet({} \cup {a} \cup {b} \cup {c} \cup {d} \cup {e})
      BY <2>4, FS_AddElement
    <2>6. {} \cup {a} \cup {b} \cup {c} \cup {d} \cup {e} = {a, b, c, d, e}
      OBVIOUS
    <2> QED BY <2>5, <2>6
  <1>2. \A a, b, c, d, e, f, g, h, i, j : IsFiniteSet({a, b, c, d, e, f, g, h, i, j})
    <2> TAKE a, b, c, d, e, f, g, h, i, j
    <2>1. IsFiniteSet({a, b, c, d, e} \cup {f, g, h, i, j})
      BY <1>1, FS_Union
    <2>2. {a, b, c, d, e} \cup {f, g, h, i, j} = {a, b, c, d, e, f, g, h, i, j}
      OBVIOUS
    <2> QED BY <2>1, <2>2
  <1> QED BY <1>2 DEF Phrases

LEMMA ScoreIsNat ==
    ASSUME NEW W, NEW question \in Seq(W), NEW text \in Prose
    PROVE  candidateScore(question, text) \in Nat
PROOF
  <1> DEFINE query == Embed(question)
             shared == {p \in Phrases : Occurs(p, question) /\ OccursIn(p, text)}
             begun == {w \in Words(query) : IsPrefix(<<"table", w>>, Head(text))}
             listed == Later(<<"column">>, question) /\ OccursIn(<<"columns">>, text)
             linked == Occurs(<<"related">>, question) /\ OccursIn(<<"relationships">>, text)
             a == Cosine(query, Embed(FlattenSeq(text)))
             b == Cardinality(shared)
             c == Cardinality(begun)
             d == Cardinality(Words(query))
             e == IF Later(<<"table">>, question) THEN 1000 * c ELSE 0
             f == (IF listed THEN 250 ELSE 0) + (IF linked THEN 250 ELSE 0)
  <1>1. candidateScore(question, text) = a + 1000 * b + e + d * f
    BY DEF candidateScore
  <1>2. IsFiniteSet(query) /\ IsFiniteSet(Words(query))
    BY EmbedFinite
  <1>3. a \in Nat
    <2>1. FlattenSeq(text) \in Seq(Token)
      BY FlattenType DEF Prose, Sentence
    <2>2. IsFiniteSet(Embed(FlattenSeq(text)))
      BY <2>1, EmbedFinite
    <2> QED BY <1>2, <2>2, CosineIsNat
  <1>4. b \in Nat
    <2>1. shared \subseteq Phrases
      OBVIOUS
    <2>2. IsFiniteSet(shared)
      BY <2>1, PhrasesFinite, FS_Subset
    <2> QED BY <2>2, FS_CardinalityType
  <1>5. c \in Nat
    <2>1. begun \subseteq Words(query)
      OBVIOUS
    <2>2. IsFiniteSet(begun)
      BY <1>2, <2>1, FS_Subset
    <2> QED BY <2>2, FS_CardinalityType
  <1>6. d \in Nat
    BY <1>2, FS_CardinalityType
  <1>7. f \in Nat
    <2> HIDE DEF listed, linked
    <2> QED OBVIOUS
  <1> HIDE DEF a, b, c, d, f
  <1>8. e \in Nat
    BY <1>5
  <1> HIDE DEF e
  <1>9. d * f \in Nat
    BY <1>6, <1>7
  <1>10. a + 1000 * b + e + d * f \in Nat
    BY <1>3, <1>4, <1>8, <1>9
  <1> QED BY <1>1, <1>10

-----------------------------------------------------------------------------
(* The loop over the candidates: text, place and score belong together.    *)
Chosen(question, candidates, n) ==
    [text |-> candidates[n], place |-> n, score |-> candidateScore(question, candidates[n])]
LEMMA BestCandidateIs ==
    ASSUME NEW question, NEW W, NEW candidates \in Seq(W)
    PROVE  \/ bestCandidate(question, candidates) = NoCandidate
           \/ \E n \in 1..Len(candidates) :
                  bestCandidate(question, candidates) = Chosen(question, candidates, n)
PROOF
  <1> DEFINE N == Len(candidates)
             V == {NoCandidate} \cup {Chosen(question, candidates, n) : n \in 1..N}
             more(k, x) == candidateScore(question, candidates[k]) > x.score
             body(k, x) == IF more(k, x) THEN Chosen(question, candidates, k) ELSE x
             step == [k \in 1..N |-> [x \in V |-> body(k, x)]]
             next(g, i) == IF i = 0 THEN NoCandidate ELSE body(i, g[i - 1])
             Is(g) == g = [i \in 0..N |-> next(g, i)]
             chosen == CHOOSE g : Is(g)
  <1>1. N \in Nat
    BY LenProperties
  <1>2. NoCandidate \in V /\ \A k \in 1..N : Chosen(question, candidates, k) \in V
    OBVIOUS
  <1>3. bestCandidate(question, candidates) = chosen[N]
    BY DEF bestCandidate, Chosen
  <1> HIDE DEF N, more
  <1>4. \A k \in 1..N : \A x \in V : step[k][x] = body(k, x)
    OBVIOUS
  <1> HIDE DEF V
  <1>5. \A k \in 1..N : \A x \in V : body(k, x) \in V
    BY <1>2
  <1> HIDE DEF body
  <1>6. step \in [1..N -> [V -> V]]
    BY <1>5
  <1> HIDE DEF step
  <1>7. PICK r \in [0..N -> V] : r[0] = NoCandidate /\ \A i \in 1..N : r[i] = step[i][r[i - 1]]
    <2>1. \E r \in [0..N -> V] : StepByStep(r, NoCandidate, N, step)
      BY <1>1, <1>2, <1>6, RecursionExists, Zenon
    <2> QED BY <2>1 DEF StepByStep
  <1>8. \A i \in 1..N : r[i] = body(i, r[i - 1])
    <2> TAKE i \in 1..N
    <2>1. i - 1 \in 0..N
      BY <1>1
    <2>2. r[i - 1] \in V
      BY <1>7, <2>1
    <2> QED BY <1>4, <1>7, <2>2
  <1>9. \A i \in 0..N : r[i] = next(r, i)
    <2> TAKE i \in 0..N
    <2>1. CASE i = 0
      BY <1>7, <2>1
    <2>2. CASE i # 0
      <3>1. i \in 1..N
        BY <1>1, <2>2
      <3> QED BY <1>8, <2>2, <3>1
    <2> QED BY <2>1, <2>2
  <1>10. Is(r)
    <2> HIDE DEF next
    <2>1. r = [i \in 0..N |-> r[i]]
      OBVIOUS
    <2> QED BY <1>9, <2>1
  <1>11. Is(chosen)
    <2> HIDE DEF Is
    <2> QED BY <1>10
  <1>12. \A i \in 0..N : chosen[i] = next(chosen, i)
    <2> HIDE DEF chosen, next
    <2> QED BY <1>11
  <1> HIDE DEF chosen, Is
  <1> DEFINE typed == {i \in 0..N : chosen[i] \in V}
  <1>13. \A i \in 0..N : i \in typed
    <2>1. 0 \in typed
      BY <1>1, <1>2, <1>12
    <2>2. ASSUME NEW i \in 1..N, i - 1 \in typed PROVE i \in typed
      <3>1. i \in 0..N /\ i # 0 /\ chosen[i - 1] \in V
        BY <1>1, <2>2
      <3>2. chosen[i] = body(i, chosen[i - 1])
        BY <1>12, <3>1
      <3> QED BY <1>5, <3>1, <3>2
    <2> HIDE DEF typed
    <2> QED BY <1>1, <2>1, <2>2, UpTo
  <1>14. N \in 0..N
    BY <1>1
  <1>15. chosen[N] \in V
    BY <1>13, <1>14
  <1> QED BY <1>3, <1>15 DEF V, N

-----------------------------------------------------------------------------
(* The loop over the sentences: of those that count, the first of the best.*)
LEMMA OverlapIsNat ==
    ASSUME NEW W, NEW question \in Seq(W), NEW sentence
    PROVE  Overlap(question, sentence) \in Nat
PROOF
  <1> DEFINE s == {k \in DOMAIN question : Long(question[k]) /\ question[k] \in Range(sentence)}
  <1>1. IsFiniteSet(DOMAIN question)
    <2>1. Len(question) \in Nat /\ DOMAIN question = 1..Len(question)
      BY LenProperties
    <2>2. 1 \in Int /\ Len(question) \in Int
      BY <2>1
    <2>3. IsFiniteSet(1..Len(question))
      BY <2>2, FS_Interval, Zenon
    <2> QED BY <2>1, <2>3
  <1>2. s \subseteq DOMAIN question
    OBVIOUS
  <1>3. IsFiniteSet(s)
    BY <1>1, <1>2, FS_Subset
  <1> QED BY <1>3, FS_CardinalityType DEF Overlap

LongOnes(sentences) == {k \in DOMAIN sentences : ~Brief(sentences[k])}
Eligible(sentences) ==
    IF LongOnes(sentences) = {} THEN DOMAIN sentences ELSE LongOnes(sentences)
Lead(question, sentences, n, b) ==
    LET overlap(k) == Overlap(question, sentences[k]) IN
    /\ b \in Eligible(sentences)
    /\ \A j \in Eligible(sentences) : j <= n => overlap(j) <= overlap(b)
    /\ \A j \in Eligible(sentences) : j < b => overlap(j) < overlap(b)

LEMMA BestIndexIs ==
    ASSUME NEW W, NEW question \in Seq(W), NEW R, NEW sentences \in Seq(R), sentences # << >>
    PROVE  Lead(question, sentences, Len(sentences), bestIndex(question, sentences))
PROOF
  <1> DEFINE L == Len(sentences)
             N == L - 1
             long == LongOnes(sentences)
             ov(k) == Overlap(question, sentences[k])
             skip == long # {}
             low == CHOOSE k \in long : \A j \in long : k <= j
             start == IF Brief(sentences[1]) /\ skip THEN low ELSE 1
             V == 1..L
             counts(k) == ~(skip /\ Brief(sentences[k]))
             body(i, x) == IF counts(i + 1) /\ ov(i + 1) > ov(x) THEN i + 1 ELSE x
             step == [k \in 1..N |-> [x \in V |-> body(k, x)]]
             next(g, i) == IF i = 0 THEN start ELSE body(i, g[i - 1])
             Is(g) == g = [i \in 0..N |-> next(g, i)]
             chosen == CHOOSE g : Is(g)
  <1>1. L \in Nat /\ L # 0 /\ DOMAIN sentences = V /\ N \in Nat /\ 1 \in V
    BY LenProperties, EmptySeq
  <1>2. \A k : ov(k) \in Nat
    BY OverlapIsNat
  <1>3. bestIndex(question, sentences) = chosen[N]
    BY DEF bestIndex, LongOnes
  <1>4. long \subseteq V /\ \A k \in V : k \in long <=> ~Brief(sentences[k])
    BY <1>1 DEF LongOnes
  <1> HIDE DEF long
  <1>5. ASSUME skip PROVE low \in long /\ \A j \in long : low <= j
    <2>1. long \subseteq Nat
      BY <1>1, <1>4
    <2>2. \E k \in long : \A j \in long : k <= j
      BY <1>5, <2>1, LeastNatural
    <2> QED BY <2>2
  <1>6. start \in V
    BY <1>1, <1>4, <1>5
  <1>7. start \in Eligible(sentences) /\ \A j \in Eligible(sentences) : start <= j
    <2>1. CASE ~skip
      <3>1. Eligible(sentences) = V /\ start = 1
        BY <1>1, <2>1 DEF Eligible, long
      <3>2. \A j \in V : 1 <= j
        BY <1>1
      <3> HIDE DEF V, start
      <3> QED BY <1>1, <3>1, <3>2
    <2>2. CASE skip
      <3>1. Eligible(sentences) = long
        BY <2>2 DEF Eligible, long
      <3>2. CASE Brief(sentences[1])
        BY <1>5, <2>2, <3>1, <3>2
      <3>3. CASE ~Brief(sentences[1])
        <4>1. start = 1 /\ 1 \in long
          BY <1>1, <1>4, <3>3
        <4>2. \A j \in long : 1 <= j
          BY <1>1, <1>4
        <4> QED BY <3>1, <4>1, <4>2
      <3> QED BY <3>2, <3>3
    <2> QED BY <2>1, <2>2
  <1>8. \A k \in V : k \in Eligible(sentences) <=> counts(k)
    BY <1>1, <1>4 DEF Eligible, long
  <1>9. Eligible(sentences) \subseteq V
    BY <1>1, <1>4 DEF Eligible, long
  <1> HIDE DEF ov, start, skip, low, counts, L
  <1>10. \A k \in 1..N : k + 1 \in V
    BY <1>1
  <1>11. \A k \in 1..N : \A x \in V : step[k][x] = body(k, x)
    OBVIOUS
  <1>12. \A k \in 1..N : \A x \in V : body(k, x) \in V
    BY <1>10
  <1> HIDE DEF V, body, N
  <1>13. step \in [1..N -> [V -> V]]
    BY <1>12
  <1> HIDE DEF step
  <1>14. PICK r \in [0..N -> V] : r[0] = start /\ \A i \in 1..N : r[i] = step[i][r[i - 1]]
    <2>1. \E r \in [0..N -> V] : StepByStep(r, start, N, step)
      BY <1>1, <1>6, <1>13, RecursionExists, Zenon
    <2> QED BY <2>1 DEF StepByStep
  <1>15. \A i \in 1..N : r[i] = body(i, r[i - 1])
    <2> TAKE i \in 1..N
    <2>1. i - 1 \in 0..N
      BY <1>1
    <2>2. r[i - 1] \in V
      BY <1>14, <2>1
    <2> QED BY <1>11, <1>14, <2>2
  <1>16. \A i \in 0..N : r[i] = next(r, i)
    <2> TAKE i \in 0..N
    <2>1. CASE i = 0
      BY <1>14, <2>1
    <2>2. CASE i # 0
      <3>1. i \in 1..N
        BY <1>1, <2>2
      <3> QED BY <1>15, <2>2, <3>1
    <2> QED BY <2>1, <2>2
  <1>17. Is(r)
    <2> HIDE DEF next
    <2>1. r = [i \in 0..N |-> r[i]]
      OBVIOUS
    <2> QED BY <1>16, <2>1
  <1>18. Is(chosen)
    <2> HIDE DEF Is
    <2> QED BY <1>17
  <1>19. \A i \in 0..N : chosen[i] = next(chosen, i)
    <2> HIDE DEF chosen, next
    <2> QED BY <1>18
  <1> HIDE DEF chosen, Is
  <1> DEFINE E == Eligible(sentences)
             leads(n, b) == /\ b \in E
                            /\ \A j \in E : j <= n => ov(j) <= ov(b)
                            /\ \A j \in E : j < b => ov(j) < ov(b)
             done == {i \in 0..N : leads(i + 1, chosen[i])}
  <1>20. \A k \in V : k \in E <=> counts(k)
    BY <1>8
  <1>21. E \subseteq V /\ start \in E /\ \A j \in E : start <= j
    BY <1>7, <1>9
  <1>22. V = 1..N + 1 /\ N + 1 = L
    BY <1>1 DEF V, N
  <1> HIDE DEF E
  <1>23. 0 \in done
    <2>1. chosen[0] = start /\ 0 \in 0..N
      BY <1>1, <1>19
    <2>2. start \in Nat
      BY <1>1, <1>21, <1>22
    <2>3. ASSUME NEW j \in E, j <= 1 PROVE ov(j) <= ov(start)
      <3>1. j \in Nat /\ j >= 1 /\ start >= 1 /\ start <= j
        BY <1>1, <1>21, <1>22
      <3>2. j = start
        BY <2>2, <2>3, <3>1
      <3> QED BY <1>2, <3>2
    <2>4. ASSUME NEW j \in E, j < start PROVE FALSE
      <3>1. j \in Nat /\ start <= j
        BY <1>1, <1>21, <1>22
      <3> QED BY <2>2, <2>4, <3>1
    <2>5. leads(1, start)
      BY <1>21, <2>3, <2>4
    <2> HIDE DEF leads
    <2> QED BY <2>1, <2>5
  <1>24. ASSUME NEW i \in 1..N, i - 1 \in done PROVE i \in done
    <2> DEFINE b == chosen[i - 1]
               c == chosen[i]
    <2>1. i \in 0..N /\ i # 0 /\ i - 1 \in 0..N /\ i - 1 + 1 = i /\ i \in Nat /\ i + 1 \in V
      BY <1>1, <1>22
    <2>2. leads(i, b)
      <3> HIDE DEF leads
      <3> QED BY <1>24, <2>1
    <2>3. c = body(i, b)
      BY <1>19, <2>1
    <2>4. b \in E /\ b \in Nat
      <3> HIDE DEF b
      <3>1. b \in E
        BY <2>2
      <3>2. b \in V
        BY <1>21, <3>1
      <3>3. N + 1 \in Nat
        BY <1>1
      <3>4. b \in Nat
        BY <1>22, <3>2, <3>3
      <3> QED BY <3>1, <3>4
    <2> HIDE DEF b, c
    <2>5. CASE counts(i + 1) /\ ov(i + 1) > ov(b)
      <3>1. c = i + 1 /\ i + 1 \in E
        BY <1>20, <2>1, <2>3, <2>5 DEF body
      <3>2. ASSUME NEW j \in E, j < i + 1 PROVE ov(j) < ov(i + 1)
        <4>1. j \in Nat /\ j <= i
          BY <1>1, <1>21, <1>22, <2>1, <3>2
        <4>2. ov(j) <= ov(b)
          BY <2>2, <4>1
        <4>3. ov(j) \in Nat /\ ov(b) \in Nat /\ ov(i + 1) \in Nat
          BY <1>2
        <4> QED BY <2>5, <4>2, <4>3
      <3>3. ASSUME NEW j \in E, j <= i + 1 PROVE ov(j) <= ov(i + 1)
        <4>1. j \in Nat /\ (j = i + 1 \/ j < i + 1)
          BY <1>1, <1>21, <1>22, <2>1, <3>3
        <4>2. ov(j) \in Nat /\ ov(i + 1) \in Nat
          BY <1>2
        <4> QED BY <3>2, <4>1, <4>2
      <3>4. leads(i + 1, c)
        BY <3>1, <3>2, <3>3
      <3> HIDE DEF leads
      <3> QED BY <2>1, <3>4 DEF c
    <2>6. CASE ~(counts(i + 1) /\ ov(i + 1) > ov(b))
      <3>1. c = b
        BY <2>3, <2>6 DEF body
      <3>2. ASSUME NEW j \in E, j <= i + 1 PROVE ov(j) <= ov(b)
        <4>1. j \in Nat /\ (j = i + 1 \/ j <= i)
          BY <1>1, <1>21, <1>22, <2>1, <3>2
        <4>2. CASE j <= i
          BY <2>2, <4>2
        <4>3. CASE j = i + 1
          <5>1. counts(i + 1)
            BY <1>20, <2>1, <4>3
          <5>2. ov(i + 1) \in Nat /\ ov(b) \in Nat /\ ~(ov(i + 1) > ov(b))
            BY <1>2, <2>6, <5>1
          <5>3. ov(i + 1) <= ov(b)
            BY <5>2
          <5> QED BY <4>3, <5>3
        <4> QED BY <4>1, <4>2, <4>3
      <3>3. leads(i + 1, b)
        BY <2>2, <3>2
      <3>4. leads(i + 1, c)
        BY <3>1, <3>3
      <3> HIDE DEF leads
      <3> QED BY <2>1, <3>4 DEF c
    <2> QED BY <2>5, <2>6
  <1> HIDE DEF done, leads
  <1>25. \A i \in 0..N : i \in done
    BY <1>1, <1>23, <1>24, UpTo
  <1>26. N \in 0..N
    BY <1>1
  <1>27. leads(N + 1, chosen[N])
    BY <1>25, <1>26 DEF done
  <1>28. leads(L, chosen[N])
    BY <1>22, <1>27
  <1> QED BY <1>3, <1>28 DEF leads, Lead, E, ov, L

-----------------------------------------------------------------------------
(* What AnswerResult gives: a refusal, a fact, or an answer of which the   *)
(* properties hold.                                                        *)
Related(question, result) ==
    LET shared == Shared(question, result.evidence) IN
    /\ shared >= 2 \/ (shared = 1 /\ result.confidence >= 300)
    /\ result.confidence = candidateScore(question, result.evidence)
FirstBest(question, sentences) ==
    LET overlap(k) == Overlap(question, sentences[k])
        best == {k \in Eligible(sentences) :
                     \A j \in Eligible(sentences) : overlap(j) <= overlap(k)}
    IN  CHOOSE k \in best : \A j \in best : k <= j
Opens(question, result) ==
    LET sentences == Nonblank(result.evidence) IN
    \E style \in 1..3 :
        Head(result.reply.body) = paraphrase(sentences[FirstBest(question, sentences)], style)
Sound(question, result) ==
    /\ result.confidence \in Nat /\ result.grounded \in BOOLEAN
    /\ result.reply.body # << >> => Related(question, result) /\ Opens(question, result)

LEMMA RefusalIsSound ==
    ASSUME NEW question, NEW score \in Nat
    PROVE  Sound(question, Refusal(score))
  BY DEF Sound, Refusal, NoReply

LEMMA FirstBestIs ==
    ASSUME NEW W, NEW question \in Seq(W), NEW R, NEW sentences \in Seq(R), sentences # << >>
    PROVE  FirstBest(question, sentences) = bestIndex(question, sentences)
PROOF
  <1> DEFINE E == Eligible(sentences)
             ov(k) == Overlap(question, sentences[k])
             best == {k \in E : \A j \in E : ov(j) <= ov(k)}
             b == bestIndex(question, sentences)
             L == Len(sentences)
  <1>1. /\ b \in E /\ \A j \in E : j <= L => ov(j) <= ov(b)
        /\ \A j \in E : j < b => ov(j) < ov(b)
    BY BestIndexIs DEF Lead
  <1>2. \A k : ov(k) \in Nat
    BY OverlapIsNat
  <1>3. L \in Nat /\ E \subseteq 1..L
    BY LenProperties DEF Eligible, LongOnes
  <1>4. FirstBest(question, sentences) = CHOOSE k \in best : \A j \in best : k <= j
    BY DEF FirstBest
  <1> HIDE DEF E, ov, b, L
  <1>5. \A j \in E : j \in Nat /\ j <= L
    BY <1>3
  <1>6. b \in best
    BY <1>1, <1>5
  <1>7. \A j \in best : b <= j
    <2> TAKE j \in best
    <2>1. j \in E /\ j \in Nat /\ b \in Nat /\ ov(b) <= ov(j)
      BY <1>1, <1>5, <1>6
    <2>2. ~(j < b)
      <3> SUFFICES ASSUME j < b PROVE FALSE
        OBVIOUS
      <3>1. ov(j) < ov(b)
        BY <1>1, <2>1
      <3>2. ov(j) \in Nat /\ ov(b) \in Nat
        BY <1>2
      <3> QED BY <2>1, <3>1, <3>2
    <2> QED BY <2>1, <2>2
  <1>8. best \subseteq Nat
    BY <1>5
  <1> DEFINE first == CHOOSE k \in best : \A j \in best : k <= j
  <1>9. first \in best /\ \A j \in best : first <= j
    <2> HIDE DEF best
    <2> QED BY <1>6, <1>7
  <1>10. first = b
    <2>1. first <= b /\ b <= first
      BY <1>6, <1>7, <1>9
    <2>2. first \in Nat /\ b \in Nat
      BY <1>6, <1>8, <1>9
    <2> HIDE DEF first
    <2> QED BY <2>1, <2>2
  <1> QED BY <1>4, <1>10 DEF b

LEMMA NonblankSentences ==
    ASSUME NEW text \in Prose
    PROVE  /\ Nonblank(text) \in Seq(Sentence)
           /\ Embed(FlattenSeq(text)) # {} => Nonblank(text) # << >>
PROOF
  <1> DEFINE T == Range(text) \ {<< >>}
             none == << >>
  <1>1. Nonblank(text) = Only(text, T)
    BY DEF Nonblank
  <1>2. text \in Seq(Sentence)
    BY DEF Prose
  <1>3. Nonblank(text) \in Seq(Sentence)
    <2>1. Only(text, T) \in Seq(Sentence \cap T)
      BY <1>2, OnlyType
    <2>2. Sentence \cap T \subseteq Sentence
      OBVIOUS
    <2> HIDE DEF T
    <2> QED BY <1>1, <2>1, <2>2, SeqWidens
  <1>4. ASSUME Embed(FlattenSeq(text)) # {} PROVE Nonblank(text) # << >>
    <2>1. FlattenSeq(text) # none
      <3> SUFFICES ASSUME FlattenSeq(text) = none PROVE FALSE
        OBVIOUS
      <3>1. factKey(none) = {}
        BY DEF factKey
      <3> HIDE DEF none
      <3>2. Embed(none) = {}
        BY <3>1 DEF Embed
      <3> QED BY <1>4, <3>2
    <2>2. PICK i \in 1..Len(text) : text[i] # << >>
      BY <1>2, <2>1, FlattenBlanks DEF Sentence
    <2>3. text[i] \in T
      <3>1. i \in DOMAIN text
        BY <1>2
      <3> QED BY <2>2, <3>1 DEF Range
    <2> HIDE DEF T
    <2> QED BY <1>1, <1>2, <2>3, OnlySome
  <1> QED BY <1>3, <1>4

Styled(sentences, style) == [k \in DOMAIN sentences |-> paraphrase(sentences[k], style)]
LEMMA BodyOf ==
    ASSUME NEW question, NEW text, NEW reply \in Format(question, text)
    PROVE  \E style \in 1..3 :
               reply.body = Styled(bestSentences(question, Nonblank(text)), style)
  BY DEF Format, Styled

LEMMA HeadOfBody ==
    ASSUME NEW question, NEW sentences, NEW style
    PROVE  Head(Styled(bestSentences(question, sentences), style))
               = paraphrase(sentences[bestIndex(question, sentences)], style)
PROOF
  <1> DEFINE first == sentences[bestIndex(question, sentences)]
             second == sentences[bestIndex(question, sentences) + 1]
             s == bestSentences(question, sentences)
  <1>1. s = <<first>> \/ s = <<first, second>>
    BY DEF bestSentences
  <1> HIDE DEF first, second, s
  <1>2. 1 \in DOMAIN s /\ s[1] = first
    BY <1>1
  <1>3. Styled(s, style)[1] = paraphrase(first, style)
    BY <1>2 DEF Styled
  <1>4. Head(Styled(s, style)) = Styled(s, style)[1]
    OBVIOUS
  <1> QED BY <1>3, <1>4 DEF first, s

LEMMA SharedIs ==
    ASSUME NEW W, NEW question \in Seq(W), NEW text \in Prose
    PROVE  /\ Shared(question, text) \in Nat
           /\ Shared(question, text) # 0 => Embed(FlattenSeq(text)) # {}
PROOF
  <1> DEFINE asks == Words(Embed(question))
             known == Words(Embed(FlattenSeq(text)))
  <1>1. Shared(question, text) = Cardinality(asks \cap known)
    BY DEF Shared
  <1>2. IsFiniteSet(asks)
    BY EmbedFinite
  <1>3. known # {} => Embed(FlattenSeq(text)) # {}
    BY DEF Words
  <1> HIDE DEF asks, known
  <1>4. asks \cap known \subseteq asks
    OBVIOUS
  <1>5. IsFiniteSet(asks \cap known)
    BY <1>2, <1>4, FS_Subset
  <1>6. Cardinality(asks \cap known) \in Nat
    BY <1>5, FS_CardinalityType
  <1>7. Cardinality(asks \cap known) # 0 => asks \cap known # {}
    BY FS_EmptySet
  <1>8. asks \cap known # {} => known # {}
    OBVIOUS
  <1> QED BY <1>1, <1>3, <1>6, <1>7, <1>8

LEMMA RetrievedIsSound ==
    ASSUME NEW W, NEW question \in Seq(W), NEW candidates \in Seq(Doc),
           NEW result \in Retrieved(question, candidates)
    PROVE  Sound(question, result)
PROOF
  <1> DEFINE best == bestCandidate(question, candidates)
             shared == Shared(question, candidates[best.place])
             weak == best.score < 50 \/ shared = 0 \/ (shared = 1 /\ best.score < 300)
             found(reply) == [fact |-> "", reply |-> reply, evidence |-> best.text,
                              confidence |-> best.score,
                              grounded |-> verifyEvidence(question, best.text, reply)]
  <1>1. result \in IF weak THEN {Refusal(best.score)}
                   ELSE {found(reply) : reply \in Format(question, best.text)}
    BY DEF Retrieved
  <1>2. CASE best = NoCandidate
    <2>1. best.score = 0 /\ weak
      BY <1>2 DEF NoCandidate
    <2>2. result = Refusal(0)
      BY <1>1, <2>1
    <2> QED BY <2>2, RefusalIsSound
  <1>3. ASSUME NEW n \in 1..Len(candidates), best = Chosen(question, candidates, n)
        PROVE  Sound(question, result)
    <2> DEFINE text == candidates[n]
               score == candidateScore(question, text)
    <2>1. best.text = text /\ best.score = score /\ best.place = n
      BY <1>3 DEF Chosen
    <2>2. text \in Doc /\ text \in Prose
      BY ElementOfSeq DEF Doc
    <2>3. score \in Nat
      BY <2>2, ScoreIsNat
    <2>4. CASE weak
      <3>1. result = Refusal(score)
        BY <1>1, <2>1, <2>4
      <3> QED BY <2>3, <3>1, RefusalIsSound
    <2>5. CASE ~weak
      <3> HIDE DEF score
      <3>1. PICK reply \in Format(question, text) : result = found(reply)
        BY <1>1, <2>1, <2>5
      <3>2. /\ result.reply = reply /\ result.evidence = text /\ result.confidence = score
            /\ result.grounded = verifyEvidence(question, text, reply)
        BY <2>1, <3>1
      <3>3. shared = Shared(question, text)
        BY <2>1
      <3>4. shared \in Nat /\ shared # 0
        BY <2>2, <2>5, <3>3, SharedIs
      <3>5. Related(question, result)
        <4> DEFINE m == shared
        <4>1. m \in Nat /\ m # 0 /\ (m = 1 => ~(score < 300))
          BY <2>1, <2>5, <3>4
        <4> HIDE DEF m
        <4>2. m >= 2 \/ (m = 1 /\ score >= 300)
          BY <2>3, <4>1
        <4> HIDE DEF shared
        <4> QED BY <3>2, <3>3, <4>2 DEF Related, m, score
      <3>6. Opens(question, result)
        <4> DEFINE sentences == Nonblank(text)
        <4>1. sentences \in Seq(Sentence) /\ sentences # << >>
          BY <2>2, <3>3, <3>4, SharedIs, NonblankSentences
        <4>2. PICK style \in 1..3 : reply.body = Styled(bestSentences(question, sentences), style)
          BY BodyOf
        <4>3. FirstBest(question, sentences) = bestIndex(question, sentences)
          BY <4>1, FirstBestIs
        <4>4. Head(reply.body) = paraphrase(sentences[FirstBest(question, sentences)], style)
          BY <4>2, <4>3, HeadOfBody
        <4> QED BY <3>2, <4>4 DEF Opens
      <3>7. result.grounded \in BOOLEAN
        BY <3>2 DEF verifyEvidence
      <3> QED BY <2>3, <3>2, <3>5, <3>6, <3>7 DEF Sound
    <2> QED BY <2>4, <2>5
  <1> QED BY <1>2, <1>3, BestCandidateIs

(* The result a fact gives, or the documents in its absence. *)
Given(fact, model, question) ==
    IF fact = "" THEN Retrieved(question, model.candidates)
    ELSE {[fact |-> fact, reply |-> NoReply, evidence |-> << >>, confidence |-> 1000,
           grounded |-> TRUE]}

LEMMA AnswerIsSound ==
    ASSUME NEW W, NEW question \in Seq(W), NEW model, model.candidates \in Seq(Doc),
           NEW result \in AnswerResult(model, question)
    PROVE  Sound(question, result)
PROOF
  <1>1. AnswerResult(model, question)
            = UNION {Given(fact, model, question) : fact \in Fact(model.facts, question)}
    BY DEF AnswerResult, Given
  <1>2. PICK fact \in Fact(model.facts, question) : result \in Given(fact, model, question)
    BY <1>1
  <1> DEFINE told == [fact |-> fact, reply |-> NoReply, evidence |-> << >>,
                      confidence |-> 1000, grounded |-> TRUE]
  <1>3. result \in Retrieved(question, model.candidates) \/ result = told
    <2>1. fact = "" => Given(fact, model, question) = Retrieved(question, model.candidates)
      BY DEF Given
    <2>2. fact # "" => Given(fact, model, question) = {told}
      BY DEF Given
    <2> HIDE DEF told
    <2> QED BY <1>2, <2>1, <2>2
  <1>4. CASE result \in Retrieved(question, model.candidates)
    BY <1>4, RetrievedIsSound
  <1>5. CASE result = told
    BY <1>5 DEF Sound, NoReply
  <1> QED BY <1>3, <1>4, <1>5

-----------------------------------------------------------------------------
(* The inductive invariant: files that can be read give documents, from    *)
(* the documents comes a result as it should be.                           *)
DocumentsInv ==
    /\ IsFolder(folder)
    /\ file.candidates \in Seq(Doc)
    /\ DocumentsOnly
    /\ Sound(asked.question, asked.result)
    /\ TypeOK

LEMMA EmbedNothing == Embed(FlattenSeq(<< >>)) = {}
PROOF
  <1>1. << >> \in Seq(Seq({})) /\ Len(<< >>) = 0
    OBVIOUS
  <1> DEFINE none == << >>
  <1>2. \A i \in 1..Len(none) : none[i] = << >>
    BY <1>1
  <1>3. FlattenSeq(none) = << >>
    <2> HIDE DEF none
    <2>1. none \in Seq(Seq({}))
      BY <1>1 DEF none
    <2> QED BY <1>2, <2>1, FlattenBlanks
  <1>4. factKey(<< >>) = {}
    BY DEF factKey
  <1>5. Embed(<< >>) = {}
    BY <1>4 DEF Embed
  <1> QED BY <1>3, <1>5

LEMMA FirstCandidates == FirstModel.candidates \in Seq(Doc)
PROOF
  <1> DEFINE c == FirstModel.candidates
             n == Len(c)
  <1>1. c \in Seq(Texts) /\ \A k \in DOMAIN c : Embed(FlattenSeq(c[k])) # {}
    BY TrainingAssumption DEF Validate
  <1> HIDE DEF c
  <1>2. n \in Nat /\ DOMAIN c = 1..n /\ \A k \in 1..n : c[k] \in Texts
    BY <1>1, LenProperties, ElementOfSeq
  <1>3. \A k \in 1..n : c[k] \in Doc
    <2> TAKE k \in 1..n
    <2>1. c[k] \in Prose
      BY <1>2, TextsAreProse
    <2>2. c[k] # << >>
      BY <1>1, <1>2, EmbedNothing
    <2> QED BY <2>1, <2>2 DEF Doc
  <1>4. c = [k \in 1..n |-> c[k]]
    BY <1>1, <1>2
  <1> HIDE DEF n
  <1>5. c \in Seq(Doc)
    BY <1>2, <1>3, <1>4
  <1> QED BY <1>5 DEF c

(* The documents in a file have a text. *)
LEMMA CandidatesHaveText ==
    ASSUME NEW candidates \in Seq(Doc)
    PROVE  \A k \in DOMAIN candidates : candidates[k] # << >>
PROOF
  <1>1. \A k \in DOMAIN candidates : candidates[k] \in Doc
    BY ElementOfSeq, LenProperties
  <1> QED BY <1>1 DEF Doc

LEMMA DocumentsAtFirst == Init => DocumentsInv
PROOF
  <1> SUFFICES ASSUME Init PROVE DocumentsInv
    OBVIOUS
  <1>1. IsFolder(folder)
    BY TrainingAssumption DEF Init, IsFolder
  <1>2. file.candidates \in Seq(Doc)
    BY FirstCandidates DEF Init
  <1>3. DocumentsOnly
    BY DEF Init, DocumentsOnly
  <1>4. Sound(asked.question, asked.result)
    <2>1. Sound(<< >>, Refusal(0))
      BY RefusalIsSound
    <2> QED BY <2>1 DEF Init, NoQuestion
  <1>5. TypeOK
    <2>1. DOMAIN file = {"candidates", "facts"} /\ file.facts = NoFacts
      BY TrainingAssumption DEF Init
    <2>2. \A key \in DOMAIN file.facts : file.facts[key] \in Answers
      BY <2>1 DEF NoFacts
    <2>3. \A k \in DOMAIN file.candidates : file.candidates[k] # << >>
      BY <1>2, CandidatesHaveText
    <2>4. spoiled \in BOOLEAN /\ changes \in 0..MaxChanges /\ taught \in 0..MaxTaught
      <3>1. MaxChanges \in Nat /\ MaxTaught \in Nat
        BY TrainingAssumption
      <3>2. spoiled = FALSE /\ changes = 0 /\ taught = 0
        BY DEF Init
      <3>3. spoiled \in BOOLEAN
        BY <3>2
      <3>4. changes \in 0..MaxChanges /\ taught \in 0..MaxTaught
        BY <3>1, <3>2
      <3> QED BY <3>3, <3>4
    <2>5. asked.question = << >>
      BY DEF Init, NoQuestion
    <2> QED BY <1>4, <2>1, <2>2, <2>3, <2>4, <2>5 DEF TypeOK, Sound
  <1> QED BY <1>1, <1>2, <1>3, <1>4, <1>5 DEF DocumentsInv

LEMMA DocumentsByChange == DocumentsInv /\ ChangeFolder => DocumentsInv'
PROOF
  <1> SUFFICES ASSUME DocumentsInv, ChangeFolder PROVE DocumentsInv'
    OBVIOUS
  <1>1. /\ changes < MaxChanges /\ changes' = changes + 1
        /\ UNCHANGED <<file, source, said, spoiled, asked, taught>>
    BY DEF ChangeFolder
  <1>2. IsFolder(folder')
    <2>1. IsFolder(folder)
      BY DEF DocumentsInv
    <2>2. CASE \E p \in UNION {{place} \X Files[place] : place \in DOMAIN Files} :
                   folder' = [place \in DOMAIN folder \cup {p[1]} |->
                                 IF place = p[1] THEN p[2] ELSE folder[place]]
      <3> DEFINE Put(place, f) ==
                     [q \in DOMAIN folder \cup {place} |-> IF place = q THEN f ELSE folder[q]]
      <3>a. PICK p \in UNION {{place} \X Files[place] : place \in DOMAIN Files} :
                folder' = Put(p[1], p[2])
        BY <2>2
      <3>b. PICK place \in DOMAIN Files : p \in {place} \X Files[place]
        BY <3>a
      <3>c. PICK f \in Files[place] : p[1] = place /\ p[2] = f
        BY <3>b
      <3>1. folder' = [q \in DOMAIN folder \cup {place} |-> IF q = place THEN f ELSE folder[q]]
        BY <3>a, <3>c
      <3>2. place \in 1..Places /\ IsFile(f)
        BY TrainingAssumption
      <3>3. DOMAIN folder' \subseteq 1..Places
        BY <2>1, <3>1, <3>2 DEF IsFolder
      <3>4. \A q \in DOMAIN folder' : IsFile(folder'[q])
        <4> TAKE q \in DOMAIN folder'
        <4>1. folder'[q] = IF q = place THEN f ELSE folder[q]
          BY <3>1
        <4>2. q # place => q \in DOMAIN folder
          BY <3>1
        <4>3. CASE q = place
          BY <3>2, <4>1, <4>3
        <4>4. CASE q # place
          <5>1. folder'[q] = folder[q] /\ IsFile(folder[q])
            BY <2>1, <4>1, <4>2, <4>4 DEF IsFolder
          <5> QED BY <5>1
        <4> QED BY <4>3, <4>4
      <3> QED BY <3>3, <3>4 DEF IsFolder
    <2>3. CASE \E p \in DOMAIN folder : folder' = [place \in DOMAIN folder \ {p} |-> folder[place]]
      BY <2>1, <2>3 DEF IsFolder
    <2> QED BY <2>2, <2>3 DEF ChangeFolder
  <1>3. TypeOK'
    <2>1. changes' \in 0..MaxChanges
      BY <1>1, TrainingAssumption DEF DocumentsInv, TypeOK
    <2> QED BY <1>1, <2>1 DEF DocumentsInv, TypeOK
  <1>4. DocumentsOnly'
    BY <1>1 DEF DocumentsInv, DocumentsOnly
  <1>5. Sound(asked'.question, asked'.result) /\ file'.candidates \in Seq(Doc)
    BY <1>1 DEF DocumentsInv
  <1> QED BY <1>2, <1>3, <1>4, <1>5 DEF DocumentsInv

LEMMA DocumentsByTrain == DocumentsInv /\ Train => DocumentsInv'
PROOF
  <1> SUFFICES ASSUME DocumentsInv, Train PROVE DocumentsInv'
    OBVIOUS
  <1> DEFINE kept == IF Validate(file) THEN file.facts ELSE NoFacts
  <1>1. PICK texts \in trainFrom(folder) :
            file' = [candidates |-> TrainTexts(texts), facts |-> kept]
    BY DEF Train
  <1>2. /\ source' = folder /\ spoiled' = (spoiled \/ ~Validate(file'))
        /\ UNCHANGED <<folder, said, asked, changes, taught>>
    BY DEF Train
  <1>3. texts \in Seq(Doc) /\ TrainTexts(texts) = texts
    BY TrainFromType DEF DocumentsInv
  <1>4. file'.candidates = texts /\ file'.facts = kept /\ DOMAIN file' = {"candidates", "facts"}
    BY <1>1, <1>3
  <1>5. \A key \in DOMAIN kept : kept[key] \in Answers
    BY DEF DocumentsInv, TypeOK, NoFacts
  <1> HIDE DEF kept
  <1>6. DocumentsOnly'
    <2>1. texts \in trainFrom(Apart(folder))
      BY TrainedApart DEF DocumentsInv
    <2> QED BY <1>2, <1>4, <2>1 DEF DocumentsOnly, Apart
  <1>7. \A k \in DOMAIN texts : texts[k] # << >>
    BY <1>3, CandidatesHaveText
  <1>8. spoiled' \in BOOLEAN
    BY <1>2
  <1>9. TypeOK'
    BY <1>2, <1>4, <1>5, <1>7, <1>8 DEF DocumentsInv, TypeOK
  <1>10. IsFolder(folder') /\ file'.candidates \in Seq(Doc) /\ Sound(asked'.question, asked'.result)
    BY <1>2, <1>3, <1>4 DEF DocumentsInv
  <1> QED BY <1>6, <1>9, <1>10 DEF DocumentsInv

LEMMA DocumentsByTeach ==
    ASSUME NEW question \in Questions, NEW answer \in Answers,
           DocumentsInv, Teach(question, answer)
    PROVE  DocumentsInv'
PROOF
  <1> DEFINE facts == TeachFact(file.facts, question, answer)
  <1>1. /\ file' = [candidates |-> file.candidates, facts |-> facts]
        /\ taught < MaxTaught /\ taught' = taught + 1
        /\ UNCHANGED <<folder, source, spoiled, asked, changes>>
    BY DEF Teach
  <1>2. \A key \in DOMAIN facts : facts[key] \in Answers
    BY DEF DocumentsInv, TypeOK, TeachFact
  <1> HIDE DEF facts
  <1>3. file'.candidates = file.candidates /\ file'.facts = facts
        /\ DOMAIN file' = {"candidates", "facts"}
    BY <1>1
  <1>4. taught' \in 0..MaxTaught
    BY <1>1, TrainingAssumption DEF DocumentsInv, TypeOK
  <1>5. TypeOK'
    BY <1>1, <1>2, <1>3, <1>4 DEF DocumentsInv, TypeOK
  <1>6. DocumentsOnly'
    BY <1>1, <1>3 DEF DocumentsInv, DocumentsOnly
  <1>7. IsFolder(folder') /\ file'.candidates \in Seq(Doc) /\ Sound(asked'.question, asked'.result)
    BY <1>1, <1>3 DEF DocumentsInv
  <1> QED BY <1>5, <1>6, <1>7 DEF DocumentsInv

LEMMA DocumentsByAsk ==
    ASSUME NEW question \in Questions, DocumentsInv, Ask(question)
    PROVE  DocumentsInv'
PROOF
  <1>1. PICK result \in AnswerResult(file, question) :
            asked' = [question |-> question, result |-> result]
    BY DEF Ask
  <1>2. UNCHANGED <<folder, file, source, said, spoiled, changes, taught>>
    BY DEF Ask
  <1>3. question \in Seq(STRING)
    BY TrainingAssumption
  <1>4. Sound(question, result)
    BY <1>3, AnswerIsSound DEF DocumentsInv
  <1>5. asked'.question = question /\ asked'.result = result
    BY <1>1
  <1>6. TypeOK'
    BY <1>2, <1>4, <1>5 DEF DocumentsInv, TypeOK, Sound
  <1>7. DocumentsOnly'
    BY <1>2 DEF DocumentsInv, DocumentsOnly
  <1>8. IsFolder(folder') /\ file'.candidates \in Seq(Doc) /\ Sound(asked'.question, asked'.result)
    BY <1>2, <1>4, <1>5 DEF DocumentsInv
  <1> QED BY <1>6, <1>7, <1>8 DEF DocumentsInv

LEMMA DocumentsByStep == DocumentsInv /\ [Next]_vars => DocumentsInv'
PROOF
  <1> SUFFICES ASSUME DocumentsInv, [Next]_vars PROVE DocumentsInv'
    OBVIOUS
  <1>1. CASE UNCHANGED vars
    BY <1>1 DEF vars, DocumentsInv, DocumentsOnly, TypeOK
  <1> QED BY <1>1, DocumentsByChange, DocumentsByTrain, DocumentsByTeach, DocumentsByAsk DEF Next

LEMMA DocumentsAlways == Spec => []DocumentsInv
PROOF BY DocumentsAtFirst, DocumentsByStep, PTL DEF Spec

(* The model file holds texts and answers that were taught, the result of  *)
(* a question a confidence and a verdict, whatever is in the folder.       *)
THEOREM TrainingTypeCorrect == Spec => []TypeOK
PROOF
  <1>1. DocumentsInv => TypeOK
    BY DEF DocumentsInv
  <1> QED BY <1>1, DocumentsAlways, PTL

(* No table of a live catalog is ever trained, and no document beside one  *)
(* is lost: what is trained are the documents of the other files.          *)
THEOREM DocumentsOnlyAlways == Spec => []DocumentsOnly
PROOF
  <1>1. DocumentsInv => DocumentsOnly
    BY DEF DocumentsInv
  <1> QED BY <1>1, DocumentsAlways, PTL

(* What is answered from the documents shares enough with the question,    *)
(* and the confidence is that of the text shown as evidence.               *)
THEOREM EvidenceIsRelatedAlways == Spec => []EvidenceIsRelated
PROOF
  <1>1. DocumentsInv => EvidenceIsRelated
    BY DEF DocumentsInv, Sound, Related, EvidenceIsRelated, Answered
  <1> QED BY <1>1, DocumentsAlways, PTL

(* An answer opens with the first of the sentences that share most with    *)
(* the question, in one of its versions.                                   *)
THEOREM OpensWithTheBestAlways == Spec => []OpensWithTheBest
PROOF
  <1>1. DocumentsInv => OpensWithTheBest
    <2> SUFFICES ASSUME DocumentsInv, Answered PROVE OpensWithTheBest
      BY DEF OpensWithTheBest
    <2>1. Opens(asked.question, asked.result)
      BY DEF DocumentsInv, Sound, Answered
    <2> QED BY <2>1 DEF OpensWithTheBest, Opens, FirstBest, Eligible, LongOnes
  <1> QED BY <1>1, DocumentsAlways, PTL

-----------------------------------------------------------------------------
(* Sums of what comes out of one after the other: each outcome has the     *)
(* same, and so has what comes out of them in any order.                   *)
Steady(x, w) == \A a, b \in x : Total(a, w) = Total(b, w)

Weighs(o, w, size, n) == \A i \in 1..n : \A e \in o[i] : Total(e, w) = size[i]
IsHeap(d, w, place, size, n) == Total(d, w) = Cardinality(Heap(place, size, n))

LEMMA TurnsAddUp ==
    ASSUME NEW S, NEW w \in [S -> Nat], NEW n \in Nat, NEW o \in [1..n -> SUBSET Seq(S)],
           NEW K, NEW place \in [1..n -> K], IsInjective(place),
           NEW size \in [1..n -> Nat], Weighs(o, w, size, n), NEW d \in InTurn(o)
    PROVE  IsHeap(d, w, place, size, n)
PROOF
  <1> DEFINE h == [i \in 0..n |-> Cardinality(Heap(place, size, i))]
  <1>1. PICK f \in [0..n -> SUBSET Seq(S)] : Turning(f, o, n) /\ InTurn(o) = f[n]
    BY InTurnSteps
  <1>2. f[0] = {<< >>} /\ \A i \in 1..n : f[i] = Each(f[i - 1], o[i])
    BY <1>1 DEF Turning
  <1>10. n \in 0..n
    OBVIOUS
  <1>11. h[n] = Cardinality(Heap(place, size, n))
    BY <1>10
  <1>3. AddsUp(h, size, n)
    BY HeapGrows
  <1> HIDE DEF h
  <1>4. h[0] = 0 /\ \A i \in 1..n : h[i] = h[i - 1] + size[i]
    BY <1>3 DEF AddsUp
  <1> DEFINE same == {i \in 0..n : \A x \in f[i] : Total(x, w) = h[i]}
  <1>5. 0 \in same
    BY <1>2, <1>4, SumOfNone
  <1>6. ASSUME NEW i \in 1..n, i - 1 \in same PROVE i \in same
    <2>1. i \in 0..n /\ i - 1 \in 0..n
      OBVIOUS
    <2>2. ASSUME NEW x \in f[i] PROVE Total(x, w) = h[i]
      <3> DEFINE a == f[i - 1]
                 b == o[i]
      <3>1. PICK y \in a, e \in b : x = y \o e
        <4>1. x \in Each(a, b)
          BY <1>2
        <4> HIDE DEF a, b
        <4>2. FromEach(x, a, b)
          BY <4>1, EachHas, Zenon
        <4> QED BY <4>2 DEF FromEach
      <3>2. y \in Seq(S) /\ e \in Seq(S)
        BY <2>1
      <3>3. Total(y, w) = h[i - 1] /\ Total(e, w) = size[i]
        BY <1>6 DEF Weighs
      <3>4. Total(y \o e, w) = Total(y, w) + Total(e, w)
        BY <3>2, SumConcat
      <3> QED BY <1>4, <3>1, <3>3, <3>4
    <2> QED BY <2>1, <2>2
  <1> HIDE DEF same
  <1>7. \A i \in 0..n : i \in same
    BY <1>5, <1>6, UpTo
  <1>8. n \in 0..n
    OBVIOUS
  <1>9. n \in same
    BY <1>7, <1>8
  <1> QED BY <1>1, <1>9, <1>11 DEF same, IsHeap

LEMMA InTurnSteady ==
    ASSUME NEW S, NEW w \in [S -> Nat], NEW n \in Nat, NEW o \in [1..n -> SUBSET Seq(S)],
           \A i \in 1..n : Steady(o[i], w)
    PROVE  Steady(InTurn(o), w)
PROOF
  <1> DEFINE size == [i \in 1..n |-> CHOOSE m \in Nat : \A e \in o[i] : Total(e, w) = m]
             place == [k \in 1..n |-> k]
  <1>1. ASSUME NEW i \in 1..n PROVE size[i] \in Nat /\ \A e \in o[i] : Total(e, w) = size[i]
    <2>1. \E m \in Nat : \A e \in o[i] : Total(e, w) = m
      <3>1. CASE o[i] = {}
        BY <3>1
      <3>2. CASE o[i] # {}
        <4>1. PICK a \in o[i] : TRUE
          BY <3>2
        <4>2. a \in Seq(S)
          OBVIOUS
        <4>3. Total(a, w) \in Nat
          BY <4>2, SumType
        <4> QED BY <4>1, <4>3 DEF Steady
      <3> QED BY <3>1, <3>2
    <2> QED BY <2>1
  <1>2. place \in [1..n -> Nat] /\ IsInjective(place)
    BY DEF IsInjective
  <1>3. size \in [1..n -> Nat]
    BY <1>1
  <1> HIDE DEF size, place
  <1>4. ASSUME NEW d \in InTurn(o) PROVE IsHeap(d, w, place, size, n)
    <2>1. Weighs(o, w, size, n)
      BY <1>1 DEF Weighs
    <2> QED BY <1>2, <1>3, <2>1, TurnsAddUp, Zenon
  <1> QED BY <1>4 DEF Steady, IsHeap

LEMMA AnyOrderSteady ==
    ASSUME NEW S, NEW w \in [S -> Nat], NEW o, IsFiniteSet(DOMAIN o),
           \A key \in DOMAIN o : o[key] \in SUBSET Seq(S) /\ Steady(o[key], w)
    PROVE  Steady(InAnyOrder(o), w)
PROOF
  <1> DEFINE D == DOMAIN o
             size == [key \in D |-> CHOOSE m \in Nat : \A e \in o[key] : Total(e, w) = m]
             all == UNION {{key} \X (1..size[key]) : key \in D}
  <1>1. ASSUME NEW key \in D
        PROVE  size[key] \in Nat /\ \A e \in o[key] : Total(e, w) = size[key]
    <2>1. \E m \in Nat : \A e \in o[key] : Total(e, w) = m
      <3>1. CASE o[key] = {}
        BY <3>1
      <3>2. CASE o[key] # {}
        <4>1. PICK a \in o[key] : TRUE
          BY <3>2
        <4>2. a \in Seq(S)
          OBVIOUS
        <4>3. Total(a, w) \in Nat
          BY <4>2, SumType
        <4> QED BY <4>1, <4>3 DEF Steady
      <3> QED BY <3>1, <3>2
    <2> QED BY <2>1
  <1>2. size \in [D -> Nat]
    BY <1>1
  <1> HIDE DEF size
  <1>3. ASSUME NEW order \in SetToSeqs(D),
               NEW d \in InTurn([k \in DOMAIN order |-> o[order[k]]])
        PROVE  Total(d, w) = Cardinality(all)
    <2> DEFINE n == Len(order)
               outcomes == [k \in 1..n |-> o[order[k]]]
               sizes == [k \in 1..n |-> size[order[k]]]
    <2>1. order \in Seq(D) /\ \A key \in D : \E i \in 1..n : order[i] = key
      BY OrderIs
    <2>2. n \in Nat /\ DOMAIN order = 1..n /\ \A k \in 1..n : order[k] \in D
      BY <2>1, LenProperties, ElementOfSeq
    <2>3. order \in [1..n -> D]
      BY <2>1
    <2>4. IsInjective(order)
      <3>1. \A i, j \in 1..Cardinality(D) : i # j => order[i] # order[j]
        BY DEF SetToSeqs
      <3>2. n = Cardinality(D)
        BY OrderIs
      <3> QED BY <2>2, <3>1, <3>2 DEF IsInjective
    <2>5. d \in InTurn(outcomes)
      BY <2>2
    <2> HIDE DEF n
    <2>6. outcomes \in [1..n -> SUBSET Seq(S)] /\ \A k \in 1..n : outcomes[k] = o[order[k]]
      BY <2>2
    <2>7. sizes \in [1..n -> Nat] /\ \A k \in 1..n : sizes[k] = size[order[k]]
      BY <1>2, <2>2
    <2> HIDE DEF outcomes, sizes
    <2>8. Weighs(outcomes, w, sizes, n)
      BY <1>1, <2>2, <2>6, <2>7 DEF Weighs
    <2>9. Total(d, w) = Cardinality(Heap(order, sizes, n))
      <3>1. IsHeap(d, w, order, sizes, n)
        BY <2>2, <2>3, <2>4, <2>5, <2>6, <2>7, <2>8, TurnsAddUp, Zenon
      <3> QED BY <3>1 DEF IsHeap
    <2>10. Heap(order, sizes, n) = all
      <3>1. Heap(order, sizes, n) = UNION {{order[k]} \X (1..size[order[k]]) : k \in 1..n}
        BY <2>7 DEF Heap
      <3> QED BY <2>1, <2>2, <3>1 DEF n
    <2> QED BY <2>9, <2>10
  <1> HIDE DEF all
  <1>4. \A d \in InAnyOrder(o) : Total(d, w) = Cardinality(all)
    BY <1>3 DEF InAnyOrder
  <1> QED BY <1>4 DEF Steady

LEMMA OnlyTotal ==
    ASSUME NEW S, NEW s \in Seq(S), NEW T, NEW w \in [S -> Nat],
           \A x \in S : x \notin T => w[x] = 0
    PROVE  Total(Only(s, T), w) = Total(s, w)
PROOF
  <1> DEFINE n == Len(s)
  <1>1. PICK f \in [0..n -> Seq(S \cap T)] : Keeping(f, s, T) /\ Only(s, T) = f[n]
    BY OnlySteps
  <1>2. f[0] = << >>
        /\ \A i \in 1..n : f[i] = IF s[i] \in T THEN Append(f[i - 1], s[i]) ELSE f[i - 1]
    BY <1>1 DEF Keeping
  <1>3. n \in Nat /\ n \in 0..n /\ \A k \in 1..n : s[k] \in S
    BY LenProperties, ElementOfSeq
  <1>4. \A i \in 0..n : f[i] \in Seq(S)
    <2>1. S \cap T \subseteq S
      OBVIOUS
    <2>2. Seq(S \cap T) \subseteq Seq(S)
      BY <2>1, SeqWidens
    <2> QED BY <2>2
  <1> HIDE DEF n
  <1> DEFINE g == [i \in 0..n |-> Total(f[i], w)]
  <1>5. g[0] = 0
    BY <1>2, <1>3, SumOfNone
  <1>6. ASSUME NEW i \in 1..n PROVE g[i] = g[i - 1] + w[s[i]]
    <2> DEFINE a == f[i - 1]
               e == s[i]
    <2>1. i \in 0..n /\ i - 1 \in 0..n
      BY <1>3
    <2>2. a \in Seq(S) /\ e \in S
      BY <1>3, <1>4, <2>1
    <2>3. f[i] = IF e \in T THEN Append(a, e) ELSE a
      BY <1>2
    <2>4. g[i] = Total(f[i], w) /\ g[i - 1] = Total(a, w)
      BY <2>1
    <2> HIDE DEF a, e, g
    <2>5. Total(Append(a, e), w) = Total(a, w) + w[e]
      BY <2>2, SumAppend
    <2>6. Total(a, w) \in Nat
      BY <2>2, SumType
    <2>7. e \notin T => w[e] = 0
      BY <2>2
    <2>8. g[i] = g[i - 1] + w[e]
      BY <2>3, <2>4, <2>5, <2>6, <2>7
    <2> QED BY <2>8 DEF e
  <1>7. g[n] = Total(Only(s, T), w)
    BY <1>1, <1>3
  <1> HIDE DEF g
  <1>8. Summing(g, s, w)
    BY <1>5, <1>6 DEF Summing, n
  <1>9. Total(s, w) = g[n]
    BY <1>8, SumIs DEF n
  <1> QED BY <1>7, <1>9

(* The readers: whatever is counted in the texts of a value.               *)
LEMMA OneIsSteady ==
    ASSUME NEW x, NEW w
    PROVE  Steady({x}, w)
  BY DEF Steady

LEMMA PairSteady ==
    ASSUME NEW S, NEW w \in [S -> Nat], NEW x \in SUBSET Seq(S), NEW y \in SUBSET Seq(S),
           Steady(x, w), Steady(y, w)
    PROVE  Steady(InTurn(<<x, y>>), w)
PROOF
  <1> DEFINE o == <<x, y>>
  <1>1. o \in [1..2 -> SUBSET Seq(S)] /\ 2 \in Nat
    OBVIOUS
  <1>2. \A i \in 1..2 : Steady(o[i], w)
    <2>1. o[1] = x /\ o[2] = y
      OBVIOUS
    <2> HIDE DEF o
    <2> QED BY <2>1
  <1> HIDE DEF o
  <1>3. Steady(InTurn(o), w)
    BY <1>1, <1>2, InTurnSteady
  <1> QED BY <1>3 DEF o

LEMMA NestedSteady ==
    ASSUME NEW S, NEW w \in [S -> Nat], NEW g, NEW value \in Values, value.kind = "array",
           \A u \in Below(value) : g[u] \in SUBSET Seq(S) /\ Steady(g[u], w)
    PROVE  Steady(InTurn(Nested(g, value)), w)
PROOF
  <1> DEFINE n == Len(value.items)
             o == Nested(g, value)
             V == SUBSET Seq(S)
  <1>1. n \in Nat /\ o = [k \in 1..n |-> g[value.items[k]]]
    BY ArrayItems DEF Nested
  <1>2. \A k \in 1..n : g[value.items[k]] \in V /\ Steady(g[value.items[k]], w)
    BY ArrayItems
  <1> HIDE DEF n, o, V
  <1>3. o \in [1..n -> V] /\ \A k \in 1..n : Steady(o[k], w)
    BY <1>1, <1>2
  <1>4. Steady(InTurn(o), w)
    BY <1>1, <1>3, InTurnSteady DEF V
  <1> QED BY <1>4 DEF o

LEMMA MembersSteady ==
    ASSUME NEW S, NEW w \in [S -> Nat], NEW g, NEW value \in Values, value.kind = "object",
           NEW keys, \A u \in Below(value) : g[u] \in SUBSET Seq(S) /\ Steady(g[u], w)
    PROVE  Steady(InAnyOrder(Members(g, value, keys)), w)
PROOF
  <1> DEFINE o == Members(g, value, keys)
  <1>1. DOMAIN o = DOMAIN value.entries \cap keys
    BY DEF Members
  <1>2. IsFiniteSet(DOMAIN o)
    <2>1. IsFiniteSet(DOMAIN value.entries)
      BY ObjectEntries
    <2> QED BY <1>1, <2>1, FS_Subset
  <1>3. \A key \in DOMAIN o : o[key] = g[value.entries[key]]
    BY DEF Members
  <1>4. \A key \in DOMAIN o : o[key] \in SUBSET Seq(S) /\ Steady(o[key], w)
    BY <1>1, <1>3, ObjectEntries
  <1> HIDE DEF o
  <1>5. Steady(InAnyOrder(o), w)
    BY <1>2, <1>4, AnyOrderSteady
  <1> QED BY <1>5 DEF o

LEMMA StringsSteady ==
    ASSUME NEW w \in [Prose -> Nat], NEW g, NEW value \in Values,
           \A u \in Below(value) : g[u] \in ManyProse /\ Steady(g[u], w)
    PROVE  Steady(Strings(g, value), w)
PROOF
  <1>1. CASE value.kind = "string"
    <2>1. Strings(g, value) = {<<value.text>>}
      BY <1>1 DEF Strings
    <2> QED BY <2>1, OneIsSteady
  <1>2. CASE value.kind = "array"
    <2>1. Strings(g, value) = InTurn(Nested(g, value))
      BY <1>2 DEF Strings
    <2> QED BY <1>2, <2>1, NestedSteady DEF ManyProse
  <1>3. CASE value.kind = "object"
    <2> DEFINE x == InAnyOrder(Members(g, value, {"subject"}))
               y == InAnyOrder(Members(g, value, DOMAIN value.entries \ Labels))
    <2>1. Strings(g, value) = InTurn(<<x, y>>)
      BY <1>3 DEF Strings
    <2>2. x \in SUBSET Seq(Prose) /\ y \in SUBSET Seq(Prose)
      BY <1>3, MembersType DEF ManyProse
    <2>3. Steady(x, w) /\ Steady(y, w)
      BY <1>3, MembersSteady DEF ManyProse
    <2> HIDE DEF x, y
    <2> QED BY <2>1, <2>2, <2>3, PairSteady
  <1>4. CASE value.kind \notin {"string", "array", "object"}
    <2>1. Strings(g, value) = {<< >>}
      BY <1>4 DEF Strings
    <2> QED BY <2>1, OneIsSteady
  <1> QED BY <1>1, <1>2, <1>3, <1>4

LEMMA CollectedSteady ==
    ASSUME NEW w \in [Prose -> Nat], NEW value \in Values
    PROVE  Steady(collectStrings[value], w)
PROOF
  <1> DEFINE done == {v \in Values : Steady(collectStrings[v], w)}
  <1>1. ASSUME NEW v \in Values, \A u \in Values : Depth[u] < Depth[v] => u \in done
        PROVE  v \in done
    <2>1. \A u \in Below(v) : collectStrings[u] \in ManyProse /\ Steady(collectStrings[u], w)
      BY <1>1, CollectedType DEF Below
    <2>2. Steady(Strings(collectStrings, v), w)
      BY <2>1, StringsSteady
    <2>3. collectStrings[v] = Strings(collectStrings, v)
      BY CollectedIs
    <2> QED BY <2>2, <2>3
  <1>2. Depth \in [Values -> Nat]
    BY DocumentsAssumption
  <1> HIDE DEF done
  <1>3. value \in done
    BY <1>1, <1>2, Shallowest
  <1> QED BY <1>3 DEF done

LEMMA LabeledSteady ==
    ASSUME NEW w \in [Token -> Nat], NEW value \in Values
    PROVE  Steady(collectLabeledStrings[value], w)
PROOF
  <1> DEFINE done == {v \in Values : Steady(collectLabeledStrings[v], w)}
             g == collectLabeledStrings
  <1>1. ASSUME NEW v \in Values, \A u \in Values : Depth[u] < Depth[v] => u \in done
        PROVE  v \in done
    <2>1. \A u \in Below(v) : g[u] \in ManyWords /\ Steady(g[u], w)
      BY <1>1, LabeledType DEF Below
    <2>2. g[v] = LabeledStrings(g, v)
      BY LabeledIs
    <2> HIDE DEF g
    <2>3. Steady(LabeledStrings(g, v), w)
      <3>1. CASE v.kind = "array"
        <4>1. LabeledStrings(g, v) = InTurn(Nested(g, v))
          BY <3>1 DEF LabeledStrings
        <4> QED BY <2>1, <3>1, <4>1, NestedSteady DEF ManyWords
      <3>2. CASE v.kind = "object"
        <4> DEFINE o == Worded(g, v)
                   D == DOMAIN o
        <4>1. LabeledStrings(g, v) = InAnyOrder(o)
          BY <3>2 DEF LabeledStrings
        <4>2. D = DOMAIN v.entries
          BY DEF Worded
        <4>3. IsFiniteSet(D)
          BY <3>2, <4>2, ObjectEntries
        <4>4. ASSUME NEW key \in D PROVE o[key] \in SUBSET Seq(Token) /\ Steady(o[key], w)
          <5>1. v.entries[key] \in Below(v)
            BY <3>2, <4>2, ObjectEntries
          <5>2. o[key] \in ManyWords
            BY <2>1, <3>2, <4>2, WordedHas DEF ManyWords
          <5>3. \/ \E words : o[key] = {words}
                \/ o[key] = g[v.entries[key]]
            BY <4>2 DEF Worded
          <5> QED BY <2>1, <5>1, <5>2, <5>3, OneIsSteady DEF ManyWords
        <4> HIDE DEF o
        <4> QED BY <4>1, <4>3, <4>4, AnyOrderSteady
      <3>3. CASE v.kind \notin {"array", "object"}
        <4>1. \E words : LabeledStrings(g, v) = {words}
          BY <3>3 DEF LabeledStrings
        <4> QED BY <4>1, OneIsSteady
      <3> QED BY <3>1, <3>2, <3>3
    <2> QED BY <2>2, <2>3 DEF g
  <1>2. Depth \in [Values -> Nat]
    BY DocumentsAssumption
  <1> HIDE DEF done
  <1>3. value \in done
    BY <1>1, <1>2, Shallowest
  <1> QED BY <1>3 DEF done

-----------------------------------------------------------------------------
(* A key says how often each token is there: sequences with the same sums  *)
(* for all weights have the same key.                                      *)
Alike(a, b, S) == \A w \in [S -> Nat] : Total(a, w) = Total(b, w)
Unit(S, t) == [x \in S |-> IF x = t THEN 1 ELSE 0]
Likes(words, t, i) == {j \in 1..i : words[j] = t}

Counting(c, words, t, S) ==
    /\ c[0] = 0 /\ Total(words, Unit(S, t)) = c[Len(words)]
    /\ \A i \in 1..Len(words) : c[i] = c[i - 1] + (IF words[i] = t THEN 1 ELSE 0)
    /\ \A i \in 0..Len(words) : c[i] = Cardinality(Likes(words, t, i)) /\ c[i] <= c[Len(words)]

LEMMA CountExists ==
    ASSUME NEW W, NEW words \in Seq(W), NEW t \in W
    PROVE  \E c \in [0..Len(words) -> Nat] : Counting(c, words, t, W)
PROOF
  <1> DEFINE n == Len(words)
             w == Unit(W, t)
             c == [i \in 0..n |-> Cardinality(Likes(words, t, i))]
  <1>1. n \in Nat /\ n \in 0..n /\ \A k \in 1..n : words[k] \in W
    BY LenProperties, ElementOfSeq
  <1> HIDE DEF n
  <1>2. \A i \in 0..n : c[i] = Cardinality(Likes(words, t, i))
    OBVIOUS
  <1>3. ASSUME NEW i \in 0..n PROVE IsFiniteSet(Likes(words, t, i)) /\ c[i] \in Nat
    <2>1. IsFiniteSet(1..i)
      <3>1. i \in Nat
        BY <1>1
      <3> QED BY <3>1, IntervalSize
    <2>2. Likes(words, t, i) \subseteq 1..i
      BY DEF Likes
    <2>3. IsFiniteSet(Likes(words, t, i))
      BY <2>1, <2>2, FS_Subset
    <2> QED BY <1>2, <2>3, FS_CardinalityType
  <1>4. c \in [0..n -> Nat]
    BY <1>3
  <1> HIDE DEF c
  <1>5. c[0] = 0
    <2>1. Likes(words, t, 0) = {}
      <3>1. 1..0 = {}
        OBVIOUS
      <3> QED BY <3>1 DEF Likes
    <2>2. 0 \in 0..n
      BY <1>1
    <2> QED BY <1>2, <2>1, <2>2, FS_EmptySet
  <1>6. ASSUME NEW i \in 1..n PROVE c[i] = c[i - 1] + (IF words[i] = t THEN 1 ELSE 0)
    <2> DEFINE before == Likes(words, t, i - 1)
               now == Likes(words, t, i)
    <2>1. i \in 0..n /\ i - 1 \in 0..n /\ i \in Nat
      BY <1>1
    <2>2. c[i] = Cardinality(now) /\ c[i - 1] = Cardinality(before) /\ c[i - 1] \in Nat
      BY <1>2, <1>3, <2>1
    <2>3. IsFiniteSet(before) /\ i \notin before
      BY <1>3, <2>1 DEF Likes
    <2>4. words[i] = t => now = before \cup {i}
      BY <2>1 DEF Likes
    <2>5. words[i] # t => now = before
      BY <2>1 DEF Likes
    <2> HIDE DEF before, now
    <2>6. Cardinality(before \cup {i}) = Cardinality(before) + 1
      BY <2>3, FS_AddElement
    <2>7. words[i] = t => c[i] = c[i - 1] + 1
      BY <2>2, <2>4, <2>6
    <2>8. words[i] # t => c[i] = c[i - 1] + 0
      BY <2>2, <2>5
    <2> QED BY <2>7, <2>8, Zenon
  <1>7. ASSUME NEW i \in 0..n PROVE c[i] <= c[n]
    <2>1. Likes(words, t, i) \subseteq Likes(words, t, n)
      BY <1>1 DEF Likes
    <2>2. IsFiniteSet(Likes(words, t, n))
      BY <1>1, <1>3
    <2>3. Cardinality(Likes(words, t, i)) <= Cardinality(Likes(words, t, n))
      BY <2>1, <2>2, FS_Subset
    <2> QED BY <1>1, <1>2, <2>3
  <1>8. w \in [W -> Nat]
    BY DEF Unit
  <1>9. \A i \in 1..n : w[words[i]] = IF words[i] = t THEN 1 ELSE 0
    BY <1>1 DEF Unit
  <1> HIDE DEF w
  <1>10. \A i \in 1..n : c[i] = c[i - 1] + w[words[i]]
    BY <1>6, <1>9
  <1>11. Summing(c, words, w)
    BY <1>5, <1>10 DEF Summing, n
  <1>12. Total(words, w) = c[n]
    BY <1>8, <1>11, SumIs DEF n
  <1>13. Counting(c, words, t, W)
    BY <1>2, <1>5, <1>6, <1>7, <1>12 DEF Counting, n, w
  <1> QED BY <1>4, <1>13 DEF n

LEMMA KeyWithin ==
    ASSUME NEW W, NEW a \in Seq(W), NEW b \in Seq(W), Alike(a, b, W)
    PROVE  factKey(a) \subseteq factKey(b)
PROOF
  <1> SUFFICES ASSUME NEW i \in DOMAIN a
               PROVE  <<a[i], Cardinality({j \in 1..i : a[j] = a[i]})>> \in factKey(b)
    BY DEF factKey
  <1> DEFINE t == a[i]
             n == Len(a)
             m == Len(b)
  <1>1. n \in Nat /\ m \in Nat /\ i \in 1..n /\ t \in W /\ DOMAIN b = 1..m
    BY LenProperties, ElementOfSeq
  <1> HIDE DEF t
  <1>2. PICK c \in [0..n -> Nat] : Counting(c, a, t, W)
    BY <1>1, CountExists, Zenon
  <1>3. PICK d \in [0..m -> Nat] : Counting(d, b, t, W)
    BY <1>1, CountExists, Zenon
  <1> DEFINE j == c[i]
  <1>4. /\ c[0] = 0 /\ Total(a, Unit(W, t)) = c[n]
        /\ \A k \in 1..n : c[k] = c[k - 1] + (IF a[k] = t THEN 1 ELSE 0)
        /\ \A k \in 0..n : c[k] <= c[n]
    BY <1>2 DEF Counting
  <1>5. /\ d[0] = 0 /\ Total(b, Unit(W, t)) = d[m]
        /\ \A k \in 1..m : d[k] = d[k - 1] + (IF b[k] = t THEN 1 ELSE 0)
        /\ \A k \in 0..m : d[k] <= d[m]
    BY <1>3 DEF Counting
  <1>6. c[n] = d[m]
    <2>1. Unit(W, t) \in [W -> Nat]
      BY DEF Unit
    <2> QED BY <1>4, <1>5, <2>1 DEF Alike
  <1> HIDE DEF n, m
  <1>7. j \in Nat /\ j >= 1 /\ j <= d[m]
    <2>1. i \in 0..n /\ i - 1 \in 0..n
      BY <1>1
    <2>2. c[i] = c[i - 1] + 1 /\ c[i] \in Nat /\ c[i - 1] \in Nat /\ c[i] <= c[n]
      BY <1>1, <1>4, <2>1 DEF t
    <2> QED BY <1>6, <2>2
  <1> HIDE DEF j
  <1> DEFINE reached == {k \in 0..m : d[k] >= j}
  <1>8. reached \subseteq Nat /\ reached # {}
    <2>1. m \in 0..m
      BY <1>1
    <2> QED BY <1>5, <1>7, <2>1
  <1>9. PICK k \in reached : \A l \in reached : k <= l
    <2> HIDE DEF reached
    <2> QED BY <1>8, LeastNatural
  <1>10. k \in 1..m
    BY <1>1, <1>5, <1>7, <1>9
  <1>11. k - 1 \in 0..m /\ k \in 0..m /\ k - 1 \notin reached
    BY <1>1, <1>9, <1>10
  <1>12. d[k] \in Nat /\ d[k - 1] \in Nat /\ d[k] >= j /\ d[k - 1] < j
    BY <1>5, <1>7, <1>9, <1>11
  <1>13. d[k] = j /\ b[k] = t
    BY <1>5, <1>7, <1>10, <1>12
  <1>14. Cardinality({l \in 1..k : b[l] = b[k]}) = j
    BY <1>3, <1>11, <1>13 DEF Counting, Likes, m
  <1>15. <<b[k], Cardinality({l \in 1..k : b[l] = b[k]})>> \in factKey(b)
    BY <1>1, <1>10 DEF factKey
  <1>16. Cardinality({l \in 1..i : a[l] = a[i]}) = j
    <2>1. i \in 0..n
      BY <1>1
    <2> QED BY <1>2, <2>1 DEF Counting, Likes, n, t, j
  <1> QED BY <1>13, <1>14, <1>15, <1>16 DEF t

LEMMA SameKey ==
    ASSUME NEW W, NEW a \in Seq(W), NEW b \in Seq(W), Alike(a, b, W)
    PROVE  factKey(a) = factKey(b)
PROOF
  <1>1. Alike(b, a, W)
    BY DEF Alike
  <1>2. factKey(a) \subseteq factKey(b)
    BY KeyWithin
  <1>3. factKey(b) \subseteq factKey(a)
    BY <1>1, KeyWithin
  <1> QED BY <1>2, <1>3

(* The weight of a text is what its tokens weigh together, and the key of  *)
(* a text that of all its tokens.                                          *)
SentenceWeight(w) == [x \in Sentence |-> Total(x, w)]
TextWeight(w) == [text \in Prose |-> Total(text, SentenceWeight(w))]
docKey == [text \in Prose |-> factKey(FlattenSeq(text))]

LEMMA TextWeightType ==
    ASSUME NEW w \in [Token -> Nat]
    PROVE  /\ SentenceWeight(w) \in [Sentence -> Nat]
           /\ TextWeight(w) \in [Prose -> Nat] /\ TextWeight(w)[<< >>] = 0
PROOF
  <1>1. \A x \in Sentence : Total(x, w) \in Nat
    BY SumType DEF Sentence
  <1>2. SentenceWeight(w) \in [Sentence -> Nat]
    BY <1>1 DEF SentenceWeight
  <1> DEFINE v == SentenceWeight(w)
  <1> HIDE DEF v
  <1>3. \A text \in Prose : Total(text, v) \in Nat
    BY <1>2, SumType DEF Prose, v
  <1>4. << >> \in Prose
    BY DEF Prose
  <1>5. Total(<< >>, v) = 0
    BY SumOfNone
  <1> QED BY <1>2, <1>3, <1>4, <1>5 DEF TextWeight, v

LEMMA TextWeighs ==
    ASSUME NEW w \in [Token -> Nat], NEW text \in Prose
    PROVE  Total(FlattenSeq(text), w) = TextWeight(w)[text]
PROOF
  <1> DEFINE v == SentenceWeight(w)
  <1>1. v \in [Seq(Token) -> Nat] /\ SumsUp(v, w, Token)
    BY TextWeightType DEF SentenceWeight, Sentence, SumsUp
  <1>2. text \in Seq(Seq(Token))
    BY DEF Prose, Sentence
  <1>3. TextWeight(w)[text] = Total(text, v)
    BY DEF TextWeight
  <1> HIDE DEF v
  <1>4. Total(FlattenSeq(text), w) = Total(text, v)
    BY <1>1, <1>2, SumFlatten
  <1> QED BY <1>3, <1>4

LEMMA JoinedWeighs ==
    ASSUME NEW w \in [Token -> Nat], NEW texts \in Seq(Prose)
    PROVE  TextWeight(w)[FlattenSeq(texts)] = Total(texts, TextWeight(w))
PROOF
  <1> DEFINE u == SentenceWeight(w)
             v == TextWeight(w)
             t == FlattenSeq(texts)
  <1>1. t \in Prose
    BY FlattenType DEF Prose
  <1>2. v[t] = Total(t, u)
    BY <1>1 DEF TextWeight
  <1>3. u \in [Sentence -> Nat] /\ v \in [Seq(Sentence) -> Nat]
    BY TextWeightType DEF Prose
  <1>4. SumsUp(v, u, Sentence)
    BY DEF TextWeight, Prose, SumsUp
  <1>5. texts \in Seq(Seq(Sentence))
    BY DEF Prose
  <1> HIDE DEF u, v
  <1>6. Total(FlattenSeq(texts), u) = Total(texts, v)
    BY <1>3, <1>4, <1>5, SumFlatten
  <1> QED BY <1>2, <1>6 DEF v

LEMMA DocKeySame ==
    ASSUME NEW c \in Prose, NEW d \in Prose,
           \A w \in [Token -> Nat] : TextWeight(w)[c] = TextWeight(w)[d]
    PROVE  docKey[c] = docKey[d]
PROOF
  <1> DEFINE a == FlattenSeq(c)
             b == FlattenSeq(d)
  <1>1. a \in Seq(Token) /\ b \in Seq(Token)
    BY FlattenType DEF Prose, Sentence
  <1>2. ASSUME NEW w \in [Token -> Nat] PROVE Total(a, w) = Total(b, w)
    BY TextWeighs
  <1>3. docKey[c] = factKey(a) /\ docKey[d] = factKey(b)
    BY DEF docKey
  <1> HIDE DEF a, b
  <1>4. Alike(a, b, Token)
    BY <1>2 DEF Alike
  <1> QED BY <1>1, <1>3, <1>4, SameKey

(* What is shown of a sequence is a function of its elements: outcomes of  *)
(* which the same is shown are settled.                                    *)
Shown(s, f) == [k \in DOMAIN s |-> f[s[k]]]
Settled(x, f) == \A a, b \in x : Shown(a, f) = Shown(b, f)
ShownSplits(a, b, f) == Shown(a \o b, f) = Shown(a, f) \o Shown(b, f)

LEMMA OneIsSettled ==
    ASSUME NEW x, NEW f
    PROVE  Settled({x}, f)
  BY DEF Settled

LEMMA ShownConcat ==
    ASSUME NEW S, NEW R, NEW f \in [S -> R], NEW a \in Seq(S), NEW b \in Seq(S)
    PROVE  ShownSplits(a, b, f)
PROOF
  <1> DEFINE n == Len(a)
             m == Len(b)
             c == a \o b
             u == Shown(a, f)
             v == Shown(b, f)
  <1>1. n \in Nat /\ m \in Nat /\ DOMAIN a = 1..n /\ DOMAIN b = 1..m
    BY LenProperties
  <1>2. (\A k \in 1..n : a[k] \in S) /\ (\A k \in 1..m : b[k] \in S)
    BY ElementOfSeq
  <1>3. c \in Seq(S) /\ Len(c) = n + m
    BY ConcatProperties
  <1>4. DOMAIN c = 1..n + m
    BY <1>3, LenProperties
  <1>5. \A k \in 1..n + m : c[k] = IF k <= n THEN a[k] ELSE b[k - n]
    BY ConcatProperties
  <1>6. u = [k \in 1..n |-> f[a[k]]] /\ v = [k \in 1..m |-> f[b[k]]]
    BY <1>1 DEF Shown
  <1>7. u \in Seq(R) /\ v \in Seq(R) /\ Len(u) = n /\ Len(v) = m
    BY <1>1, <1>2, <1>6
  <1>8. Shown(c, f) = [k \in 1..n + m |-> f[c[k]]]
    BY <1>4 DEF Shown
  <1> HIDE DEF n, m, c, u, v
  <1>9. u \o v \in Seq(R) /\ Len(u \o v) = n + m
    BY <1>7, ConcatProperties
  <1>10. \A k \in 1..n + m : (u \o v)[k] = IF k <= n THEN u[k] ELSE v[k - n]
    BY <1>7, ConcatProperties
  <1>11. u \o v = [k \in 1..n + m |-> (u \o v)[k]]
    <2> DEFINE t == u \o v
    <2> HIDE DEF t
    <2>1. t \in Seq(R) /\ Len(t) = n + m
      BY <1>9 DEF t
    <2>2. DOMAIN t = 1..n + m /\ t = [k \in DOMAIN t |-> t[k]]
      BY <2>1, LenProperties
    <2>3. t = [k \in 1..n + m |-> t[k]]
      BY <2>2
    <2> QED BY <2>3 DEF t
  <1>12. ASSUME NEW k \in 1..n + m PROVE (u \o v)[k] = f[c[k]]
    <2>1. CASE k <= n
      <3>1. k \in 1..n
        BY <1>1, <2>1
      <3>2. u[k] = f[a[k]]
        BY <1>6, <3>1
      <3> QED BY <1>5, <1>10, <2>1, <3>2
    <2>2. CASE ~(k <= n)
      <3>1. k - n \in 1..m
        BY <1>1, <2>2
      <3>2. v[k - n] = f[b[k - n]]
        BY <1>6, <3>1
      <3> QED BY <1>5, <1>10, <2>2, <3>2
    <2> QED BY <2>1, <2>2
  <1>13. Shown(c, f) = u \o v
    BY <1>8, <1>11, <1>12
  <1> QED BY <1>13 DEF ShownSplits, c, u, v

LEMMA InTurnSettled ==
    ASSUME NEW S, NEW R, NEW f \in [S -> R], NEW n \in Nat, NEW o \in [1..n -> SUBSET Seq(S)],
           \A i \in 1..n : Settled(o[i], f)
    PROVE  Settled(InTurn(o), f)
PROOF
  <1>1. PICK g \in [0..n -> SUBSET Seq(S)] : Turning(g, o, n) /\ InTurn(o) = g[n]
    BY InTurnSteps
  <1>2. g[0] = {<< >>} /\ \A i \in 1..n : g[i] = Each(g[i - 1], o[i])
    BY <1>1 DEF Turning
  <1> DEFINE done == {i \in 0..n : Settled(g[i], f)}
  <1>3. 0 \in done
    <2>1. Settled({<< >>}, f)
      BY OneIsSettled, Zenon
    <2>2. Settled(g[0], f)
      BY <1>2, <2>1
    <2> QED BY <2>2
  <1>4. ASSUME NEW i \in 1..n, i - 1 \in done PROVE i \in done
    <2>1. i \in 0..n /\ i - 1 \in 0..n
      OBVIOUS
    <2> DEFINE a == g[i - 1]
               b == o[i]
    <2>2. Settled(a, f) /\ Settled(b, f) /\ a \in SUBSET Seq(S) /\ b \in SUBSET Seq(S)
      BY <1>4, <2>1
    <2>3. g[i] = Each(a, b)
      BY <1>2
    <2> HIDE DEF a, b
    <2>4. ASSUME NEW x \in Each(a, b), NEW y \in Each(a, b) PROVE Shown(x, f) = Shown(y, f)
      <3>1. FromEach(x, a, b) /\ FromEach(y, a, b)
        BY EachHas, Zenon
      <3>2. PICK c \in a, d \in b : x = c \o d
        BY <3>1 DEF FromEach
      <3>3. PICK p \in a, q \in b : y = p \o q
        BY <3>1 DEF FromEach
      <3>4. c \in Seq(S) /\ d \in Seq(S) /\ p \in Seq(S) /\ q \in Seq(S)
        BY <2>2
      <3>5. ShownSplits(c, d, f) /\ ShownSplits(p, q, f)
        BY <3>4, ShownConcat, Zenon
      <3>6. Shown(c, f) = Shown(p, f) /\ Shown(d, f) = Shown(q, f)
        BY <2>2 DEF Settled
      <3> QED BY <3>2, <3>3, <3>5, <3>6 DEF ShownSplits
    <2> QED BY <2>1, <2>3, <2>4 DEF Settled
  <1> HIDE DEF done
  <1>5. \A i \in 0..n : i \in done
    BY <1>3, <1>4, UpTo
  <1>6. n \in 0..n
    OBVIOUS
  <1>7. n \in done
    BY <1>5, <1>6
  <1> QED BY <1>1, <1>7 DEF done

(* The texts of two collections of strings, joined: of the same strings    *)
(* they have the same key, and both are blank or neither is.               *)
Same(c, d) == \A v \in [Prose -> Nat] : v[<< >>] = 0 => Total(c, v) = Total(d, v)
Counted == [text \in Prose |-> IF text = << >> THEN 0 ELSE 1]

LEMMA OneShown ==
    ASSUME NEW text \in Prose
    PROVE  /\ text = << >> => Shown(One(text), docKey) = << >>
           /\ text # << >> => Shown(One(text), docKey) = <<docKey[text]>>
PROOF
  <1>1. Shown(<< >>, docKey) = << >>
    BY DEF Shown
  <1>2. Shown(<<text>>, docKey) = <<docKey[text]>>
    BY DEF Shown
  <1> QED BY <1>1, <1>2 DEF One

LEMMA JoinedSame ==
    ASSUME NEW c \in Seq(Prose), NEW d \in Seq(Prose), Same(c, d)
    PROVE  Shown(One(FlattenSeq(c)), docKey) = Shown(One(FlattenSeq(d)), docKey)
PROOF
  <1> DEFINE p == FlattenSeq(c)
             q == FlattenSeq(d)
  <1>1. p \in Prose /\ q \in Prose
    BY FlattenType DEF Prose
  <1>2. docKey[p] = docKey[q]
    <2>1. ASSUME NEW w \in [Token -> Nat] PROVE TextWeight(w)[p] = TextWeight(w)[q]
      <3>1. TextWeight(w)[p] = Total(c, TextWeight(w)) /\ TextWeight(w)[q] = Total(d, TextWeight(w))
        BY JoinedWeighs
      <3>2. Total(c, TextWeight(w)) = Total(d, TextWeight(w))
        BY TextWeightType DEF Same
      <3> QED BY <3>1, <3>2
    <2> HIDE DEF p, q
    <2> QED BY <1>1, <2>1, DocKeySame
  <1>3. p = << >> <=> q = << >>
    <2> DEFINE one == [x \in Sentence |-> 1]
               v == [text \in Prose |-> Total(text, one)]
    <2>1. one \in [Sentence -> Nat] /\ \A x \in Sentence : one[x] = 1
      OBVIOUS
    <2> HIDE DEF one
    <2>2. \A text \in Prose : Total(text, one) \in Nat
      BY <2>1, SumType DEF Prose
    <2>3. v \in [Prose -> Nat] /\ SumsUp(v, one, Sentence)
      BY <2>2 DEF SumsUp, Prose
    <2>4. v[<< >>] = 0
      <3>1. << >> \in Prose
        BY DEF Prose
      <3>2. Total(<< >>, one) = 0
        BY SumOfNone
      <3> QED BY <3>1, <3>2
    <2> HIDE DEF v
    <2>5. Total(c, v) = Total(d, v)
      BY <2>3, <2>4 DEF Same
    <2>6. Total(FlattenSeq(c), one) = Total(c, v) /\ Total(FlattenSeq(d), one) = Total(d, v)
      <3>1. c \in Seq(Seq(Sentence)) /\ d \in Seq(Seq(Sentence)) /\ v \in [Seq(Sentence) -> Nat]
        BY <2>3 DEF Prose
      <3>2. Total(FlattenSeq(c), one) = Total(c, v)
        BY <2>1, <2>3, <3>1, SumFlatten
      <3>3. Total(FlattenSeq(d), one) = Total(d, v)
        BY <2>1, <2>3, <3>1, SumFlatten
      <3> QED BY <3>2, <3>3
    <2>7. p \in Seq(Sentence) /\ q \in Seq(Sentence)
      BY <1>1 DEF Prose
    <2>8. Total(p, one) = Len(p) /\ Total(q, one) = Len(q)
      <3> HIDE DEF p, q
      <3> QED BY <2>1, <2>7, SumLength
    <2>9. Len(p) = Len(q)
      BY <2>5, <2>6, <2>8
    <2> HIDE DEF p, q
    <2> QED BY <2>7, <2>9, EmptySeq
  <1> HIDE DEF p, q
  <1>4. Shown(One(p), docKey) = Shown(One(q), docKey)
    BY <1>1, <1>2, <1>3, OneShown
  <1> QED BY <1>4 DEF p, q

LEMMA NonblankIs ==
    ASSUME NEW texts \in Seq(Prose)
    PROVE  Nonblank(texts) = Only(texts, Doc)
PROOF
  <1> DEFINE S == Range(texts)
             T == S \ {<< >>}
  <1>1. texts \in Seq(S) /\ S \subseteq Prose
    BY RangeSeq
  <1>2. \A e \in S : e \in T <=> e \in Doc
    BY <1>1 DEF Doc
  <1>3. Nonblank(texts) = Only(texts, T)
    BY DEF Nonblank
  <1> HIDE DEF S, T
  <1> QED BY <1>1, <1>2, <1>3, OnlySame

LEMMA NonblankWeighs ==
    ASSUME NEW texts \in Seq(Prose), NEW v \in [Prose -> Nat], v[<< >>] = 0
    PROVE  Total(Nonblank(texts), v) = Total(texts, v)
PROOF
  <1>1. \A x \in Prose : x \notin Doc => v[x] = 0
    BY DEF Doc
  <1>2. Total(Only(texts, Doc), v) = Total(texts, v)
    BY <1>1, OnlyTotal
  <1> QED BY <1>2, NonblankIs

LEMMA NothingNonblank ==
    ASSUME NEW texts \in Seq(Prose)
    PROVE  Nonblank(texts) = << >> <=> Total(texts, Counted) = 0
PROOF
  <1> DEFINE v == Counted
             t == Nonblank(texts)
  <1>1. v \in [Prose -> Nat] /\ v[<< >>] = 0 /\ \A x \in Doc : v[x] = 1
    BY DEF Counted, Doc, Prose
  <1>2. t \in Seq(Doc) /\ Doc \subseteq Prose
    BY NonblankType DEF Doc
  <1> HIDE DEF v
  <1>3. Total(t, v) = Total(texts, v)
    BY <1>1, NonblankWeighs
  <1> HIDE DEF t
  <1>4. t \in Seq(Prose) /\ Len(t) \in Nat /\ \A k \in 1..Len(t) : t[k] \in Doc
    BY <1>2, SeqWidens, LenProperties, ElementOfSeq
  <1>5. Total(t, v) = 0 <=> \A k \in 1..Len(t) : v[t[k]] = 0
    BY <1>1, <1>4, SumIsNothing
  <1>6. Total(t, v) = 0 <=> Len(t) = 0
    BY <1>1, <1>4, <1>5
  <1>7. Len(t) = 0 <=> t = << >>
    BY <1>2, EmptySeq
  <1> QED BY <1>3, <1>6, <1>7 DEF t, v

LEMMA ItemsSettled ==
    ASSUME NEW value \in Values
    PROVE  Settled(ItemDocuments(value), docKey) /\ Settled(JoinedDocument(value), docKey)
PROOF
  <1>1. \A texts \in collectStrings[value] : texts \in Seq(Prose)
    BY CollectedType DEF ManyProse
  <1>2. ASSUME NEW c \in collectStrings[value], NEW d \in collectStrings[value]
        PROVE  /\ Shown(One(itemText(c)), docKey) = Shown(One(itemText(d)), docKey)
               /\ Shown(One(Joined(c)), docKey) = Shown(One(Joined(d)), docKey)
    <2>1. c \in Seq(Prose) /\ d \in Seq(Prose)
      BY <1>1
    <2>2. ASSUME NEW v \in [Prose -> Nat] PROVE Total(c, v) = Total(d, v)
      BY CollectedSteady DEF Steady
    <2>3. Same(c, d)
      BY <2>2 DEF Same
    <2>4. Nonblank(c) \in Seq(Prose) /\ Nonblank(d) \in Seq(Prose)
      <3>1. Doc \subseteq Prose
        BY DEF Doc
      <3> QED BY <2>1, <3>1, NonblankType, SeqWidens
    <2>5. Same(Nonblank(c), Nonblank(d))
      <3>1. ASSUME NEW v \in [Prose -> Nat], v[<< >>] = 0
            PROVE  Total(Nonblank(c), v) = Total(Nonblank(d), v)
        <4>1. Total(Nonblank(c), v) = Total(c, v)
          BY <2>1, <3>1, NonblankWeighs
        <4>2. Total(Nonblank(d), v) = Total(d, v)
          BY <2>1, <3>1, NonblankWeighs
        <4> QED BY <2>2, <4>1, <4>2
      <3> QED BY <3>1 DEF Same
    <2>6. Nonblank(c) = << >> <=> Nonblank(d) = << >>
      <3>1. Counted \in [Prose -> Nat]
        BY DEF Counted
      <3>2. Total(c, Counted) = Total(d, Counted)
        BY <2>2, <3>1
      <3> QED BY <2>1, <3>2, NothingNonblank
    <2>7. Len(c) = Len(d)
      <3> DEFINE one == [x \in Prose |-> 1]
      <3>1. one \in [Prose -> Nat] /\ \A x \in Prose : one[x] = 1
        OBVIOUS
      <3> HIDE DEF one
      <3>2. Total(c, one) = Len(c) /\ Total(d, one) = Len(d)
        BY <2>1, <3>1, SumLength
      <3> QED BY <2>2, <3>1, <3>2
    <2>8. Shown(One(FlattenSeq(c)), docKey) = Shown(One(FlattenSeq(d)), docKey)
      BY <2>1, <2>3, JoinedSame
    <2>9. Shown(One(Joined(c)), docKey) = Shown(One(Joined(d)), docKey)
      BY <2>4, <2>5, JoinedSame DEF Joined
    <2> QED BY <2>6, <2>7, <2>8, <2>9 DEF itemText
  <1>3. Settled(ItemDocuments(value), docKey)
    BY <1>2 DEF Settled, ItemDocuments
  <1>4. Settled(JoinedDocument(value), docKey)
    BY <1>2 DEF Settled, JoinedDocument
  <1> QED BY <1>3, <1>4

(* The documents of tables and collections. *)
AllSteady(o, w) == \A k \in 1..Len(o) : Steady(o[k], w)

LEMMA RelationsSteady ==
    ASSUME NEW item \in Values, item.kind = "object", NEW w \in [Token -> Nat]
    PROVE  AllSteady(Relations(item), w)
PROOF
  <1> DEFINE keys == ArrayAt(item, "foreign_keys")
             n == Len(keys)
             label == <<"relationships">>
             o == Relations(item)
  <1>1. keys \in Seq(Arrays) /\ o \in Seq(ManyWords)
    BY ArrayAtType, RelationsType
  <1>2. o = [k \in DOMAIN keys |-> {label \o u : u \in collectLabeledStrings[keys[k]]}]
    BY DEF Relations
  <1>3. label \in Seq(Token)
    BY LabelsAreTokens
  <1> HIDE DEF keys, label, o
  <1>4. n \in Nat /\ DOMAIN keys = 1..n /\ \A k \in 1..n : keys[k] \in Values
    BY <1>1, LenProperties, ElementOfSeq DEF Arrays
  <1>5. Len(o) = n
    <2>1. DOMAIN o = 1..n
      BY <1>2, <1>4
    <2>2. DOMAIN o = 1..Len(o) /\ Len(o) \in Nat
      BY <1>1, LenProperties
    <2> HIDE DEF n
    <2> QED BY <1>4, <2>1, <2>2
  <1>6. ASSUME NEW k \in 1..n, NEW a \in o[k], NEW b \in o[k] PROVE Total(a, w) = Total(b, w)
    <2> DEFINE g == collectLabeledStrings[keys[k]]
    <2>1. g \in SUBSET Seq(Token) /\ Steady(g, w)
      BY <1>4, LabeledType, LabeledSteady DEF ManyWords
    <2>2. o[k] = {label \o u : u \in g}
      BY <1>2, <1>4
    <2> HIDE DEF g, n
    <2>3. PICK c \in g : a = label \o c
      BY <1>6, <2>2
    <2>4. PICK d \in g : b = label \o d
      BY <1>6, <2>2
    <2>5. c \in Seq(Token) /\ d \in Seq(Token)
      BY <2>1
    <2>6. Total(label \o c, w) = Total(label, w) + Total(c, w)
      BY <1>3, <2>5, SumConcat
    <2>7. Total(label \o d, w) = Total(label, w) + Total(d, w)
      BY <1>3, <2>5, SumConcat
    <2>8. Total(c, w) = Total(d, w)
      BY <2>1 DEF Steady
    <2> QED BY <2>3, <2>4, <2>6, <2>7, <2>8
  <1> QED BY <1>5, <1>6 DEF AllSteady, Steady, o

LEMMA ItemWordsSteady ==
    ASSUME NEW item \in Values, item.kind = "object", NEW label \in Token, NEW w \in [Token -> Nat]
    PROVE  Steady(ItemWords(item, label), w)
PROOF
  <1> DEFINE front == {HeadWords(item, label)}
             head == <<front>>
             rest == Relations(item)
             o == head \o rest
             V == ManyWords
             n == Len(o)
  <1>1. front \in V /\ Steady(front, w)
    BY FrontType, OneIsSteady DEF ManyWords, Sentence
  <1>2. rest \in Seq(V) /\ AllSteady(rest, w)
    BY RelationsType, RelationsSteady
  <1> HIDE DEF front, rest, V
  <1>3. head \in Seq(V) /\ Len(head) = 1 /\ head[1] = front
    BY <1>1
  <1> HIDE DEF head
  <1>4. o \in Seq(V) /\ Len(o) = 1 + Len(rest)
    BY <1>2, <1>3, ConcatProperties
  <1>5. Len(rest) \in Nat
    BY <1>2, LenProperties
  <1>6. o[1] = front
    <2>1. 1 \in 1..1 + Len(rest) /\ 1 <= Len(head)
      BY <1>3, <1>5
    <2> QED BY <1>2, <1>3, <2>1, ConcatProperties
  <1>7. \A k \in 2..n : o[k] = rest[k - 1]
    <2>1. \A k \in 1..Len(head) + Len(rest) :
              o[k] = IF k <= Len(head) THEN head[k] ELSE rest[k - Len(head)]
      BY <1>2, <1>3, ConcatProperties
    <2> HIDE DEF o
    <2> QED BY <1>3, <1>4, <1>5, <2>1
  <1>8. ItemWords(item, label) = InTurn(o)
    BY DEF ItemWords, o, head, rest, front
  <1> HIDE DEF o
  <1>9. n \in Nat /\ o \in [1..n -> V]
    BY <1>4, LenProperties
  <1>10. ASSUME NEW k \in 1..n PROVE Steady(o[k], w)
    <2>1. CASE k = 1
      BY <1>1, <1>6, <2>1
    <2>2. CASE k # 1
      <3>1. k \in 2..n /\ k - 1 \in 1..Len(rest)
        BY <1>4, <1>5, <1>9, <2>2
      <3>2. Steady(rest[k - 1], w)
        BY <1>2, <3>1 DEF AllSteady
      <3> QED BY <1>7, <3>1, <3>2
    <2> QED BY <2>1, <2>2
  <1> HIDE DEF n
  <1>11. Steady(InTurn(o), w)
    BY <1>9, <1>10, InTurnSteady DEF V, ManyWords
  <1> QED BY <1>8, <1>11

LEMMA CatalogItemSettled ==
    ASSUME NEW item \in Values, NEW label \in Token
    PROVE  Settled(catalogItemDocument(item, label), docKey)
PROOF
  <1>1. CASE item.kind # "object"
    <2>1. catalogItemDocument(item, label) = {<< >>}
      BY <1>1 DEF catalogItemDocument
    <2> QED BY <2>1, OneIsSettled
  <1>2. CASE item.kind = "object"
    <2> DEFINE words == ItemWords(item, label)
    <2>1. catalogItemDocument(item, label) = {OneSentence(u) : u \in words}
      BY <1>2 DEF catalogItemDocument, OneSentence, ItemWords, Relations, HeadWords, Listed,
                  ColumnList
    <2>2. words \in SUBSET Seq(Token) /\ \A w \in [Token -> Nat] : Steady(words, w)
      BY <1>2, ItemWordsType, ItemWordsSteady DEF ManyWords
    <2> HIDE DEF words
    <2>3. ASSUME NEW a \in words, NEW b \in words
          PROVE  Shown(OneSentence(a), docKey) = Shown(OneSentence(b), docKey)
      <3> DEFINE p == <<a>>
                 q == <<b>>
      <3>1. a \in Sentence /\ b \in Sentence
        BY <2>2 DEF Sentence
      <3>2. p \in Prose /\ q \in Prose /\ p # << >> /\ q # << >>
        BY <3>1 DEF Prose
      <3>3. ASSUME NEW w \in [Token -> Nat] PROVE TextWeight(w)[p] = TextWeight(w)[q]
        <4> DEFINE v == SentenceWeight(w)
        <4>1. v \in [Sentence -> Nat] /\ v[a] = Total(a, w) /\ v[b] = Total(b, w)
          BY <3>1, TextWeightType DEF SentenceWeight
        <4>2. TextWeight(w)[p] = Total(p, v) /\ TextWeight(w)[q] = Total(q, v)
          BY <3>2 DEF TextWeight
        <4>3. Total(a, w) = Total(b, w)
          BY <2>2 DEF Steady
        <4> HIDE DEF v
        <4>4. Total(p, v) = v[a] /\ Total(q, v) = v[b]
          BY <3>1, <4>1, SumOfOne
        <4> QED BY <4>1, <4>2, <4>3, <4>4
      <3>4. Len(a) = Len(b)
        <4> DEFINE one == [x \in Token |-> 1]
        <4>1. one \in [Token -> Nat] /\ \A x \in Token : one[x] = 1
          OBVIOUS
        <4> HIDE DEF one
        <4>2. Total(a, one) = Len(a) /\ Total(b, one) = Len(b)
          BY <2>2, <4>1, SumLength
        <4> QED BY <2>2, <4>1, <4>2 DEF Steady
      <3>5. a = << >> <=> b = << >>
        BY <3>1, <3>4, EmptySeq DEF Sentence
      <3>6. Shown(One(p), docKey) = <<docKey[p]>> /\ Shown(One(q), docKey) = <<docKey[q]>>
        BY <3>2, OneShown
      <3>7. docKey[p] = docKey[q]
        <4> HIDE DEF p, q
        <4> QED BY <3>2, <3>3, DocKeySame
      <3>8. OneSentence(a) = (IF a = << >> THEN << >> ELSE One(p))
            /\ OneSentence(b) = (IF b = << >> THEN << >> ELSE One(q))
        BY <3>2 DEF OneSentence, One
      <3> HIDE DEF p, q
      <3> QED BY <3>5, <3>6, <3>7, <3>8
    <2> QED BY <2>1, <2>3 DEF Settled
  <1> QED BY <1>1, <1>2

(* The readers: what they read of a file is settled.                       *)
DocKeys == {docKey[text] : text \in Prose}

LEMMA TurnsSettled ==
    ASSUME NEW n \in Nat, NEW o \in [1..n -> ManyDocs],
           \A i \in 1..n : Settled(o[i], docKey)
    PROVE  Settled(InTurn(o), docKey)
PROOF
  <1>1. docKey \in [Prose -> DocKeys]
    BY DEF docKey, DocKeys
  <1>2. Seq(Doc) \subseteq Seq(Prose)
    <2>1. Doc \subseteq Prose
      BY DEF Doc
    <2> QED BY <2>1, SeqWidens
  <1>3. o \in [1..n -> SUBSET Seq(Prose)]
    BY <1>2 DEF ManyDocs
  <1> QED BY <1>1, <1>3, InTurnSettled

LEMMA SectionSettled ==
    ASSUME NEW value \in Values, value.kind = "object", NEW key, NEW label \in Token
    PROVE  Settled(Section(value, key, label), docKey)
PROOF
  <1> DEFINE lists == ArrayAt(value, key)
  <1>1. lists \in Seq(Arrays)
    BY ArrayAtType
  <1>2. CASE lists = << >>
    <2>1. Section(value, key, label) = {<< >>}
      BY <1>2 DEF Section
    <2> QED BY <2>1, OneIsSettled
  <1>3. CASE lists # << >>
    <2> DEFINE array == lists[1]
               n == Len(array.items)
               o == Itemized(array, label)
    <2>1. Section(value, key, label) = InTurn(o)
      BY <1>3 DEF Section
    <2>2. array \in Arrays
      <3>1. Len(lists) \in Nat /\ Len(lists) # 0
        BY <1>1, <1>3, LenProperties, EmptySeq
      <3>2. 1 \in 1..Len(lists)
        BY <3>1
      <3> QED BY <1>1, <3>2, ElementOfSeq
    <2> HIDE DEF array
    <2>3. /\ n \in Nat /\ DOMAIN array.items = 1..n
          /\ \A k \in 1..n : array.items[k] \in Values
      BY <2>2, ArrayItems DEF Arrays, Below
    <2>4. \A k \in 1..n : /\ catalogItemDocument(array.items[k], label) \in ManyDocs
                          /\ Settled(catalogItemDocument(array.items[k], label), docKey)
      BY <2>3, CatalogItemType, CatalogItemSettled
    <2>5. o = [k \in 1..n |-> catalogItemDocument(array.items[k], label)]
      BY <2>3 DEF Itemized
    <2> HIDE DEF n, o
    <2>6. o \in [1..n -> ManyDocs] /\ \A k \in 1..n : Settled(o[k], docKey)
      BY <2>4, <2>5
    <2>7. Settled(InTurn(o), docKey)
      BY <2>3, <2>6, TurnsSettled
    <2> QED BY <2>1, <2>7
  <1> QED BY <1>2, <1>3

LEMMA CatalogSettled ==
    ASSUME NEW value \in Values
    PROVE  Settled(readCatalogJSON(value), docKey)
PROOF
  <1>1. CASE value.kind # "object"
    <2>1. readCatalogJSON(value) = {<< >>}
      BY <1>1 DEF readCatalogJSON
    <2> QED BY <2>1, OneIsSettled
  <1>2. CASE value.kind = "object"
    <2> DEFINE x == Section(value, "tables", "table")
               y == Section(value, "collections", "collection")
               o == <<x, y>>
    <2>1. readCatalogJSON(value) = InTurn(o)
      BY <1>2 DEF readCatalogJSON, Section, Itemized
    <2>2. x \in ManyDocs /\ y \in ManyDocs /\ Settled(x, docKey) /\ Settled(y, docKey)
      BY <1>2, SectionType, SectionSettled, LabelsAreTokens
    <2> HIDE DEF x, y
    <2>3. o \in [1..2 -> ManyDocs] /\ 2 \in Nat
      BY <2>2
    <2>4. \A i \in 1..2 : Settled(o[i], docKey)
      <3>1. o[1] = x /\ o[2] = y
        OBVIOUS
      <3> HIDE DEF o
      <3> QED BY <2>2, <3>1
    <2> HIDE DEF o
    <2>5. Settled(InTurn(o), docKey)
      BY <2>3, <2>4, TurnsSettled
    <2> QED BY <2>1, <2>5
  <1> QED BY <1>1, <1>2

LEMMA JSONSettled ==
    ASSUME NEW value \in Values
    PROVE  Settled(readJSON(value), docKey)
PROOF
  <1> DEFINE o == [k \in DOMAIN value.items |-> ItemDocuments(value.items[k])]
  <1>1. readJSON(value) = IF readCatalogJSON(value) # {<< >>} THEN readCatalogJSON(value)
                          ELSE IF value.kind = "array" THEN InTurn(o) ELSE JoinedDocument(value)
    BY DEF readJSON, ItemDocuments, JoinedDocument
  <1> HIDE DEF o
  <1>2. Settled(readCatalogJSON(value), docKey)
    BY CatalogSettled
  <1>3. Settled(JoinedDocument(value), docKey)
    BY ItemsSettled
  <1>4. ASSUME value.kind = "array" PROVE Settled(InTurn(o), docKey)
    <2> DEFINE n == Len(value.items)
    <2>1. n \in Nat /\ DOMAIN value.items = 1..n /\ \A k \in 1..n : value.items[k] \in Values
      BY <1>4, ArrayItems DEF Below
    <2>2. \A k \in 1..n : /\ ItemDocuments(value.items[k]) \in ManyDocs
                          /\ Settled(ItemDocuments(value.items[k]), docKey)
      BY <2>1, ItemDocumentsType, ItemsSettled
    <2>3. o = [k \in 1..n |-> ItemDocuments(value.items[k])]
      BY <2>1 DEF o
    <2> HIDE DEF n
    <2>4. o \in [1..n -> ManyDocs] /\ \A k \in 1..n : Settled(o[k], docKey)
      BY <2>2, <2>3
    <2> QED BY <2>1, <2>4, TurnsSettled
  <1> QED BY <1>1, <1>2, <1>3, <1>4

LEMMA ReadSettled ==
    ASSUME NEW f, IsFile(f)
    PROVE  Settled(Read(f), docKey)
PROOF
  <1>1. CASE f.format = "text"
    <2>1. Read(f) = {One(f.content)}
      BY <1>1 DEF Read
    <2> QED BY <2>1, OneIsSettled
  <1>2. CASE f.format = "json"
    <2>1. Read(f) = readJSON(f.content)
      BY <1>2 DEF Read
    <2>2. f.content \in Values
      BY <1>2 DEF IsFile
    <2> QED BY <2>1, <2>2, JSONSettled
  <1>3. CASE f.format = "csv"
    <2>1. Read(f) = readCSV(f.content)
      BY <1>3 DEF Read
    <2>2. (readCSV(f.content) = {}) \/ (\E texts : readCSV(f.content) = {texts})
      BY DEF readCSV
    <2> QED BY <2>1, <2>2 DEF Settled
  <1>4. CASE f.format \notin {"text", "json", "csv"}
    <2>1. Read(f) = {} \/ Read(f) = {<< >>}
      BY <1>4 DEF Read
    <2> QED BY <2>1 DEF Settled
  <1> QED BY <1>1, <1>2, <1>3, <1>4

-----------------------------------------------------------------------------
(* Two trainings from one folder: the same keys in the same places.        *)
entryKey == [e \in Entry |-> docKey[e.text]]

LEMMA FileSettled ==
    ASSUME NEW f, IsFile(f)
    PROVE  Settled(OfFile(f), entryKey)
PROOF
  <1>1. ASSUME NEW texts \in Seq(Doc)
        PROVE  Shown(Tagged(f, texts), entryKey) = Shown(texts, docKey)
    <2> DEFINE n == Len(texts)
    <2>1. n \in Nat /\ DOMAIN texts = 1..n /\ \A k \in 1..n : texts[k] \in Doc
      BY LenProperties, ElementOfSeq
    <2>2. f.live \in BOOLEAN
      BY DEF IsFile
    <2>3. DOMAIN Tagged(f, texts) = 1..n
      BY <2>1 DEF Tagged
    <2>4. ASSUME NEW k \in 1..n PROVE entryKey[Tagged(f, texts)[k]] = docKey[texts[k]]
      <3>1. Tagged(f, texts)[k] = [live |-> f.live, text |-> texts[k]]
        BY <2>1 DEF Tagged
      <3>2. [live |-> f.live, text |-> texts[k]] \in Entry
        BY <2>1, <2>2 DEF Entry
      <3> QED BY <3>1, <3>2 DEF entryKey
    <2> HIDE DEF n
    <2> QED BY <2>1, <2>3, <2>4 DEF Shown
  <1>2. Read(f) \in SUBSET Seq(Doc) /\ Settled(Read(f), docKey)
    BY ReadType, ReadSettled DEF ManyDocs
  <1>3. ASSUME NEW a \in OfFile(f), NEW b \in OfFile(f)
        PROVE  Shown(a, entryKey) = Shown(b, entryKey)
    <2>1. PICK c \in Read(f) : a = Tagged(f, c)
      BY DEF OfFile
    <2>2. PICK d \in Read(f) : b = Tagged(f, d)
      BY DEF OfFile
    <2>3. Shown(c, docKey) = Shown(d, docKey)
      BY <1>2 DEF Settled
    <2>4. Shown(a, entryKey) = Shown(c, docKey) /\ Shown(b, entryKey) = Shown(d, docKey)
      BY <1>1, <1>2, <2>1, <2>2
    <2> QED BY <2>3, <2>4
  <1> QED BY <1>3 DEF Settled

LEMMA LoadSettled ==
    ASSUME NEW files, IsFolder(files)
    PROVE  Settled(Load(files), entryKey)
PROOF
  <1> DEFINE o == Outcomes(files)
             R == {entryKey[e] : e \in Entry}
  <1>1. Places \in Nat
    BY DocumentsAssumption
  <1>2. o \in [1..Places -> SUBSET Seq(Entry)]
    BY OutcomesType
  <1>3. ASSUME NEW place \in 1..Places PROVE Settled(o[place], entryKey)
    <2>1. CASE place \in DOMAIN files
      <3>1. IsFile(files[place]) /\ o[place] = OfFile(files[place])
        BY <2>1 DEF IsFolder, Outcomes
      <3> QED BY <3>1, FileSettled
    <2>2. CASE place \notin DOMAIN files
      <3>1. o[place] = {<< >>}
        BY <2>2 DEF Outcomes
      <3> QED BY <3>1 DEF Settled
    <2> QED BY <2>1, <2>2
  <1>4. entryKey \in [Entry -> R]
    BY DEF entryKey
  <1> HIDE DEF o, R
  <1>5. Settled(InTurn(o), entryKey)
    BY <1>1, <1>2, <1>3, <1>4, InTurnSettled
  <1>6. Load(files) \subseteq InTurn(o)
    BY LoadIs DEF o
  <1> QED BY <1>5, <1>6 DEF Settled

Trimmed(key) == {token \in key : Long(token[1]) /\ token[1] \notin Stop}
LEMMA VectorsAre ==
    ASSUME NEW d \in Seq(Entry), TrainTexts(TextsOf(d)) = TextsOf(d)
    PROVE  /\ Vectors(TextsOf(d)) = [k \in DOMAIN d |-> Trimmed(entryKey[d[k]])]
           /\ DOMAIN Shown(d, entryKey) = DOMAIN d
           /\ \A k \in DOMAIN d : Shown(d, entryKey)[k] = entryKey[d[k]]
PROOF
  <1> DEFINE texts == TextsOf(d)
  <1>1. texts = [k \in DOMAIN d |-> d[k].text]
    BY DEF TextsOf
  <1>2. Vectors(texts) = [k \in DOMAIN d |-> Embed(FlattenSeq(texts[k]))]
    BY <1>1 DEF Vectors
  <1>3. ASSUME NEW k \in DOMAIN d PROVE Embed(FlattenSeq(texts[k])) = Trimmed(entryKey[d[k]])
    <2>1. d[k] \in Entry
      BY LenProperties, ElementOfSeq
    <2>2. d[k].text \in Prose /\ entryKey[d[k]] = docKey[d[k].text]
      BY <2>1 DEF entryKey, Entry, Doc
    <2>3. entryKey[d[k]] = factKey(FlattenSeq(texts[k]))
      BY <1>1, <2>2 DEF docKey
    <2> QED BY <2>3 DEF Embed, Trimmed
  <1> HIDE DEF texts
  <1>4. Vectors(texts) = [k \in DOMAIN d |-> Trimmed(entryKey[d[k]])]
    BY <1>2, <1>3
  <1> QED BY <1>4 DEF texts, Shown

LEMMA SameVectors ==
    ASSUME NEW files, IsFolder(files), NEW texts \in trainFrom(files), NEW again \in trainFrom(files)
    PROVE  Vectors(texts) = Vectors(again)
PROOF
  <1>1. PICK a \in Load(Apart(files)) : OfUnlive(a, texts)
    BY ReadApart
  <1>2. PICK b \in Load(Apart(files)) : OfUnlive(b, again)
    BY ReadApart
  <1>3. a \in Seq(Entry) /\ b \in Seq(Entry) /\ texts = TextsOf(a) /\ again = TextsOf(b)
    BY <1>1, <1>2 DEF OfUnlive
  <1>4. Shown(a, entryKey) = Shown(b, entryKey)
    BY ApartIsFolder, LoadSettled DEF Settled
  <1>5. TrainTexts(texts) = texts /\ TrainTexts(again) = again
    BY TrainFromType
  <1>6. /\ Vectors(texts) = [k \in DOMAIN a |-> Trimmed(entryKey[a[k]])]
        /\ DOMAIN Shown(a, entryKey) = DOMAIN a
        /\ \A k \in DOMAIN a : Shown(a, entryKey)[k] = entryKey[a[k]]
    BY <1>3, <1>5, VectorsAre
  <1>7. /\ Vectors(again) = [k \in DOMAIN b |-> Trimmed(entryKey[b[k]])]
        /\ DOMAIN Shown(b, entryKey) = DOMAIN b
        /\ \A k \in DOMAIN b : Shown(b, entryKey)[k] = entryKey[b[k]]
    BY <1>3, <1>5, VectorsAre
  <1>8. DOMAIN a = DOMAIN b /\ \A k \in DOMAIN a : entryKey[a[k]] = entryKey[b[k]]
    BY <1>4, <1>6, <1>7
  <1> QED BY <1>6, <1>7, <1>8

(* Go iterates over the members of an object in another order each time    *)
(* (pipeline.go:221): whatever the files hold, however deep their objects  *)
(* are nested, and in whatever order each reading takes them, two          *)
(* trainings from one folder have the same vectors in the same places.     *)
THEOREM TrainingIsStableAlways == Spec => []TrainingIsStable
PROOF
  <1>1. DocumentsInv => TrainingIsStable
    <2> SUFFICES ASSUME DocumentsInv, NEW texts \in trainFrom(folder), NEW again \in trainFrom(folder)
                 PROVE  Vectors(texts) = Vectors(again)
      BY DEF TrainingIsStable
    <2>1. IsFolder(folder)
      BY DEF DocumentsInv
    <2> QED BY <2>1, SameVectors
  <1> QED BY <1>1, DocumentsAlways, PTL
=============================================================================
