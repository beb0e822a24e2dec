--------------------------- MODULE PlannerProofs ---------------------------
(***************************************************************************)
(* Facts about the planner, for tables of any names with any columns: what *)
(* its choices of columns and its ranking of tables return.  The proofs    *)
(* about the prompt and about the process with its database rest on them.  *)
(***************************************************************************)
EXTENDS Planner, SequenceLemmas, FiniteSetTheorems

-----------------------------------------------------------------------------
(* "for ... if ... return": an element of the sequence that is in the set. *)
LEMMA FirstIs ==
    ASSUME NEW T, NEW s \in Seq(T), NEW S, Range(s) \cap S # {}
    PROVE  First(s, S) \in Range(s) \cap S
PROOF
  <1> DEFINE I == {i \in 1..Len(s) : s[i] \in S}
  <1>1. Len(s) \in Nat /\ DOMAIN s = 1..Len(s)
    BY LenProperties
  <1>2. I # {} /\ I \subseteq Nat
    BY <1>1 DEF Range
  <1>3. Min(I) \in I
    BY <1>2, MinIs
  <1>4. First(s, S) = s[Min(I)]
    BY <1>2 DEF First, SelectInSeq
  <1> QED BY <1>1, <1>3, <1>4 DEF Range

LEMMA FirstOrIs ==
    ASSUME NEW T, NEW s \in Seq(T), NEW S, NEW default
    PROVE  /\ Range(s) \cap S = {} => FirstOr(s, S, default) = default
           /\ Range(s) \cap S # {} => FirstOr(s, S, default) \in Range(s) \cap S
PROOF BY FirstIs DEF FirstOr

-----------------------------------------------------------------------------
(* A table as the catalog holds it has a sequence of columns; in a         *)
(* database they have different names, none of them empty.                 *)
Table(t) == t.columns \in Seq(Range(t.columns))
WellNamed(t) ==
    /\ \A j, k \in DOMAIN t.columns : t.columns[j].name = t.columns[k].name => j = k
    /\ \A c \in Range(t.columns) : c.name # NoColumn.name

LEMMA ColumnIsNamed ==
    ASSUME NEW t, WellNamed(t), NEW c \in Range(t.columns)
    PROVE  c # NoColumn
PROOF BY DEF WellNamed

LEMMA SameColumn ==
    ASSUME NEW t, WellNamed(t), NEW c \in Range(t.columns), NEW d \in Range(t.columns),
           c.name = d.name
    PROVE  c = d
PROOF BY DEF WellNamed, Range

LEMMA PickedDate ==
    ASSUME NEW t, Table(t)
    PROVE  pickTemporalColumn(t) = NoColumn \/ pickTemporalColumn(t) \in Range(t.columns)
PROOF
  <1> DEFINE columns == t.columns
             typed == {c \in Range(columns) : "temporal" \in c.type}
             named == {c \in Range(columns) : c.words \cap {"date", "time", "_at"} # {}}
             other == FirstOr(columns, named, NoColumn)
  <1>1. columns \in Seq(Range(columns))
    BY DEF Table
  <1> HIDE DEF columns, typed, named
  <1>2. other = NoColumn \/ other \in Range(columns)
    BY <1>1, FirstOrIs
  <1> HIDE DEF other
  <1>3. FirstOr(columns, typed, other) = other \/ FirstOr(columns, typed, other) \in Range(columns)
    BY <1>1, FirstOrIs
  <1> QED BY <1>2, <1>3 DEF pickTemporalColumn, columns, typed, named, other

(* What pickAmountColumn may take, and what it takes of it. *)
Amounts(t, skipped) ==
    {c \in Range(t.columns) : "numeric" \in c.type /\ ~isIDColumn(c) /\ c.name \notin skipped}
MoneyAmounts(t, skipped) == {c \in Amounts(t, skipped) : c.words \cap MoneyLike # {}}

LEMMA PickedAmount ==
    ASSUME NEW t, Table(t), NEW skipped
    PROVE  LET amount == pickAmountColumn(t, skipped)
               amounts == Amounts(t, skipped)
               money == MoneyAmounts(t, skipped)
           IN  /\ amounts = {} => amount = NoColumn
               /\ amounts # {} => amount \in IF money # {} THEN money ELSE amounts
PROOF
  <1> DEFINE amounts == Amounts(t, skipped)
             money == MoneyAmounts(t, skipped)
             columns == t.columns
             other == FirstOr(columns, amounts, NoColumn)
  <1>1. columns \in Seq(Range(columns)) /\ amounts \subseteq Range(columns) /\ money \subseteq amounts
    BY DEF Table, Amounts, MoneyAmounts
  <1>2. pickAmountColumn(t, skipped) = FirstOr(columns, money, other)
    BY DEF pickAmountColumn, Amounts, MoneyAmounts
  <1> HIDE DEF columns, amounts, money
  <1>3. (amounts = {} => other = NoColumn) /\ (amounts # {} => other \in amounts)
    BY <1>1, FirstOrIs
  <1> HIDE DEF other
  <1>4. /\ money = {} => FirstOr(columns, money, other) = other
        /\ money # {} => FirstOr(columns, money, other) \in money
    BY <1>1, FirstOrIs
  <1> QED BY <1>1, <1>2, <1>3, <1>4 DEF amounts, money

LEMMA BestIs ==
    ASSUME NEW T, NEW columns \in Seq(T), NEW score
    PROVE  \/ Best(columns, score) = NoColumn
           \/ Best(columns, score) \in Range(columns) /\ score[Best(columns, score)] > 0
PROOF BY FirstOrIs DEF Best

LEMMA PickedPerson ==
    ASSUME NEW t, Table(t), NEW skipped
    PROVE  LET person == pickPersonColumn(t, skipped) IN
           person = NoColumn \/ (person \in Range(t.columns) /\ person.name \notin skipped)
PROOF
  <1> DEFINE score == [c \in Range(t.columns) |-> IF c.name \in skipped THEN 0 ELSE PersonScore(c)]
             person == Best(t.columns, score)
  <1>1. t.columns \in Seq(Range(t.columns))
    BY DEF Table
  <1>2. \A c \in Range(t.columns) : score[c] > 0 => c.name \notin skipped
    OBVIOUS
  <1> HIDE DEF score
  <1>3. person = NoColumn \/ (person \in Range(t.columns) /\ score[person] > 0)
    BY <1>1, BestIs
  <1> HIDE DEF person
  <1> QED BY <1>2, <1>3 DEF pickPersonColumn, person, score

LEMMA PickedStatus ==
    ASSUME NEW t, Table(t), NEW skipped
    PROVE  LET status == pickStatusColumn(t, skipped) IN
           status = NoColumn \/ (status \in Range(t.columns) /\ status.name \notin skipped)
PROOF
  <1> DEFINE texts == {c \in Range(t.columns) : "text" \in c.type /\ c.name \notin skipped}
             score == [c \in Range(t.columns) |-> IF c \in texts THEN StatusScore(c) ELSE 0]
             best == Best(t.columns, score)
             other == FirstOr(t.columns, texts, NoColumn)
  <1>1. t.columns \in Seq(Range(t.columns)) /\ \A c \in texts : c \in Range(t.columns) /\ c.name \notin skipped
    BY DEF Table
  <1>2. \A c \in Range(t.columns) : score[c] > 0 => c \in texts
    OBVIOUS
  <1>3. pickStatusColumn(t, skipped) = IF best # NoColumn THEN best ELSE other
    BY DEF pickStatusColumn
  <1> HIDE DEF score, texts
  <1>4. best = NoColumn \/ (best \in Range(t.columns) /\ score[best] > 0)
    BY <1>1, BestIs
  <1>5. other = NoColumn \/ other \in texts
    BY <1>1, FirstOrIs
  <1> HIDE DEF best, other
  <1> QED BY <1>1, <1>2, <1>3, <1>4, <1>5

-----------------------------------------------------------------------------
(* The queries of a table: columns of it in different roles. *)
LEMMA AbsenceRoles ==
    ASSUME NEW t, Table(t), NEW query, query = absenceQuery(t), query # Unsupported
    PROVE  /\ query.kind = "absence" /\ query.table = t
           /\ {query.date, query.name} \subseteq Range(t.columns)
           /\ query.status = NoColumn \/ query.status \in Range(t.columns)
           /\ query.date # query.name /\ query.status \notin {query.date, query.name}
PROOF
  <1> DEFINE date == pickTemporalColumn(t)
             name == pickPersonColumn(t, {date.name})
             status == pickStatusColumn(t, {date.name, name.name})
  <1>1. date = NoColumn \/ date \in Range(t.columns)
    BY PickedDate
  <1>2. name = NoColumn \/ (name \in Range(t.columns) /\ name.name \notin {date.name})
    BY PickedPerson
  <1>3. status = NoColumn
            \/ (status \in Range(t.columns) /\ status.name \notin {date.name, name.name})
    BY PickedStatus
  <1>4. /\ date # NoColumn /\ name # NoColumn
        /\ query = [kind |-> "absence", table |-> t, date |-> date, name |-> name,
                    status |-> status, since |-> dateExpression(date)]
    BY DEF absenceQuery
  <1> HIDE DEF date, name, status
  <1>5. /\ query.kind = "absence" /\ query.table = t
        /\ query.date = date /\ query.name = name /\ query.status = status
    BY <1>4
  <1> QED BY <1>1, <1>2, <1>3, <1>4, <1>5

LEMMA OtherAmounts ==
    ASSUME NEW t, WellNamed(t), NEW date \in Range(t.columns)
    PROVE  Amounts(t, {date.name}) =
               {c \in Range(t.columns) : "numeric" \in c.type /\ ~isIDColumn(c) /\ c # date}
PROOF
  <1>1. \A c \in Range(t.columns) : c.name \notin {date.name} <=> c # date
    BY SameColumn
  <1> QED BY <1>1 DEF Amounts

LEMMA RevenueRoles ==
    ASSUME NEW t, Table(t), NEW query, query = revenueQuery(t), query # Unsupported
    PROVE  LET amounts == Amounts(t, {query.date.name})
               money == MoneyAmounts(t, {query.date.name})
           IN  /\ query.kind = "revenue" /\ query.table = t
               /\ query.date = pickTemporalColumn(t) /\ query.date \in Range(t.columns)
               /\ query.amount \in IF money # {} THEN money ELSE amounts
PROOF
  <1> DEFINE date == pickTemporalColumn(t)
             amount == pickAmountColumn(t, {date.name})
             amounts == Amounts(t, {date.name})
             money == MoneyAmounts(t, {date.name})
  <1>1. date = NoColumn \/ date \in Range(t.columns)
    BY PickedDate
  <1>2. /\ amounts = {} => amount = NoColumn
        /\ amounts # {} => amount \in IF money # {} THEN money ELSE amounts
    BY PickedAmount
  <1>3. /\ date # NoColumn /\ amount # NoColumn
        /\ query = [kind |-> "revenue", table |-> t, date |-> date, amount |-> amount,
                    since |-> dateExpression(date)]
    BY DEF revenueQuery
  <1> HIDE DEF date, amount
  <1>4. query.kind = "revenue" /\ query.table = t /\ query.date = date /\ query.amount = amount
    BY <1>3
  <1> QED BY <1>1, <1>2, <1>3, <1>4 DEF date

LEMMA NoRevenue ==
    ASSUME NEW t, Table(t), WellNamed(t), revenueQuery(t) = Unsupported
    PROVE  LET date == pickTemporalColumn(t) IN
           date = NoColumn \/ Amounts(t, {date.name}) = {}
PROOF
  <1> DEFINE date == pickTemporalColumn(t)
             amount == pickAmountColumn(t, {date.name})
             amounts == Amounts(t, {date.name})
             money == MoneyAmounts(t, {date.name})
  <1>1. amounts # {} => amount \in amounts
    BY PickedAmount DEF MoneyAmounts
  <1>2. amounts \subseteq Range(t.columns)
    BY DEF Amounts
  <1>3. date = NoColumn \/ amount = NoColumn
    <2>1. revenueQuery(t) =
              IF NoColumn \in {date, amount} THEN Unsupported
              ELSE [kind |-> "revenue", table |-> t, date |-> date, amount |-> amount,
                    since |-> dateExpression(date)]
      BY DEF revenueQuery
    <2> HIDE DEF date, amount
    <2> QED BY <2>1 DEF Unsupported
  <1> HIDE DEF date, amount, amounts
  <1>4. amount # NoColumn \/ amounts = {}
    BY <1>1, <1>2, ColumnIsNamed
  <1> QED BY <1>3, <1>4 DEF date, amounts

(* The first table that gives a query gives this one. *)
LEMMA FirstAbsence ==
    ASSUME NEW T, NEW tables \in Seq(T), NEW query, query = FirstQuery(tables, absenceQuery)
    PROVE  \/ query = Unsupported
           \/ \E t \in Range(tables) : query = absenceQuery(t) /\ query # Unsupported
PROOF
  <1> DEFINE good == {t \in Range(tables) : absenceQuery(t) # Unsupported}
  <1>1. query = IF good = {} THEN Unsupported ELSE absenceQuery(First(tables, good))
    BY DEF FirstQuery
  <1>2. \A t \in good : t \in Range(tables) /\ absenceQuery(t) # Unsupported
    OBVIOUS
  <1>3. good # {} => Range(tables) \cap good # {}
    OBVIOUS
  <1> HIDE DEF good
  <1>4. good # {} => First(tables, good) \in Range(tables) \cap good
    BY <1>3, FirstIs
  <1> QED BY <1>1, <1>2, <1>4

LEMMA FirstRevenue ==
    ASSUME NEW T, NEW tables \in Seq(T), NEW query, query = FirstQuery(tables, revenueQuery)
    PROVE  \/ query = Unsupported /\ \A t \in Range(tables) : revenueQuery(t) = Unsupported
           \/ \E t \in Range(tables) : query = revenueQuery(t) /\ query # Unsupported
PROOF
  <1> DEFINE good == {t \in Range(tables) : revenueQuery(t) # Unsupported}
  <1>1. query = IF good = {} THEN Unsupported ELSE revenueQuery(First(tables, good))
    BY DEF FirstQuery
  <1>2. /\ \A t \in good : t \in Range(tables) /\ revenueQuery(t) # Unsupported
        /\ good = {} => \A t \in Range(tables) : revenueQuery(t) = Unsupported
    OBVIOUS
  <1>3. good # {} => Range(tables) \cap good # {}
    OBVIOUS
  <1> HIDE DEF good
  <1>4. good # {} => First(tables, good) \in Range(tables) \cap good
    BY <1>3, FirstIs
  <1> QED BY <1>1, <1>2, <1>4

-----------------------------------------------------------------------------
(* The ranking of the tables. *)
LEMMA ScoreIsNat ==
    ASSUME NEW t, Table(t), NEW W, NEW terms \in Seq(W)
    PROVE  Score(t, terms) \in Nat
PROOF
  <1> DEFINE D == DOMAIN terms
             E == DOMAIN t.columns
             named == {i \in D : Singular(terms[i]) \in t.words}
             held == {p \in D \X E : Singular(terms[p[1]]) \in t.columns[p[2]].words}
  <1>1. ASSUME NEW S, NEW s \in Seq(S) PROVE IsFiniteSet(DOMAIN s)
    <2>1. Len(s) \in Nat /\ DOMAIN s = 1..Len(s)
      BY LenProperties
    <2>2. 1 \in Int /\ Len(s) \in Int
      BY <2>1
    <2>3. IsFiniteSet(1..Len(s))
      BY <2>2, FS_Interval, Zenon
    <2> QED BY <2>1, <2>3
  <1>2. IsFiniteSet(D) /\ IsFiniteSet(E)
    BY <1>1 DEF Table
  <1>3. named \subseteq D /\ held \subseteq D \X E
    OBVIOUS
  <1>4. Score(t, terms) = 4 * Cardinality(named) + Cardinality(held)
    BY DEF Score
  <1> HIDE DEF D, E, named, held
  <1>5. IsFiniteSet(named) /\ IsFiniteSet(held)
    BY <1>2, <1>3, FS_Product, FS_Subset
  <1>6. Cardinality(named) \in Nat /\ Cardinality(held) \in Nat
    BY <1>5, FS_CardinalityType
  <1> QED BY <1>4, <1>6

(* The insertion of the sort: behind all that score as much. *)
LEMMA InsertIs ==
    ASSUME NEW T, NEW terms, \A t \in T : Score(t, terms) \in Nat,
           NEW sorted \in Seq(T), NEW table \in T
    PROVE  \E k \in 1..Len(sorted) + 1 :
               /\ Insert(sorted, table, terms) = InsertAt(sorted, k, table)
               /\ k # 1 => Score(sorted[k - 1], terms) >= Score(table, terms)
               /\ \A i \in k..Len(sorted) : ~(Score(sorted[i], terms) >= Score(table, terms))
PROOF
  <1> DEFINE I == {i \in 1..Len(sorted) : Score(sorted[i], terms) >= Score(table, terms)}
             ahead == IF I # {} THEN Max(I) ELSE 0
  <1>1. Len(sorted) \in Nat
    BY LenProperties
  <1>2. Insert(sorted, table, terms) = InsertAt(sorted, ahead + 1, table)
    BY DEF Insert, SelectLastInSeq
  <1>3. \A i \in 1..Len(sorted) : i \in I <=> Score(sorted[i], terms) >= Score(table, terms)
    OBVIOUS
  <1>4. I \subseteq 1..Len(sorted) /\ I \subseteq 0..Len(sorted)
    BY <1>1
  <1> HIDE DEF I
  <1>5. I # {} => Max(I) \in I /\ \A i \in I : i <= Max(I)
    BY <1>1, <1>4, MaxIs
  <1>6. ahead \in 0..Len(sorted) /\ (ahead # 0 => ahead \in I) /\ \A i \in I : i <= ahead
    <2>1. CASE I = {}
      BY <1>1, <2>1
    <2>2. CASE I # {}
      <3>1. ahead = Max(I)
        BY <2>2
      <3>2. Max(I) \in 0..Len(sorted)
        BY <1>4, <1>5, <2>2
      <3> HIDE DEF ahead
      <3> QED BY <1>5, <2>2, <3>1, <3>2
    <2> QED BY <2>1, <2>2
  <1> DEFINE k == ahead + 1
  <1> HIDE DEF ahead
  <1>7. k \in 1..Len(sorted) + 1 /\ k - 1 = ahead
    BY <1>1, <1>6
  <1>8. k # 1 => k - 1 \in I
    BY <1>6, <1>7
  <1>9. \A i \in k..Len(sorted) : i \in 1..Len(sorted) /\ i \notin I
    BY <1>1, <1>6
  <1>10. Insert(sorted, table, terms) = InsertAt(sorted, k, table)
    BY <1>2
  <1> HIDE DEF k
  <1>11. k # 1 => Score(sorted[k - 1], terms) >= Score(table, terms)
    BY <1>3, <1>4, <1>8
  <1>12. \A i \in k..Len(sorted) : ~(Score(sorted[i], terms) >= Score(table, terms))
    BY <1>3, <1>9
  <1> QED BY <1>7, <1>10, <1>11, <1>12, Zenon

(* What the loop over the tables has ranked after n of them.               *)
RankedSoFar(r, tables, terms) ==
    /\ r[0] = << >>
    /\ \A n \in 1..Len(tables) :
           r[n] = IF Score(tables[n], terms) = 0 THEN r[n - 1]
                  ELSE Insert(r[n - 1], tables[n], terms)

LEMMA InsertIsSeq ==
    ASSUME NEW T, NEW terms, \A t \in T : Score(t, terms) \in Nat,
           NEW sorted \in Seq(T), NEW table \in T
    PROVE  Insert(sorted, table, terms) \in Seq(T)
PROOF
  <1>1. PICK k \in 1..Len(sorted) + 1 : Insert(sorted, table, terms) = InsertAt(sorted, k, table)
    BY InsertIs
  <1> QED BY <1>1, InsertAtPlaces

LEMMA RankedSteps ==
    ASSUME NEW T, NEW terms, \A t \in T : Score(t, terms) \in Nat, NEW tables \in Seq(T)
    PROVE  \E r \in [0..Len(tables) -> Seq(T)] :
               RankedSoFar(r, tables, terms) /\ rankedTables(tables, terms) = r[Len(tables)]
PROOF
  <1> DEFINE N == Len(tables)
             V == Seq(T)
             empty == << >>
             step == [n \in 1..N |-> [s \in V |-> IF Score(tables[n], terms) = 0 THEN s
                                                  ELSE Insert(s, tables[n], terms)]]
  <1>1. N \in Nat /\ DOMAIN tables = 1..N /\ \A n \in 1..N : tables[n] \in T
    BY LenProperties, ElementOfSeq
  <1>2. empty \in V
    OBVIOUS
  <1>3. step \in [1..N -> [V -> V]]
    BY <1>1, InsertIsSeq
  <1>4. \A n \in 1..N : \A s \in V : step[n][s] = IF Score(tables[n], terms) = 0 THEN s
                                                ELSE Insert(s, tables[n], terms)
    OBVIOUS
  <1> HIDE DEF step, N, V, empty
  <1>5. PICK r \in [0..N -> V] : r[0] = empty /\ \A i \in 1..N : r[i] = step[i][r[i - 1]]
    <2>1. N \in Nat
      BY <1>1
    <2>2. \E r \in [0..N -> V] : StepByStep(r, empty, N, step)
      BY <1>2, <1>3, <2>1, RecursionExists, Zenon
    <2> QED BY <2>2 DEF StepByStep
  <1>6. \A i \in 1..N : r[i] = IF Score(tables[i], terms) = 0 THEN r[i - 1]
                               ELSE Insert(r[i - 1], tables[i], terms)
    <2> TAKE i \in 1..N
    <2>1. i - 1 \in 0..N /\ r[i - 1] \in V
      BY <1>1
    <2> QED BY <1>4, <1>5, <2>1
  <1> DEFINE Is(g) == g = [n \in 0..N |-> IF n = 0 THEN empty
                                          ELSE IF Score(tables[n], terms) = 0 THEN g[n - 1]
                                          ELSE Insert(g[n - 1], tables[n], terms)]
             ranked == CHOOSE g : Is(g)
  <1>7. Is(r)
    <2> DEFINE h == [n \in 0..N |-> IF n = 0 THEN empty
                                    ELSE IF Score(tables[n], terms) = 0 THEN r[n - 1]
                                    ELSE Insert(r[n - 1], tables[n], terms)]
    <2>1. \A n \in 0..N : r[n] = h[n]
      <3> TAKE n \in 0..N
      <3>1. CASE n = 0
        BY <1>5, <3>1
      <3>2. CASE n # 0
        <4>1. n \in 1..N
          BY <1>1, <3>2
        <4> QED BY <1>6, <3>2, <4>1
      <3> QED BY <3>1, <3>2
    <2>2. DOMAIN r = 0..N /\ DOMAIN h = 0..N
      OBVIOUS
    <2>3. r = [n \in 0..N |-> r[n]] /\ h = [n \in 0..N |-> h[n]]
      OBVIOUS
    <2> HIDE DEF h
    <2>4. r = h
      BY <2>1, <2>3
    <2> QED BY <2>4 DEF h
  <1>8. Is(ranked)
    <2> HIDE DEF Is
    <2> QED BY <1>7
  <1>9. \A n \in 0..N : ranked[n] = IF n = 0 THEN empty
                                    ELSE IF Score(tables[n], terms) = 0 THEN ranked[n - 1]
                                    ELSE Insert(ranked[n - 1], tables[n], terms)
    <2> HIDE DEF ranked
    <2> QED BY <1>8
  <1>10. rankedTables(tables, terms) = ranked[N]
    BY DEF rankedTables, N, empty
  <1> HIDE DEF ranked, Is
  <1> DEFINE same == [n \in 0..N |-> ranked[n]]
             bad == {n \in 0..N : ranked[n] # r[n]}
  <1>11. bad = {}
    <2> SUFFICES ASSUME bad # {} PROVE FALSE
      OBVIOUS
    <2>1. bad \subseteq Nat
      BY <1>1
    <2>2. PICK m \in bad : \A k \in bad : m <= k
      BY <2>1, LeastNatural
    <2>3. m # 0
      BY <1>1, <1>5, <1>9, <2>2
    <2>4. m \in 1..N /\ m - 1 \in 0..N /\ ~(m <= m - 1)
      BY <1>1, <2>2, <2>3
    <2>5. ranked[m - 1] = r[m - 1]
      BY <2>2, <2>4
    <2> QED BY <1>6, <1>9, <2>2, <2>3, <2>4, <2>5
  <1>12. ranked[N] = r[N]
    BY <1>1, <1>11
  <1>13. RankedSoFar(r, tables, terms)
    BY <1>5, <1>6 DEF RankedSoFar, N, empty
  <1> QED BY <1>10, <1>12, <1>13 DEF N, V

-----------------------------------------------------------------------------
(* A ranking of the first n tables, which are all different: those that    *)
(* score, by score, and in the order of the tables among equals.           *)
PlaceIn(tables, table) == CHOOSE i \in DOMAIN tables : tables[i] = table
Before(a, b, tables, terms) ==
    \/ Score(a, terms) > Score(b, terms)
    \/ Score(a, terms) = Score(b, terms) /\ PlaceIn(tables, a) < PlaceIn(tables, b)
Scoring(tables, terms, n) == {tables[i] : i \in {k \in 1..n : Score(tables[k], terms) > 0}}
StablyRanked(ranked, tables, terms, n) ==
    /\ Range(ranked) = Scoring(tables, terms, n)
    /\ \A i, j \in 1..Len(ranked) : i < j => Before(ranked[i], ranked[j], tables, terms)

LEMMA PlaceOf ==
    ASSUME NEW T, NEW tables \in Seq(T), IsInjective(tables), NEW i \in DOMAIN tables
    PROVE  PlaceIn(tables, tables[i]) = i
PROOF BY DEF PlaceIn, IsInjective

LEMMA InsertionIsStable ==
    ASSUME NEW T, NEW terms, \A t \in T : Score(t, terms) \in Nat,
           NEW tables \in Seq(T), IsInjective(tables), NEW n \in 1..Len(tables),
           NEW sorted \in Seq(T), StablyRanked(sorted, tables, terms, n - 1),
           Score(tables[n], terms) # 0
    PROVE  StablyRanked(Insert(sorted, tables[n], terms), tables, terms, n)
PROOF
  <1> DEFINE table == tables[n]
             new == Insert(sorted, table, terms)
             M == Len(sorted)
             S(t) == Score(t, terms)
  <1>1. M \in Nat /\ Len(tables) \in Nat /\ DOMAIN tables = 1..Len(tables) /\ DOMAIN sorted = 1..M
    BY LenProperties
  <1>2. table \in T /\ S(table) \in Nat /\ S(table) > 0 /\ \A i \in 1..M : sorted[i] \in T
    BY <1>1, ElementOfSeq
  <1>3. PICK k \in 1..M + 1 :
            /\ new = InsertAt(sorted, k, table)
            /\ k # 1 => S(sorted[k - 1]) >= S(table)
            /\ \A i \in k..M : ~(S(sorted[i]) >= S(table))
    BY <1>2, InsertIs
  <1>4. /\ new \in Seq(T) /\ Len(new) = M + 1 /\ DOMAIN new = 1..M + 1
        /\ \A i \in 1..M + 1 :
               new[i] = IF i < k THEN sorted[i] ELSE IF i = k THEN table ELSE sorted[i - 1]
    <2> HIDE DEF new, table
    <2>1. /\ new \in Seq(T) /\ Len(new) = M + 1
          /\ \A i \in 1..M + 1 :
                 new[i] = IF i < k THEN sorted[i] ELSE IF i = k THEN table ELSE sorted[i - 1]
      <3>1. sorted \in Seq(T) /\ table \in T /\ k \in 1..Len(sorted) + 1
        BY <1>2, <1>3
      <3>2. new \in Seq(T) /\ OneMore(new, sorted, k, table)
        BY <1>3, <3>1, InsertAtPlaces, Zenon
      <3> QED BY <3>2 DEF OneMore
    <2> QED BY <2>1, LenProperties
  <1>5. ASSUME NEW i \in 1..M
        PROVE  PlaceIn(tables, sorted[i]) < PlaceIn(tables, table) /\ S(sorted[i]) \in Nat
    <2>1. sorted[i] \in Scoring(tables, terms, n - 1)
      BY <1>1 DEF StablyRanked, Range
    <2>2. PICK j \in 1..n - 1 : sorted[i] = tables[j]
      BY <2>1 DEF Scoring
    <2>3. j \in DOMAIN tables /\ n \in DOMAIN tables /\ j < n
      BY <1>1
    <2>4. PlaceIn(tables, tables[j]) = j /\ PlaceIn(tables, tables[n]) = n
      BY <2>3, PlaceOf
    <2> QED BY <1>2, <2>2, <2>3, <2>4
  <1>6. \A i, j \in 1..M : i < j => Before(sorted[i], sorted[j], tables, terms)
    BY DEF StablyRanked
  <1>7. \A i, j \in 1..M : i < j => S(sorted[i]) >= S(sorted[j])
    <2> HIDE DEF M
    <2> TAKE i, j \in 1..M
    <2> HAVE i < j
    <2>1. S(sorted[i]) > S(sorted[j]) \/ S(sorted[i]) = S(sorted[j])
      BY <1>6 DEF Before
    <2>2. S(sorted[i]) \in Nat /\ S(sorted[j]) \in Nat
      BY <1>5
    <2> QED BY <2>1, <2>2
  <1> HIDE DEF new, M, table, S
  <1>8. \A i \in 1..k - 1 : S(sorted[i]) >= S(table)
    <2> TAKE i \in 1..k - 1
    <2>1. k - 1 \in 1..M /\ i \in 1..M /\ (i < k - 1 \/ i = k - 1) /\ k # 1
      BY <1>1
    <2>2. S(sorted[i]) \in Nat /\ S(sorted[k - 1]) \in Nat /\ S(sorted[k - 1]) >= S(table)
      BY <1>3, <1>5, <2>1
    <2>3. S(sorted[i]) >= S(sorted[k - 1])
      BY <1>7, <2>1, <2>2
    <2> QED BY <1>2, <2>2, <2>3
  <1>9. \A i \in 1..k - 1 : Before(sorted[i], table, tables, terms)
    <2> TAKE i \in 1..k - 1
    <2>1. i \in 1..M
      BY <1>1
    <2>2. S(sorted[i]) >= S(table) /\ PlaceIn(tables, sorted[i]) < PlaceIn(tables, table)
      BY <1>5, <1>8, <2>1
    <2>3. S(sorted[i]) \in Nat /\ S(table) \in Nat
      BY <1>2, <1>5, <2>1
    <2>4. S(sorted[i]) > S(table) \/ S(sorted[i]) = S(table)
      BY <2>2, <2>3
    <2> QED BY <2>2, <2>4 DEF Before, S
  <1>10. \A i \in k..M : Before(table, sorted[i], tables, terms)
    <2> TAKE i \in k..M
    <2>1. i \in 1..M /\ ~(S(sorted[i]) >= S(table))
      BY <1>1, <1>3
    <2>2. S(table) > S(sorted[i])
      BY <1>2, <1>5, <2>1
    <2> QED BY <2>2 DEF Before, S
  <1>11. ASSUME NEW i \in 1..M + 1, NEW j \in 1..M + 1, i < j
         PROVE  Before(new[i], new[j], tables, terms)
    <2>1. CASE i < k /\ j < k
      BY <1>1, <1>4, <1>6, <1>11, <2>1
    <2>2. CASE i < k /\ j = k
      <3>1. i \in 1..k - 1 /\ new[i] = sorted[i]
        <4>1. i \in 1..k - 1
          BY <1>1, <2>2
        <4> QED BY <1>4, <2>2, <4>1
      <3>2. new[j] = table
        BY <1>4, <2>2
      <3> QED BY <1>9, <3>1, <3>2
    <2>3. CASE i < k /\ j > k
      <3>1. i \in 1..M /\ j - 1 \in 1..M /\ i < j - 1 /\ new[i] = sorted[i] /\ new[j] = sorted[j - 1]
        BY <1>1, <1>4, <2>3, SMTT(30)
      <3> QED BY <1>6, <3>1
    <2>4. CASE i = k
      <3>1. j - 1 \in k..M /\ ~(j < k) /\ j # k
        BY <1>1, <1>11, <2>4
      <3>2. new[i] = table
        BY <1>4, <2>4
      <3>3. new[j] = sorted[j - 1]
        BY <1>4, <3>1, SMTT(30)
      <3> QED BY <1>10, <3>1, <3>2, <3>3
    <2>5. CASE i > k
      <3>1. i - 1 \in 1..M /\ j - 1 \in 1..M /\ i - 1 < j - 1
        BY <1>1, <1>11, <2>5
      <3>2. ~(i < k) /\ i # k /\ ~(j < k) /\ j # k
        BY <1>1, <1>11, <2>5
      <3>3. new[i] = sorted[i - 1] /\ new[j] = sorted[j - 1]
        BY <1>4, <3>2
      <3> QED BY <1>6, <3>1, <3>3
    <2> QED BY <1>1, <1>11, <2>1, <2>2, <2>3, <2>4, <2>5
  <1>12. Range(new) = Range(sorted) \cup {table}
    <2>1. ASSUME NEW i \in 1..M + 1 PROVE new[i] \in Range(sorted) \cup {table}
      <3>1. CASE i = k
        BY <1>4, <3>1
      <3>2. CASE i < k
        <4>1. i \in DOMAIN sorted /\ new[i] = sorted[i]
          BY <1>1, <1>4, <3>2 DEF M
        <4> QED BY <4>1 DEF Range
      <3>3. CASE i > k
        <4>1. i - 1 \in DOMAIN sorted /\ new[i] = sorted[i - 1]
          BY <1>1, <1>4, <3>3 DEF M
        <4> QED BY <4>1 DEF Range
      <3> QED BY <3>1, <3>2, <3>3
    <2>2. table \in Range(new)
      <3>1. k \in DOMAIN new /\ new[k] = table
        BY <1>1, <1>4
      <3> QED BY <3>1 DEF Range
    <2>3. ASSUME NEW i \in 1..M PROVE sorted[i] \in Range(new)
      <3>1. CASE i < k
        <4>1. i \in DOMAIN new /\ new[i] = sorted[i]
          BY <1>1, <1>4, <3>1
        <4> QED BY <4>1 DEF Range
      <3>2. CASE i >= k
        <4>1. i + 1 \in DOMAIN new /\ new[i + 1] = sorted[i]
          BY <1>1, <1>4, <3>2
        <4> QED BY <4>1 DEF Range
      <3> QED BY <1>1, <3>1, <3>2
    <2>4. Range(new) \subseteq Range(sorted) \cup {table}
      BY <1>4, <2>1 DEF Range
    <2>5. Range(sorted) \subseteq Range(new)
      BY <1>1, <2>3 DEF Range, M
    <2> QED BY <2>2, <2>4, <2>5
  <1>13. Scoring(tables, terms, n) = Scoring(tables, terms, n - 1) \cup {table}
    <2>1. \A i \in 1..n : i \in 1..n - 1 \/ i = n
      BY <1>1
    <2>2. n \in 1..n /\ 1..n - 1 \subseteq 1..n /\ Score(tables[n], terms) > 0
      BY <1>1, <1>2 DEF S, table
    <2> QED BY <2>1, <2>2 DEF Scoring, table
  <1> QED BY <1>4, <1>11, <1>12, <1>13 DEF StablyRanked, new, table

(* The insertion sort ranks the tables that score by score, and equals in  *)
(* the order they had.                                                     *)
LEMMA RankingOf ==
    ASSUME NEW T, NEW terms, \A t \in T : Score(t, terms) \in Nat,
           NEW tables \in Seq(T), IsInjective(tables)
    PROVE  /\ rankedTables(tables, terms) \in Seq(T)
           /\ StablyRanked(rankedTables(tables, terms), tables, terms, Len(tables))
PROOF
  <1> DEFINE N == Len(tables)
  <1>1. N \in Nat /\ DOMAIN tables = 1..N /\ \A n \in 1..N : tables[n] \in T
    BY LenProperties, ElementOfSeq
  <1>2. PICK r \in [0..N -> Seq(T)] :
            RankedSoFar(r, tables, terms) /\ rankedTables(tables, terms) = r[N]
    BY RankedSteps, SMTT(30)
  <1> HIDE DEF N
  <1> DEFINE bad == {n \in 0..N : ~StablyRanked(r[n], tables, terms, n)}
  <1>3. StablyRanked(r[0], tables, terms, 0)
    <2>1. r[0] = << >>
      BY <1>2 DEF RankedSoFar
    <2> QED BY <2>1 DEF StablyRanked, Scoring, Range
  <1>4. ASSUME NEW n \in 1..N, StablyRanked(r[n - 1], tables, terms, n - 1)
        PROVE  StablyRanked(r[n], tables, terms, n)
    <2>1. n - 1 \in 0..N /\ r[n - 1] \in Seq(T)
      BY <1>1, <1>2
    <2>2. r[n] = IF Score(tables[n], terms) = 0 THEN r[n - 1] ELSE Insert(r[n - 1], tables[n], terms)
      BY <1>2 DEF RankedSoFar, N
    <2>3. CASE Score(tables[n], terms) # 0
      BY <1>4, <2>1, <2>2, <2>3, InsertionIsStable DEF N
    <2>4. CASE Score(tables[n], terms) = 0
      <3>1. \A i \in 1..n : i \in 1..n - 1 \/ i = n
        BY <1>1
      <3>2. 1..n - 1 \subseteq 1..n /\ ~(Score(tables[n], terms) > 0)
        BY <1>1, <2>4
      <3>3. Scoring(tables, terms, n) = Scoring(tables, terms, n - 1)
        BY <3>1, <3>2 DEF Scoring
      <3> QED BY <1>4, <2>2, <2>4, <3>3 DEF StablyRanked
    <2> QED BY <2>3, <2>4
  <1>5. bad = {}
    <2> SUFFICES ASSUME bad # {} PROVE FALSE
      OBVIOUS
    <2>1. bad \subseteq Nat
      BY <1>1
    <2>2. PICK m \in bad : \A k \in bad : m <= k
      BY <2>1, LeastNatural
    <2>3. m \in 1..N /\ m - 1 \in 0..N /\ ~(m <= m - 1)
      BY <1>1, <1>3, <2>2
    <2>4. StablyRanked(r[m - 1], tables, terms, m - 1)
      BY <2>2, <2>3
    <2> QED BY <1>4, <2>2, <2>3, <2>4
  <1>6. StablyRanked(r[N], tables, terms, N)
    <2>1. N \in 0..N
      BY <1>1
    <2> QED BY <1>5, <2>1
  <1> QED BY <1>2, <1>6 DEF N

-----------------------------------------------------------------------------
(* What is planned is about one of the tables. *)
LEMMA ScoresAreNat ==
    ASSUME NEW T, \A t \in T : Table(t), NEW W, NEW terms \in Seq(W)
    PROVE  \A t \in T : Score(t, terms) \in Nat
PROOF BY ScoreIsNat

LEMMA RankedIsSeq ==
    ASSUME NEW T, \A t \in T : Table(t), NEW W, NEW terms \in Seq(W), NEW tables \in Seq(T)
    PROVE  rankedTables(tables, terms) \in Seq(T)
PROOF
  <1>1. \A t \in T : Score(t, terms) \in Nat
    BY ScoresAreNat
  <1>2. PICK r \in [0..Len(tables) -> Seq(T)] :
            RankedSoFar(r, tables, terms) /\ rankedTables(tables, terms) = r[Len(tables)]
    BY <1>1, RankedSteps, ZenonT(60)
  <1>3. Len(tables) \in 0..Len(tables)
    BY LenProperties
  <1> QED BY <1>2, <1>3

(* No table, or one of T. *)
AtMostOne(T) == {<< >>} \cup {<<t>> : t \in T}

SynonymWords == {"employee", "person", "worker", "human", "customer", "client", "staff",
                 "payment", "transaction", "invoice", "order", "sale"}
LEMMA SynonymsAreTerms ==
    \A terms \in Range(tableSynonyms) : terms \in Seq(SynonymWords)
PROOF
  <1>1. tableSynonyms["staff"] \in Seq(SynonymWords)
    <2>1. tableSynonyms["staff"] = <<"employee", "person", "worker", "human">>
      BY DEF tableSynonyms
    <2> QED BY <2>1 DEF SynonymWords
  <1>2. tableSynonyms["people"] \in Seq(SynonymWords)
    <2>1. tableSynonyms["people"] = <<"employee", "person", "customer", "client">>
      BY DEF tableSynonyms
    <2> QED BY <2>1 DEF SynonymWords
  <1>3. tableSynonyms["workers"] \in Seq(SynonymWords)
    <2>1. tableSynonyms["workers"] = <<"employee", "person", "staff">>
      BY DEF tableSynonyms
    <2> QED BY <2>1 DEF SynonymWords
  <1>4. tableSynonyms["client"] \in Seq(SynonymWords)
    <2>1. tableSynonyms["client"] = <<"customer", "person">>
      BY DEF tableSynonyms
    <2> QED BY <2>1 DEF SynonymWords
  <1>5. tableSynonyms["clients"] \in Seq(SynonymWords)
    <2>1. tableSynonyms["clients"] = <<"customer", "client">>
      BY DEF tableSynonyms
    <2> QED BY <2>1 DEF SynonymWords
  <1>6. tableSynonyms["receipts"] \in Seq(SynonymWords)
    <2>1. tableSynonyms["receipts"] = <<"payment", "transaction", "invoice">>
      BY DEF tableSynonyms
    <2> QED BY <2>1 DEF SynonymWords
  <1>7. tableSynonyms["orders"] \in Seq(SynonymWords)
    <2>1. tableSynonyms["orders"] = <<"order", "sale">>
      BY DEF tableSynonyms
    <2> QED BY <2>1 DEF SynonymWords
  <1>8. tableSynonyms["sales"] \in Seq(SynonymWords)
    <2>1. tableSynonyms["sales"] = <<"payment", "transaction", "invoice", "sale", "order">>
      BY DEF tableSynonyms
    <2> QED BY <2>1 DEF SynonymWords
  <1>9. tableSynonyms["buyers"] \in Seq(SynonymWords)
    <2>1. tableSynonyms["buyers"] = <<"customer", "client">>
      BY DEF tableSynonyms
    <2> QED BY <2>1 DEF SynonymWords
  <1>10. tableSynonyms["purchases"] \in Seq(SynonymWords)
    <2>1. tableSynonyms["purchases"] = <<"payment", "transaction", "order">>
      BY DEF tableSynonyms
    <2> QED BY <2>1 DEF SynonymWords
  <1>11. DOMAIN tableSynonyms = {"staff", "people", "workers", "client", "clients", "receipts",
                                 "orders", "sales", "buyers", "purchases"}
    BY DEF tableSynonyms
  <1>12. \A term \in DOMAIN tableSynonyms : tableSynonyms[term] \in Seq(SynonymWords)
    BY <1>1, <1>2, <1>3, <1>4, <1>5, <1>6, <1>7, <1>8, <1>9, <1>10, <1>11
  <1> QED BY <1>12 DEF Range

LEMMA BestOrIs ==
    ASSUME NEW T, \A t \in T : Table(t), NEW W, NEW terms \in Seq(W), NEW tables \in Seq(T),
           NEW found, \A synonyms \in Range(tableSynonyms) : found[synonyms] \in AtMostOne(T)
    PROVE  BestOr(tables, terms, found) \in AtMostOne(T)
PROOF
  <1> DEFINE ranked == rankedTables(tables, terms)
             helped == {term \in DOMAIN tableSynonyms : found[tableSynonyms[term]] # << >>}
  <1>1. ranked \in Seq(T)
    BY RankedIsSeq
  <1>2. BestOr(tables, terms, found) =
            IF ranked # << >> THEN <<Head(ranked)>>
            ELSE IF Range(terms) \cap helped = {} THEN << >>
            ELSE found[tableSynonyms[First(terms, helped)]]
    BY DEF BestOr
  <1>3. \A term \in helped : found[tableSynonyms[term]] \in AtMostOne(T)
    BY DEF Range
  <1> HIDE DEF ranked, helped
  <1>4. CASE ranked # << >>
    <2>1. Head(ranked) \in T
      BY <1>1, <1>4
    <2> QED BY <1>2, <1>4, <2>1 DEF AtMostOne
  <1>5. CASE ranked = << >> /\ Range(terms) \cap helped = {}
    BY <1>2, <1>5 DEF AtMostOne
  <1>6. CASE ranked = << >> /\ Range(terms) \cap helped # {}
    <2>1. First(terms, helped) \in helped
      BY <1>6, FirstIs
    <2> QED BY <1>2, <1>3, <1>6, <2>1
  <1> QED BY <1>4, <1>5, <1>6

LEMMA BestTableIs ==
    ASSUME NEW T, \A t \in T : Table(t), NEW W, NEW words \in Seq(W), NEW tables \in Seq(T)
    PROVE  bestTable(tables, words) \in AtMostOne(T)
PROOF
  <1> DEFINE R == Range(tableSynonyms)
             none == [terms \in R |-> << >>]
             lower == [terms \in R |-> BestOr(tables, terms, none)]
             next == [terms \in R |-> BestOr(tables, terms, lower)]
  <1>1. \A terms \in R : terms \in Seq(SynonymWords)
    BY SynonymsAreTerms
  <1>2. bestTable(tables, words) = BestOr(tables, words, next)
    BY DEF bestTable
  <1>3. \A terms \in R : none[terms] \in AtMostOne(T)
    BY DEF AtMostOne
  <1>4. \A terms \in R : lower[terms] = BestOr(tables, terms, none)
    OBVIOUS
  <1>5. \A terms \in R : next[terms] = BestOr(tables, terms, lower)
    OBVIOUS
  <1> HIDE DEF none, lower, next
  <1>6. \A terms \in R : lower[terms] \in AtMostOne(T)
    <2> TAKE terms \in R
    <2>1. terms \in Seq(SynonymWords)
      BY <1>1
    <2>2. BestOr(tables, terms, none) \in AtMostOne(T)
      BY <1>3, <2>1, BestOrIs
    <2> QED BY <1>4, <2>2
  <1>7. \A terms \in R : next[terms] \in AtMostOne(T)
    <2> TAKE terms \in R
    <2>1. terms \in Seq(SynonymWords)
      BY <1>1
    <2>2. BestOr(tables, terms, lower) \in AtMostOne(T)
      BY <1>6, <2>1, BestOrIs
    <2> QED BY <1>5, <2>2
  <1>8. BestOr(tables, words, next) \in AtMostOne(T)
    BY <1>7, BestOrIs
  <1> QED BY <1>2, <1>8

LEMMA RevenuePlanned ==
    ASSUME NEW T, \A t \in T : Table(t), NEW tables \in Seq(T), NEW query,
           query = PlanRevenue(tables)
    PROVE  \/ query = Unsupported /\ \A t \in Range(tables) : revenueQuery(t) = Unsupported
           \/ \E t \in T : query = revenueQuery(t) /\ query # Unsupported
PROOF
  <1> DEFINE ranked == rankedTables(tables, MoneyTerms)
             all == ranked \o tables
  <1>1. ranked \in Seq(T)
    <2>1. MoneyTerms \in Seq({"payment", "transaction", "sale", "invoice", "revenue", "income",
                               "order"})
      BY DEF MoneyTerms
    <2> QED BY <2>1, RankedIsSeq
  <1>2. query = FirstQuery(all, revenueQuery)
    BY DEF PlanRevenue
  <1> HIDE DEF ranked
  <1>3. all \in Seq(T) /\ Range(tables) \subseteq Range(all)
    <2>1. /\ all \in Seq(T) /\ Len(all) = Len(ranked) + Len(tables)
          /\ \A i \in 1..Len(ranked) + Len(tables) :
                 all[i] = IF i <= Len(ranked) THEN ranked[i] ELSE tables[i - Len(ranked)]
      BY <1>1, ConcatProperties
    <2>2. Len(ranked) \in Nat /\ Len(tables) \in Nat /\ DOMAIN tables = 1..Len(tables)
          /\ DOMAIN all = 1..Len(all)
      BY <1>1, <2>1, LenProperties
    <2> HIDE DEF all
    <2>3. ASSUME NEW i \in 1..Len(tables) PROVE tables[i] \in Range(all)
      <3>1. i + Len(ranked) \in DOMAIN all
        BY <2>1, <2>2
      <3>2. i + Len(ranked) \in 1..Len(ranked) + Len(tables) /\ ~(i + Len(ranked) <= Len(ranked))
            /\ i + Len(ranked) - Len(ranked) = i
        BY <2>2
      <3>3. all[i + Len(ranked)] = tables[i]
        BY <2>1, <3>2
      <3> QED BY <3>1, <3>3 DEF Range
    <2> QED BY <2>1, <2>2, <2>3 DEF Range
  <1> HIDE DEF all
  <1>4. \A t \in Range(all) : t \in T
    BY <1>3 DEF Range
  <1>5. \/ query = Unsupported /\ \A t \in Range(all) : revenueQuery(t) = Unsupported
        \/ \E t \in Range(all) : query = revenueQuery(t) /\ query # Unsupported
    BY <1>2, <1>3, FirstRevenue
  <1>6. Range(tables) \subseteq Range(all)
    BY <1>3
  <1> QED BY <1>4, <1>5, <1>6

LEMMA PlanIs ==
    ASSUME NEW T, \A t \in T : Table(t), NEW tables \in Seq(T),
           NEW W, NEW question, question.words \in Seq(W),
           NEW query, query = Plan(tables, question), query # Unsupported
    PROVE  \/ \E t \in T : query = countQuery(t)
           \/ \E t \in T : query = absenceQuery(t)
           \/ \E t \in T : query = revenueQuery(t)
PROOF
  <1>1. CASE question.phrases \cap AbsencePhrases # {}
    <2> DEFINE ranked == rankedTables(tables, AbsenceTerms)
    <2>1. ranked \in Seq(T)
      <3>1. AbsenceTerms \in Seq({"absence", "absent", "attendance", "leave"})
        BY DEF AbsenceTerms
      <3> QED BY <3>1, RankedIsSeq
    <2>2. query = FirstQuery(ranked, absenceQuery)
      BY <1>1 DEF Plan
    <2> HIDE DEF ranked
    <2>3. \A t \in Range(ranked) : t \in T
      BY <2>1 DEF Range
    <2> QED BY <2>1, <2>2, <2>3, FirstAbsence
  <1>2. CASE question.phrases \cap AbsencePhrases = {} /\ question.phrases \cap CountPhrases # {}
    <2> DEFINE best == bestTable(tables, question.words)
    <2>1. best \in AtMostOne(T)
      BY BestTableIs
    <2>2. query = IF best = << >> THEN Unsupported ELSE countQuery(Head(best))
      BY <1>2 DEF Plan
    <2> HIDE DEF best
    <2>3. PICK t \in T : best = <<t>>
      BY <2>1, <2>2 DEF AtMostOne
    <2>4. query = countQuery(t)
      BY <2>2, <2>3
    <2> QED BY <2>4
  <1>3. CASE /\ question.phrases \cap AbsencePhrases = {} /\ question.phrases \cap CountPhrases = {}
    <2>1. query = PlanRevenue(tables)
      BY <1>3 DEF Plan
    <2> QED BY <2>1, RevenuePlanned
  <1> QED BY <1>1, <1>2, <1>3

-----------------------------------------------------------------------------
(* The places of the tables in the order of their names. *)
LEMMA InOrderIs ==
    ASSUME NEW places, places \subseteq Nat, IsFiniteSet(places)
    PROVE  /\ Cardinality(places) \in Nat
           /\ InOrder(places) \in [1..Cardinality(places) -> places]
           /\ \A i, j \in 1..Cardinality(places) : InOrder(places)[i] = InOrder(places)[j] => i = j
PROOF
  <1> DEFINE n == Cardinality(places)
             Is(s) == s \in [1..n -> places] /\ \A i, j \in DOMAIN s : i < j => s[i] < s[j]
             order == InOrder(places)
  <1>1. n \in Nat
    BY FS_CardinalityType
  <1>2. PICK s \in [1..n -> places] : \A i, j \in 1..n : i < j => s[i] < s[j]
    BY AscendingExists
  <1>3. order \in [1..n -> places] /\ \A i, j \in 1..n : i < j => order[i] < order[j]
    <2>1. \E f \in [1..n -> places] : \A i, j \in DOMAIN f : i < j => f[i] < f[j]
      BY <1>2
    <2>2. order \in [1..n -> places] /\ \A i, j \in DOMAIN order : i < j => order[i] < order[j]
      BY <2>1 DEF InOrder
    <2> QED BY <2>2
  <1> HIDE DEF order, n
  <1>4. ASSUME NEW i \in 1..n, NEW j \in 1..n, order[i] = order[j] PROVE i = j
    <2>1. order[i] \in places /\ order[j] \in places
      BY <1>3
    <2>2. order[i] \in Nat /\ order[j] \in Nat
      BY <2>1
    <2>3. ~(order[i] < order[j]) /\ ~(order[j] < order[i])
      BY <1>4, <2>2
    <2>4. ~(i < j) /\ ~(j < i)
      BY <1>3, <2>3
    <2> QED BY <1>1, <2>4
  <1> QED BY <1>1, <1>3, <1>4 DEF order, n
=============================================================================
