--------------------------- MODULE RoutingProofs ---------------------------
(***************************************************************************)
(* Proofs about the prompt of main.go, for every catalog, every set of     *)
(* facts and every bound.  What the planner and the search for the best    *)
(* fact compute by folds is left unexpanded.                               *)
(***************************************************************************)
EXTENDS Routing, PlannerProofs

-----------------------------------------------------------------------------
(* Types. *)
LEMMA TaughtRange ==
    ASSUME NEW words, NEW answer \in Corrections, Range(facts) \subseteq Corrections
    PROVE  Range(TeachFact(facts, words, answer)) \subseteq Corrections
PROOF BY DEF TeachFact, Range

LEMMA TypeInit == Init => TypeOK
PROOF BY DEF Init, TypeOK, NoFacts, Range

(* A column taken out of, and a column put behind, columns of different    *)
(* names.                                                                  *)
LEMMA RemovedColumn ==
    ASSUME NEW s \in Seq(Columns), DifferentNames(s), NEW k \in DOMAIN s
    PROVE  RemoveAt(s, k) \in Seq(Columns) /\ DifferentNames(RemoveAt(s, k))
PROOF
  <1> DEFINE t == RemoveAt(s, k)
             from(i) == IF i < k THEN i ELSE i + 1
  <1>1. k \in 1..Len(s) /\ Len(s) \in Nat /\ DOMAIN s = 1..Len(s)
    BY LenProperties
  <1>2. /\ t \in Seq(Columns) /\ Len(t) = Len(s) - 1
        /\ \A i \in 1..Len(s) - 1 : t[i] = IF i < k THEN s[i] ELSE s[i + 1]
    BY <1>1, RemoveAtPlaces
  <1> HIDE DEF t
  <1>3. DOMAIN t = 1..Len(s) - 1
    BY <1>2, LenProperties
  <1>4. \A i \in DOMAIN t : from(i) \in DOMAIN s /\ t[i] = s[from(i)]
    BY <1>1, <1>2, <1>3
  <1>5. \A i, j \in DOMAIN t : from(i) = from(j) => i = j
    BY <1>1, <1>3
  <1> HIDE DEF from
  <1>6. \A i, j \in DOMAIN t : t[i].name = t[j].name => i = j
    BY <1>4, <1>5 DEF DifferentNames
  <1> QED BY <1>2, <1>6 DEF DifferentNames, t

LEMMA AddedColumn ==
    ASSUME NEW s \in Seq(Columns), DifferentNames(s), NEW c \in Columns,
           \A k \in DOMAIN s : s[k].name # c.name
    PROVE  Append(s, c) \in Seq(Columns) /\ DifferentNames(Append(s, c))
PROOF
  <1> DEFINE t == Append(s, c)
  <1>1. /\ t \in Seq(Columns) /\ Len(t) = Len(s) + 1 /\ Len(s) \in Nat
        /\ t[Len(s) + 1] = c /\ \A i \in 1..Len(s) : t[i] = s[i]
        /\ DOMAIN t = 1..Len(t) /\ DOMAIN s = 1..Len(s)
    OBVIOUS
  <1> HIDE DEF t
  <1>2. ASSUME NEW i \in DOMAIN t, NEW j \in DOMAIN t, t[i].name = t[j].name
        PROVE  i = j
    BY <1>1, <1>2 DEF DifferentNames
  <1> QED BY <1>1, <1>2 DEF DifferentNames, t

LEMMA TypeStep == TypeOK /\ [Next]_vars => TypeOK'
PROOF
  <1> SUFFICES ASSUME TypeOK, [Next]_vars PROVE TypeOK'
    OBVIOUS
  <1>1. CASE UNCHANGED vars
    BY <1>1 DEF vars, TypeOK
  <1>2. ASSUME NEW tables, Replace(tables), DOMAIN tables \subseteq DOMAIN TableOrder,
               \A i \in DOMAIN tables : tables[i] \in Seq(Columns) /\ DifferentNames(tables[i])
        PROVE  TypeOK'
    BY <1>2 DEF Replace, TypeOK
  <1>3. ASSUME NEW i \in DOMAIN TableOrder \ DOMAIN schema, CreateTable(i)
        PROVE  TypeOK'
    <2> DEFINE new == [j \in DOMAIN schema \cup {i} |-> IF j = i THEN << >> ELSE schema[j]]
    <2>1. << >> \in Seq(Columns) /\ DifferentNames(<< >>)
      BY DEF DifferentNames
    <2>2. /\ DOMAIN new \subseteq DOMAIN TableOrder
          /\ \A j \in DOMAIN new : new[j] \in Seq(Columns) /\ DifferentNames(new[j])
      BY <2>1 DEF TypeOK
    <2>3. Replace(new)
      BY <1>3 DEF CreateTable
    <2> HIDE DEF new
    <2> QED BY <1>2, <2>2, <2>3
  <1>4. ASSUME NEW i \in DOMAIN schema, DropTable(i)
        PROVE  TypeOK'
    <2> DEFINE new == [j \in DOMAIN schema \ {i} |-> schema[j]]
    <2>1. Replace(new)
      BY <1>4 DEF DropTable, Restrict
    <2>2. /\ DOMAIN new \subseteq DOMAIN TableOrder
          /\ \A j \in DOMAIN new : new[j] \in Seq(Columns) /\ DifferentNames(new[j])
      BY DEF TypeOK
    <2> HIDE DEF new
    <2> QED BY <1>2, <2>1, <2>2
  <1>5. ASSUME NEW i \in DOMAIN schema, NEW s \in Seq(Columns), DifferentNames(s),
               Replace([schema EXCEPT ![i] = s])
        PROVE  TypeOK'
    <2> DEFINE new == [schema EXCEPT ![i] = s]
    <2>1. /\ DOMAIN new \subseteq DOMAIN TableOrder
          /\ \A j \in DOMAIN new : new[j] \in Seq(Columns) /\ DifferentNames(new[j])
      BY <1>5 DEF TypeOK
    <2>2. Replace(new)
      BY <1>5
    <2> HIDE DEF new
    <2> QED BY <1>2, <2>1, <2>2
  <1>6. ASSUME NEW i \in DOMAIN schema, NEW column \in Columns, AddColumn(i, column)
        PROVE  TypeOK'
    <2>1. /\ \A k \in DOMAIN schema[i] : schema[i][k].name # column.name
          /\ Replace([schema EXCEPT ![i] = Append(schema[i], column)])
      BY <1>6 DEF AddColumn
    <2>2. schema[i] \in Seq(Columns) /\ DifferentNames(schema[i])
      BY DEF TypeOK
    <2> QED BY <1>5, <2>1, <2>2, AddedColumn
  <1>7. ASSUME NEW i \in DOMAIN schema, NEW k \in DOMAIN schema[i], DropColumn(i, k)
        PROVE  TypeOK'
    <2>1. Replace([schema EXCEPT ![i] = RemoveAt(schema[i], k)])
      BY <1>7 DEF DropColumn
    <2>2. schema[i] \in Seq(Columns) /\ DifferentNames(schema[i])
      BY DEF TypeOK
    <2> QED BY <1>5, <2>1, <2>2, RemovedColumn
  <1>8. ASSUME NEW question \in Questions, Ask(question)
        PROVE  TypeOK'
    BY <1>8 DEF Ask, TypeOK
  <1>9. ASSUME NEW question \in Teachable, NEW answer \in Corrections, Teach(question, answer)
        PROVE  TypeOK'
    <2>1. Range(facts') \subseteq Corrections
      BY <1>9, TaughtRange DEF Teach, TypeOK
    <2>2. PICK reply : last' = [question |-> question, reply |-> reply]
      BY <1>9 DEF Teach
    <2>3. last'.question \in Questions
      BY <2>2, RoutingAssumption
    <2>4. UNCHANGED schema
      BY <1>9 DEF Teach
    <2> QED BY <2>1, <2>3, <2>4 DEF TypeOK
  <1> QED BY <1>1, <1>3, <1>4, <1>6, <1>7, <1>8, <1>9 DEF Next, RefreshCatalog

(* Catalog and facts stay well-formed, and only corrections are facts,     *)
(* through any refreshes, questions and corrections.                       *)
THEOREM RoutingTypeCorrect == Spec => []TypeOK
PROOF BY TypeInit, TypeStep, PTL DEF Spec

-----------------------------------------------------------------------------
(* The key of a question that was just taught is there, whatever was.      *)
LEMMA TaughtIsFound ==
    ASSUME NEW known, NEW words, NEW answer
    PROVE  Fact(TeachFact(known, words, answer), words) = {answer}
PROOF BY DEF Fact, TeachFact

(* What is taught is answered at once, however many facts compete for the  *)
(* question and in whatever order the map is visited, unless the database  *)
(* or the redirect takes it.                                               *)
THEOREM CorrectionIsAnsweredAlways == Spec => CorrectionIsAnswered
PROOF
  <1> DEFINE A == \A question \in Teachable, answer \in Corrections :
                      Teach(question, answer) /\ ~Live(question) /\ ~Redirected(question)
                          => last' = [question |-> question, reply |-> answer]
  <1>1. ASSUME NEW question \in Teachable, NEW answer \in Corrections,
               Teach(question, answer), ~Live(question), ~Redirected(question)
        PROVE  last' = [question |-> question, reply |-> answer]
    <2>1. Fact(facts', question.words) = {answer} /\ answer # ""
      BY <1>1, TaughtIsFound, RoutingAssumption DEF Teach
    <2>2. \A reply \in Replies(facts', question) : reply = answer
      <3>1. Replies(facts', question) =
                {IF known # "" THEN known
                 ELSE IF question \in Documented THEN "document" ELSE "I do not know that yet." :
                    known \in Fact(facts', question.words)}
        BY <1>1 DEF Replies
      <3> QED BY <2>1, <3>1
    <2> QED BY <1>1, <2>2 DEF Teach
  <1>2. A
    BY <1>1
  <1>3. [Next]_vars => [A]_vars
    BY <1>2
  <1> QED BY <1>3, PTL DEF Spec, CorrectionIsAnswered

-----------------------------------------------------------------------------
(* The catalog that the planner works with: different tables, each with    *)
(* columns of different names.                                             *)
LEMMA TablesAre ==
    ASSUME TypeOK
    PROVE  /\ Tables \in Seq(Range(Tables)) /\ IsInjective(Tables)
           /\ \A t \in Range(Tables) : Table(t) /\ WellNamed(t)
PROOF
  <1> DEFINE places == DOMAIN schema
             n == Cardinality(places)
             order == InOrder(places)
  <1>1. places \subseteq Nat /\ IsFiniteSet(places) /\ places \subseteq DOMAIN TableOrder
    <2>1. places \subseteq DOMAIN TableOrder
      BY DEF TypeOK
    <2>2. DOMAIN TableOrder \subseteq Nat /\ IsFiniteSet(DOMAIN TableOrder)
      BY RoutingAssumption
    <2>3. IsFiniteSet(places)
      BY <2>1, <2>2, FS_Subset
    <2> QED BY <2>1, <2>2, <2>3
  <1>2. /\ n \in Nat /\ order \in [1..n -> places]
        /\ \A i, j \in 1..n : order[i] = order[j] => i = j
    BY <1>1, InOrderIs
  <1>3. /\ Tables = [i \in 1..n |-> [name |-> TableOrder[order[i]].name,
                                     words |-> TableOrder[order[i]].words,
                                     columns |-> schema[order[i]]]]
    BY <1>2 DEF Tables
  <1> HIDE DEF n, order
  <1>4. DOMAIN Tables = 1..n
    BY <1>3
  <1>5. Tables \in Seq(Range(Tables))
    <2>1. \A i \in 1..n : Tables[i] \in Range(Tables)
      BY <1>4 DEF Range
    <2>2. Tables = [i \in 1..n |-> Tables[i]]
      BY <1>3
    <2>3. Tables \in [1..n -> Range(Tables)]
      BY <2>1, <2>2
    <2> QED BY <1>2, <2>3
  <1>6. ASSUME NEW i \in 1..n, NEW j \in 1..n, Tables[i] = Tables[j] PROVE i = j
    <2>1. TableOrder[order[i]].name = TableOrder[order[j]].name
      BY <1>3, <1>6
    <2>2. order[i] \in DOMAIN TableOrder /\ order[j] \in DOMAIN TableOrder
      BY <1>1, <1>2
    <2> QED BY <1>2, <2>1, <2>2, RoutingAssumption
  <1>7. ASSUME NEW i \in 1..n PROVE Table(Tables[i]) /\ WellNamed(Tables[i])
    <2> DEFINE columns == Tables[i].columns
    <2>1. columns = schema[order[i]] /\ order[i] \in places
      BY <1>2, <1>3
    <2> HIDE DEF columns
    <2>2. columns \in Seq(Columns) /\ DifferentNames(columns)
      BY <2>1 DEF TypeOK
    <2>3. columns \in Seq(Range(columns)) /\ Range(columns) \subseteq Columns
      <3>1. Len(columns) \in Nat /\ DOMAIN columns = 1..Len(columns)
        BY <2>2, LenProperties
      <3>2. \A k \in 1..Len(columns) : columns[k] \in Range(columns)
        BY <3>1 DEF Range
      <3>3. columns = [k \in 1..Len(columns) |-> columns[k]]
        BY <2>2
      <3>4. columns \in [1..Len(columns) -> Range(columns)]
        BY <3>2, <3>3
      <3> QED BY <2>2, <3>1, <3>4 DEF Range
    <2>4. \A c \in Range(columns) : c.name # NoColumn.name
      BY <2>3, RoutingAssumption
    <2> QED BY <2>2, <2>3, <2>4 DEF Table, WellNamed, DifferentNames, columns
  <1>8. IsInjective(Tables)
    BY <1>4, <1>6 DEF IsInjective
  <1> QED BY <1>4, <1>5, <1>7, <1>8 DEF Range

LEMMA QuestionIs ==
    ASSUME NEW question \in Questions
    PROVE  question.words \in Seq(STRING)
PROOF BY RoutingAssumption

LEMMA RolesFit ==
    ASSUME TypeOK
    PROVE  QueriesFitRoles
PROOF
  <1> SUFFICES ASSUME NEW question \in Questions, NEW query, query = Plan(Tables, question)
               PROVE  /\ query.kind = "absence" =>
                          /\ {query.date, query.name} \subseteq Range(query.table.columns)
                          /\ query.date # query.name /\ query.status \notin {query.date, query.name}
                      /\ query.kind = "revenue" =>
                          LET measures == Measures(query.table, query.date)
                              money == {c \in measures : c.words \cap MoneyLike # {}}
                          IN  query.amount \in IF money # {} THEN money ELSE measures
    BY DEF QueriesFitRoles
  <1> DEFINE T == Range(Tables)
  <1>1. Tables \in Seq(T) /\ \A t \in T : Table(t) /\ WellNamed(t)
    BY TablesAre
  <1> HIDE DEF T
  <1>2. CASE query = Unsupported
    BY <1>2 DEF Unsupported
  <1>3. ASSUME NEW t \in T, query = countQuery(t)
        PROVE  query.kind \notin {"absence", "revenue"}
    BY <1>3 DEF countQuery
  <1>4. ASSUME NEW t \in T, query = absenceQuery(t), query # Unsupported
        PROVE  /\ query.kind = "absence"
               /\ {query.date, query.name} \subseteq Range(query.table.columns)
               /\ query.date # query.name /\ query.status \notin {query.date, query.name}
    BY <1>1, <1>4, AbsenceRoles
  <1>5. ASSUME NEW t \in T, query = revenueQuery(t), query # Unsupported
        PROVE  /\ query.kind = "revenue"
               /\ LET measures == Measures(query.table, query.date)
                      money == {c \in measures : c.words \cap MoneyLike # {}}
                  IN  query.amount \in IF money # {} THEN money ELSE measures
    <2> DEFINE amounts == Amounts(t, {query.date.name})
               money == MoneyAmounts(t, {query.date.name})
    <2>1. /\ query.kind = "revenue" /\ query.table = t /\ query.date \in Range(t.columns)
          /\ query.amount \in IF money # {} THEN money ELSE amounts
      BY <1>1, <1>5, RevenueRoles
    <2>2. amounts = Measures(t, query.date)
      BY <1>1, <2>1, OtherAmounts DEF Measures
    <2>3. money = {c \in Measures(t, query.date) : c.words \cap MoneyLike # {}}
      BY <2>2 DEF MoneyAmounts
    <2> HIDE DEF amounts, money
    <2> QED BY <2>1, <2>2, <2>3
  <1>6. query = Unsupported
            \/ (\E t \in T : query = countQuery(t))
            \/ (\E t \in T : query = absenceQuery(t))
            \/ (\E t \in T : query = revenueQuery(t))
    BY <1>1, QuestionIs, PlanIs
  <1> QED BY <1>2, <1>3, <1>4, <1>5, <1>6

(* Every query that is planned selects columns of its table in different   *)
(* roles and sums a measure, whatever the catalog.                         *)
THEOREM QueriesFitRolesAlways == Spec => []QueriesFitRoles
PROOF BY RolesFit, RoutingTypeCorrect, PTL

LEMMA PlansRevenue ==
    ASSUME TypeOK
    PROVE  RevenueIsPlanned
PROOF
  <1> SUFFICES ASSUME NEW question \in Questions,
                      question.phrases \cap MoneyPhrases # {},
                      question.phrases \cap (AbsencePhrases \cup CountPhrases) = {},
                      Plan(Tables, question).kind # "revenue",
                      NEW i \in DOMAIN Tables
               PROVE  LET date == pickTemporalColumn(Tables[i]) IN
                      date = NoColumn \/ Measures(Tables[i], date) = {}
    BY DEF RevenueIsPlanned
  <1> DEFINE T == Range(Tables)
             t == Tables[i]
             date == pickTemporalColumn(t)
             query == Plan(Tables, question)
  <1>1. Tables \in Seq(T) /\ \A table \in T : Table(table) /\ WellNamed(table)
    BY TablesAre
  <1>2. t \in T /\ Table(t) /\ WellNamed(t)
    BY <1>1 DEF Range
  <1>3. query = PlanRevenue(Tables)
    <2>1. /\ question.phrases \cap AbsencePhrases = {} /\ question.phrases \cap CountPhrases = {}
          /\ question.phrases \cap MoneyPhrases # {}
      OBVIOUS
    <2> QED BY <2>1 DEF Plan
  <1>4. query.kind # "revenue"
    OBVIOUS
  <1> HIDE DEF query, t
  <1>5. ASSUME NEW table \in T, query = revenueQuery(table), query # Unsupported
        PROVE  FALSE
    BY <1>1, <1>4, <1>5, RevenueRoles
  <1>6. revenueQuery(t) = Unsupported
    BY <1>1, <1>2, <1>3, <1>5, RevenuePlanned
  <1>7. date = NoColumn \/ Amounts(t, {date.name}) = {}
    BY <1>2, <1>6, NoRevenue
  <1>8. date = NoColumn \/ date \in Range(t.columns)
    BY <1>2, PickedDate
  <1>9. date \in Range(t.columns) => Amounts(t, {date.name}) = Measures(t, date)
    BY <1>2, OtherAmounts DEF Measures
  <1> QED BY <1>7, <1>8, <1>9 DEF t

(* A revenue question is planned whenever some table has a date and a      *)
(* measure, whatever the tables and their columns are called.              *)
THEOREM RevenueIsPlannedAlways == Spec => []RevenueIsPlanned
PROOF BY PlansRevenue, RoutingTypeCorrect, PTL

LEMMA RankingStable ==
    ASSUME TypeOK
    PROVE  RankingIsStable
PROOF
  <1> DEFINE T == Range(Tables)
  <1>1. Tables \in Seq(T) /\ IsInjective(Tables) /\ \A table \in T : Table(table)
    BY TablesAre
  <1>2. ASSUME NEW question \in Questions
        PROVE  LET ranked == rankedTables(Tables, question.words)
                   Place(table) == CHOOSE i \in DOMAIN Tables : Tables[i] = table
               IN  /\ Range(ranked) = {t \in Range(Tables) : Score(t, question.words) > 0}
                   /\ \A i, j \in DOMAIN ranked : i < j =>
                        LET a == Score(ranked[i], question.words)
                            b == Score(ranked[j], question.words)
                        IN  a > b \/ (a = b /\ Place(ranked[i]) < Place(ranked[j]))
    <2> DEFINE terms == question.words
               ranked == rankedTables(Tables, terms)
    <2>1. \A t \in T : Score(t, terms) \in Nat
      BY <1>1, QuestionIs, ScoresAreNat
    <2> HIDE DEF terms, T
    <2>2. ranked \in Seq(T) /\ StablyRanked(ranked, Tables, terms, Len(Tables))
      BY <1>1, <2>1, RankingOf
    <2> HIDE DEF ranked
    <2>3. DOMAIN ranked = 1..Len(ranked) /\ DOMAIN Tables = 1..Len(Tables)
      BY <1>1, <2>2, LenProperties
    <2>4. Range(ranked) = {t \in Range(Tables) : Score(t, terms) > 0}
      BY <2>2, <2>3 DEF StablyRanked, Scoring, Range
    <2>5. \A i, j \in DOMAIN ranked : i < j => Before(ranked[i], ranked[j], Tables, terms)
      BY <2>2, <2>3 DEF StablyRanked
    <2> QED BY <2>4, <2>5 DEF Before, PlaceIn, ranked, terms
  <1> QED BY <1>2 DEF RankingIsStable

(* The insertion sort of the planner is a stable sort, for any number of   *)
(* tables, any scores and any question.                                    *)
THEOREM RankingIsStableAlways == Spec => []RankingIsStable
PROOF BY RankingStable, RoutingTypeCorrect, PTL

-----------------------------------------------------------------------------
(* The fact store: finitely many facts, each under finitely many tokens. *)
Known(known) == IsFiniteSet(DOMAIN known) /\ \A key \in DOMAIN known : IsFiniteSet(key)

LEMMA KeyIsFinite ==
    ASSUME NEW W, NEW words \in Seq(W)
    PROVE  IsFiniteSet(factKey(words))
PROOF
  <1> DEFINE token == [i \in DOMAIN words |->
                          <<words[i], Cardinality({j \in 1..i : words[j] = words[i]})>>]
  <1>1. IsFiniteSet(DOMAIN words)
    <2>1. Len(words) \in Nat /\ DOMAIN words = 1..Len(words)
      BY LenProperties
    <2>2. 1 \in Int /\ Len(words) \in Int
      BY <2>1
    <2>3. IsFiniteSet(1..Len(words))
      BY <2>2, FS_Interval, Zenon
    <2> QED BY <2>1, <2>3
  <1>2. factKey(words) = {token[i] : i \in DOMAIN words}
    BY DEF factKey
  <1>3. token \in [DOMAIN words -> factKey(words)]
    BY <1>2
  <1> HIDE DEF token
  <1>4. token \in Surjection(DOMAIN words, factKey(words))
    BY <1>2, <1>3 DEF Surjection
  <1> QED BY <1>1, <1>4, FS_Surjection

LEMMA TokensAreFinite ==
    ASSUME NEW key, IsFiniteSet(key), NEW asked, IsFiniteSet(asked)
    PROVE  /\ IsFiniteSet(factContentTokens(key))
           /\ Cardinality(factContentTokens(key)) \in Nat
           /\ Matched(asked, factContentTokens(key)) \in Nat
PROOF
  <1>1. factContentTokens(key) \subseteq key
    BY DEF factContentTokens
  <1>2. IsFiniteSet(factContentTokens(key))
    BY <1>1, FS_Subset
  <1>3. IsFiniteSet(asked \cap factContentTokens(key))
    <2>1. asked \cap factContentTokens(key) \subseteq asked
      OBVIOUS
    <2> QED BY <2>1, FS_Subset
  <1> QED BY <1>2, <1>3, FS_CardinalityType DEF Matched

LEMMA FactsInit == Init => Known(facts)
PROOF
  <1>1. DOMAIN NoFacts = {}
    BY DEF NoFacts
  <1> QED BY <1>1, FS_EmptySet DEF Init, Known

LEMMA FactsTaught ==
    ASSUME NEW known, Known(known), NEW W, NEW words \in Seq(W), NEW answer
    PROVE  Known(TeachFact(known, words, answer))
PROOF
  <1> DEFINE after == TeachFact(known, words, answer)
  <1>1. DOMAIN after = DOMAIN known \cup {factKey(words)}
    BY DEF TeachFact
  <1> HIDE DEF after
  <1>2. IsFiniteSet(DOMAIN after)
    BY <1>1, FS_AddElement DEF Known
  <1>3. \A key \in DOMAIN after : IsFiniteSet(key)
    BY <1>1, KeyIsFinite DEF Known
  <1> QED BY <1>2, <1>3 DEF Known, after

LEMMA FactsStep == Known(facts) /\ [Next]_vars => Known(facts')
PROOF
  <1> SUFFICES ASSUME Known(facts), [Next]_vars PROVE Known(facts')
    OBVIOUS
  <1>1. ASSUME NEW question \in Teachable, NEW answer \in Corrections, Teach(question, answer)
        PROVE  Known(facts')
    <2>1. question.words \in Seq(STRING)
      BY RoutingAssumption
    <2> QED BY <1>1, <2>1, FactsTaught DEF Teach
  <1>2. ASSUME NEW question, Ask(question)
        PROVE  Known(facts')
    BY <1>2 DEF Ask
  <1>3. CASE RefreshCatalog
    <2>1. ASSUME NEW tables, Replace(tables) PROVE UNCHANGED facts
      BY <2>1 DEF Replace
    <2>2. UNCHANGED facts
      BY <1>3, <2>1 DEF RefreshCatalog, CreateTable, DropTable, AddColumn, DropColumn
    <2> QED BY <2>2
  <1>4. CASE UNCHANGED vars
    BY <1>4 DEF vars
  <1> QED BY <1>1, <1>2, <1>3, <1>4 DEF Next

-----------------------------------------------------------------------------
(* The search for the best fact, in one order of the map. *)
M(asked, key) == Matched(asked, factContentTokens(key))
S(key) == Cardinality(factContentTokens(key))
Better(asked, key, other) ==
    M(asked, key) > M(asked, other) \/ (M(asked, key) = M(asked, other) /\ S(key) < S(other))
Found(asked, known, key) ==
    [answer |-> known[key], matched |-> M(asked, key), specificity |-> S(key), found |-> TRUE]
Bests(known) ==
    {Nothing} \cup [answer : {known[key] : key \in DOMAIN known}, matched : Nat,
                    specificity : Nat, found : {TRUE}]

LEMMA KeepIs ==
    ASSUME NEW asked, NEW known, NEW best, NEW key
    PROVE  KeepBetter(asked, known, best, key) =
               IF factContentTokens(key) # {}
                  /\ (~best.found \/ M(asked, key) > best.matched
                      \/ (M(asked, key) = best.matched /\ S(key) < best.specificity))
               THEN Found(asked, known, key) ELSE best
PROOF BY DEF KeepBetter, M, S, Found

(* The loop as the model states it, and what it has found after n steps. *)
Search(asked, known, order) ==
    CHOOSE best : best = [n \in 0..Len(order) |->
        IF n = 0 THEN Nothing ELSE KeepBetter(asked, known, best[n - 1], order[n])]
SearchedSoFar(best, asked, known, order) ==
    /\ best[0] = Nothing
    /\ \A n \in 1..Len(order) : best[n] = KeepBetter(asked, known, best[n - 1], order[n])

LEMMA SearchSteps ==
    ASSUME NEW asked, IsFiniteSet(asked), NEW known, Known(known), NEW order \in Seq(DOMAIN known)
    PROVE  SearchedSoFar(Search(asked, known, order), asked, known, order)
PROOF
  <1> DEFINE N == Len(order)
             V == Bests(known)
             step == [n \in 1..N |-> [b \in V |-> KeepBetter(asked, known, b, order[n])]]
             none == Nothing
  <1>1. N \in Nat /\ \A n \in 1..N : order[n] \in DOMAIN known
    BY LenProperties, ElementOfSeq
  <1>2. none \in V
    BY DEF Bests
  <1>3. ASSUME NEW b \in V, NEW key \in DOMAIN known
        PROVE  KeepBetter(asked, known, b, key) \in V
    <2>1. M(asked, key) \in Nat /\ S(key) \in Nat
      BY TokensAreFinite DEF Known, M, S
    <2>2. Found(asked, known, key) \in V
      BY <2>1 DEF Found, Bests
    <2> QED BY <2>2, KeepIs
  <1>4. step \in [1..N -> [V -> V]]
    BY <1>1, <1>3
  <1>5. \A n \in 1..N : \A b \in V : step[n][b] = KeepBetter(asked, known, b, order[n])
    OBVIOUS
  <1> HIDE DEF step, N, V, none
  <1>6. PICK r \in [0..N -> V] : r[0] = none /\ \A i \in 1..N : r[i] = step[i][r[i - 1]]
    <2>1. N \in Nat
      BY <1>1
    <2>2. \E r \in [0..N -> V] : StepByStep(r, none, N, step)
      BY <1>2, <1>4, <2>1, RecursionExists, Zenon
    <2> QED BY <2>2 DEF StepByStep
  <1> DEFINE next(g, n) == IF n = 0 THEN none ELSE KeepBetter(asked, known, g[n - 1], order[n])
             Is(g) == g = [n \in 0..N |-> next(g, n)]
             best == CHOOSE g : Is(g)
  <1>7. Is(r)
    <2> DEFINE h == [n \in 0..N |-> next(r, n)]
    <2>1. \A n \in 0..N : r[n] = next(r, n)
      <3> TAKE n \in 0..N
      <3>1. CASE n = 0
        BY <1>6, <3>1
      <3>2. CASE n # 0
        <4>1. n \in 1..N /\ n - 1 \in 0..N /\ r[n - 1] \in V
          BY <1>1, <3>2
        <4> QED BY <1>5, <1>6, <3>2, <4>1
      <3> QED BY <3>1, <3>2
    <2> HIDE DEF next
    <2>2. r = [n \in 0..N |-> r[n]]
      OBVIOUS
    <2> QED BY <2>1, <2>2
  <1>8. Is(best)
    <2> HIDE DEF Is
    <2> QED BY <1>7
  <1>9. \A n \in 0..N : best[n] = next(best, n)
    <2> HIDE DEF best, next
    <2> QED BY <1>8
  <1>10. Search(asked, known, order) = best
    BY DEF Search, N, none
  <1> HIDE DEF best, Is
  <1>11. best[0] = none /\ \A n \in 1..N : best[n] = KeepBetter(asked, known, best[n - 1], order[n])
    BY <1>1, <1>9
  <1> QED BY <1>10, <1>11 DEF SearchedSoFar, N, none

(* After n of the keys: the first of the best of them, nothing if none has *)
(* a token that counts.                                                    *)
BestOf(best, asked, known, order, n) ==
    \/ best = Nothing /\ \A i \in 1..n : factContentTokens(order[i]) = {}
    \/ \E i \in 1..n :
        /\ factContentTokens(order[i]) # {} /\ best = Found(asked, known, order[i])
        /\ \A j \in 1..n : factContentTokens(order[j]) # {} => ~Better(asked, order[j], order[i])

LEMMA SearchFindsBest ==
    ASSUME NEW asked, IsFiniteSet(asked), NEW known, Known(known), NEW order \in Seq(DOMAIN known)
    PROVE  BestOf(Search(asked, known, order)[Len(order)], asked, known, order, Len(order))
PROOF
  <1> DEFINE N == Len(order)
             best == Search(asked, known, order)
             bad == {n \in 0..N : ~BestOf(best[n], asked, known, order, n)}
  <1>1. N \in Nat /\ \A n \in 1..N : order[n] \in DOMAIN known
    BY LenProperties, ElementOfSeq
  <1>2. best[0] = Nothing /\ \A n \in 1..N : best[n] = KeepBetter(asked, known, best[n - 1], order[n])
    BY SearchSteps DEF SearchedSoFar
  <1>3. \A n \in 1..N : M(asked, order[n]) \in Nat /\ S(order[n]) \in Nat
    BY <1>1, TokensAreFinite DEF Known, M, S
  <1> HIDE DEF N, best
  <1>4. BestOf(best[0], asked, known, order, 0)
    BY <1>2 DEF BestOf
  <1>5. ASSUME NEW n \in 1..N, BestOf(best[n - 1], asked, known, order, n - 1)
        PROVE  BestOf(best[n], asked, known, order, n)
    <2> DEFINE b == best[n - 1]
               key == order[n]
    <2>1. best[n] = IF factContentTokens(key) # {}
                       /\ (~b.found \/ M(asked, key) > b.matched
                           \/ (M(asked, key) = b.matched /\ S(key) < b.specificity))
                    THEN Found(asked, known, key) ELSE b
      BY <1>2, KeepIs
    <2>2. n \in 1..n /\ 1..n - 1 \subseteq 1..n /\ \A i \in 1..n : i \in 1..n - 1 \/ i = n
      BY <1>1
    <2>3. \A i \in 1..n : i \in 1..N
      BY <1>1
    <2> HIDE DEF b
    <2>4. CASE b = Nothing /\ \A i \in 1..n - 1 : factContentTokens(order[i]) = {}
      <3>1. ~b.found
        BY <2>4 DEF Nothing
      <3>2. CASE factContentTokens(key) = {}
        <4>1. best[n] = Nothing
          BY <2>1, <2>4, <3>2
        <4> QED BY <2>2, <2>4, <3>2, <4>1 DEF BestOf
      <3>3. CASE factContentTokens(key) # {}
        <4>1. best[n] = Found(asked, known, key)
          BY <2>1, <3>1, <3>3
        <4>2. \A j \in 1..n : factContentTokens(order[j]) # {} => j = n
          BY <2>2, <2>4
        <4>3. ~Better(asked, key, key)
          BY <1>3 DEF Better
        <4> QED BY <2>2, <3>3, <4>1, <4>2, <4>3 DEF BestOf
      <3> QED BY <3>2, <3>3
    <2>5. ASSUME NEW i \in 1..n - 1,
                 factContentTokens(order[i]) # {}, b = Found(asked, known, order[i]),
                 \A j \in 1..n - 1 : factContentTokens(order[j]) # {} => ~Better(asked, order[j], order[i])
          PROVE  BestOf(best[n], asked, known, order, n)
      <3>1. b.found /\ b.matched = M(asked, order[i]) /\ b.specificity = S(order[i])
        BY <2>5 DEF Found
      <3>2. best[n] = IF factContentTokens(key) # {} /\ Better(asked, key, order[i])
                      THEN Found(asked, known, key) ELSE b
        BY <2>1, <3>1 DEF Better
      <3>3. CASE factContentTokens(key) # {} /\ Better(asked, key, order[i])
        <4>1. ASSUME NEW j \in 1..n, factContentTokens(order[j]) # {}
              PROVE  ~Better(asked, order[j], key)
          <5>1. /\ M(asked, order[j]) \in Nat /\ S(order[j]) \in Nat
                /\ M(asked, order[i]) \in Nat /\ S(order[i]) \in Nat
                /\ M(asked, key) \in Nat /\ S(key) \in Nat
            BY <1>3, <2>2, <2>3
          <5>2. CASE j = n
            BY <5>1, <5>2 DEF Better
          <5>3. CASE j \in 1..n - 1
            <6>1. ~Better(asked, order[j], order[i])
              BY <2>5, <4>1, <5>3
            <6> QED BY <3>3, <5>1, <6>1 DEF Better
          <5> QED BY <2>2, <5>2, <5>3
        <4> QED BY <2>2, <3>2, <3>3, <4>1 DEF BestOf
      <3>4. CASE ~(factContentTokens(key) # {} /\ Better(asked, key, order[i]))
        <4>1. best[n] = Found(asked, known, order[i])
          BY <2>5, <3>2, <3>4
        <4>2. \A j \in 1..n : factContentTokens(order[j]) # {} => ~Better(asked, order[j], order[i])
          BY <2>2, <2>5, <3>4
        <4>3. i \in 1..n
          BY <2>2
        <4> QED BY <2>5, <4>1, <4>2, <4>3 DEF BestOf
      <3> QED BY <3>3, <3>4
    <2> QED BY <1>5, <2>4, <2>5 DEF BestOf, b
  <1>6. bad = {}
    <2> SUFFICES ASSUME bad # {} PROVE FALSE
      OBVIOUS
    <2>1. bad \subseteq Nat
      BY <1>1
    <2>2. PICK m \in bad : \A k \in bad : m <= k
      BY <2>1, LeastNatural
    <2>3. m \in 1..N /\ m - 1 \in 0..N /\ ~(m <= m - 1)
      BY <1>1, <1>4, <2>2
    <2>4. BestOf(best[m - 1], asked, known, order, m - 1)
      BY <2>2, <2>3
    <2> QED BY <1>5, <2>2, <2>3, <2>4
  <1>7. N \in 0..N
    BY <1>1
  <1> QED BY <1>6, <1>7 DEF N, best

(* A key that no other is better than stays, once it is found first. *)
LEMMA FirstBestStays ==
    ASSUME NEW asked, IsFiniteSet(asked), NEW known, Known(known), NEW order \in Seq(DOMAIN known),
           NEW key, Len(order) # 0, order[1] = key, factContentTokens(key) # {},
           \A other \in DOMAIN known : factContentTokens(other) # {} => ~Better(asked, other, key)
    PROVE  Search(asked, known, order)[Len(order)] = Found(asked, known, key)
PROOF
  <1> DEFINE N == Len(order)
             best == Search(asked, known, order)
             bad == {n \in 1..N : best[n] # Found(asked, known, key)}
  <1>1. N \in Nat /\ \A n \in 1..N : order[n] \in DOMAIN known
    BY LenProperties, ElementOfSeq
  <1>2. best[0] = Nothing /\ \A n \in 1..N : best[n] = KeepBetter(asked, known, best[n - 1], order[n])
    BY SearchSteps DEF SearchedSoFar
  <1> HIDE DEF N, best
  <1>3. best[1] = Found(asked, known, key)
    <2>1. 1 \in 1..N /\ 1 - 1 = 0
      BY <1>1 DEF N
    <2>2. best[1] = KeepBetter(asked, known, Nothing, key)
      BY <1>2, <2>1
    <2>3. ~Nothing.found
      BY DEF Nothing
    <2> QED BY <2>2, <2>3, KeepIs
  <1>4. ASSUME NEW n \in 2..N, best[n - 1] = Found(asked, known, key)
        PROVE  best[n] = Found(asked, known, key)
    <2>1. n \in 1..N /\ order[n] \in DOMAIN known
      BY <1>1
    <2>2. best[n] = KeepBetter(asked, known, Found(asked, known, key), order[n])
      BY <1>2, <1>4, <2>1
    <2>3. LET b == Found(asked, known, key) IN
          b.found /\ b.matched = M(asked, key) /\ b.specificity = S(key)
      BY DEF Found
    <2>4. factContentTokens(order[n]) # {} => ~Better(asked, order[n], key)
      BY <2>1
    <2> QED BY <2>2, <2>3, <2>4, KeepIs DEF Better
  <1>5. bad = {}
    <2> SUFFICES ASSUME bad # {} PROVE FALSE
      OBVIOUS
    <2>1. bad \subseteq Nat
      BY <1>1
    <2>2. PICK m \in bad : \A k \in bad : m <= k
      BY <2>1, LeastNatural
    <2>3. m # 1
      BY <1>3, <2>2
    <2>4. m \in 2..N /\ m - 1 \in 1..N /\ ~(m <= m - 1)
      BY <1>1, <2>2, <2>3
    <2>5. best[m - 1] = Found(asked, known, key)
      BY <2>2, <2>4
    <2> QED BY <1>4, <2>2, <2>4, <2>5
  <1>6. N \in 1..N
    BY <1>1 DEF N
  <1> QED BY <1>5, <1>6 DEF N, best

-----------------------------------------------------------------------------
(* The facts that answer: of the best ones those that cover enough. *)
Keys(known) == {k \in DOMAIN known : factContentTokens(k) # {}}
BestKeys(asked, known) ==
    {k \in Keys(known) : \A other \in Keys(known) :
        \/ M(asked, k) > M(asked, other)
        \/ M(asked, k) = M(asked, other) /\ S(k) <= S(other)}
Enough(asked, known) ==
    {k \in BestKeys(asked, known) : asked # {} /\ 10 * M(asked, k) >= 6 * Cardinality(asked)}
Answers(asked, known) ==
    IF Enough(asked, known) = {} THEN {""} ELSE {known[k] : k \in Enough(asked, known)}

LEMMA BestIsUnbeaten ==
    ASSUME NEW asked, IsFiniteSet(asked), NEW known, Known(known), NEW k \in Keys(known)
    PROVE  k \in BestKeys(asked, known) <=> \A other \in Keys(known) : ~Better(asked, other, k)
PROOF
  <1>1. \A o \in Keys(known) : M(asked, o) \in Nat /\ S(o) \in Nat
    BY TokensAreFinite DEF Keys, Known, M, S
  <1>2. \A o \in Keys(known) :
            ~Better(asked, o, k) <=> \/ M(asked, k) > M(asked, o)
                                     \/ M(asked, k) = M(asked, o) /\ S(k) <= S(o)
    <2> TAKE o \in Keys(known)
    <2>1. M(asked, o) \in Nat /\ S(o) \in Nat /\ M(asked, k) \in Nat /\ S(k) \in Nat
      BY <1>1
    <2> QED BY <2>1 DEF Better
  <1> QED BY <1>2 DEF BestKeys

(* What the loop ends with in one order. *)
Outcome(asked, known, order) ==
    LET final == Search(asked, known, order)[Len(order)] IN
    IF 10 * final.matched >= 6 * Cardinality(asked) THEN final.answer ELSE ""

LEMMA OutcomeIs ==
    ASSUME NEW asked, IsFiniteSet(asked), asked # {}, NEW known, Known(known),
           NEW order \in SetToSeqs(DOMAIN known)
    PROVE  Outcome(asked, known, order) \in Answers(asked, known)
PROOF
  <1> DEFINE final == Search(asked, known, order)[Len(order)]
             N == Len(order)
  <1>1. /\ order \in Seq(DOMAIN known) /\ N \in Nat
        /\ \A key \in DOMAIN known : \E i \in 1..N : order[i] = key
        /\ \A i \in 1..N : order[i] \in DOMAIN known
    BY OrderIs, LenProperties, ElementOfSeq DEF Known
  <1>2. BestOf(final, asked, known, order, N)
    BY <1>1, SearchFindsBest
  <1>3. Cardinality(asked) \in Nat /\ Cardinality(asked) > 0
    BY FS_CardinalityType, FS_EmptySet
  <1>4. Outcome(asked, known, order) =
            IF 10 * final.matched >= 6 * Cardinality(asked) THEN final.answer ELSE ""
    BY DEF Outcome
  <1> HIDE DEF final, N
  <1>5. CASE final = Nothing /\ \A i \in 1..N : factContentTokens(order[i]) = {}
    <2>1. Keys(known) = {}
      BY <1>1, <1>5 DEF Keys
    <2>2. Enough(asked, known) = {}
      BY <2>1 DEF Enough, BestKeys
    <2>3. final.matched = 0
      BY <1>5 DEF Nothing
    <2>4. ~(10 * final.matched >= 6 * Cardinality(asked))
      BY <1>3, <2>3
    <2> QED BY <1>4, <2>2, <2>4 DEF Answers
  <1>6. ASSUME NEW i \in 1..N,
               factContentTokens(order[i]) # {}, final = Found(asked, known, order[i]),
               \A j \in 1..N : factContentTokens(order[j]) # {} => ~Better(asked, order[j], order[i])
        PROVE  Outcome(asked, known, order) \in Answers(asked, known)
    <2> DEFINE key == order[i]
    <2>1. key \in Keys(known) /\ final.matched = M(asked, key) /\ final.answer = known[key]
      BY <1>1, <1>6 DEF Keys, Found
    <2>2. \A other \in Keys(known) : ~Better(asked, other, key)
      BY <1>1, <1>6 DEF Keys
    <2>3. key \in BestKeys(asked, known)
      BY <2>1, <2>2, BestIsUnbeaten
    <2> HIDE DEF key
    <2>4. CASE 10 * M(asked, key) >= 6 * Cardinality(asked)
      BY <1>4, <2>1, <2>3, <2>4 DEF Enough, Answers
    <2>5. CASE ~(10 * M(asked, key) >= 6 * Cardinality(asked))
      <3>1. \A k \in BestKeys(asked, known) : M(asked, k) = M(asked, key)
        <4> TAKE k \in BestKeys(asked, known)
        <4>1. k \in Keys(known)
          BY DEF BestKeys
        <4>2. M(asked, k) \in Nat /\ M(asked, key) \in Nat
          BY <2>1, <4>1, TokensAreFinite DEF Keys, Known, M
        <4>3. M(asked, k) > M(asked, key) \/ M(asked, k) = M(asked, key)
          BY <2>1 DEF BestKeys
        <4>4. M(asked, key) > M(asked, k) \/ M(asked, key) = M(asked, k)
          BY <2>3, <4>1 DEF BestKeys
        <4> QED BY <4>2, <4>3, <4>4
      <3>2. Enough(asked, known) = {}
        BY <2>5, <3>1 DEF Enough
      <3> QED BY <1>4, <2>1, <2>5, <3>2 DEF Answers
    <2> QED BY <2>4, <2>5
  <1> QED BY <1>2, <1>5, <1>6 DEF BestOf, N

(* Whatever the order of the map, only the best facts answer, and each of  *)
(* them does in some order.                                                *)
LEMMA FuzzyIs ==
    ASSUME NEW known, Known(known), NEW W, NEW words \in Seq(W)
    PROVE  Fuzzy(known, words) = Answers(factContentTokens(factKey(words)), known)
PROOF
  <1> DEFINE asked == factContentTokens(factKey(words))
             D == DOMAIN known
  <1>1. IsFiniteSet(asked)
    BY KeyIsFinite, TokensAreFinite
  <1>2. Fuzzy(known, words) = IF asked = {} THEN {""}
                              ELSE {Outcome(asked, known, order) : order \in SetToSeqs(D)}
    BY DEF Fuzzy, Outcome, Search
  <1> HIDE DEF asked
  <1>3. ASSUME asked = {}
        PROVE  Fuzzy(known, words) = Answers(asked, known)
    BY <1>2, <1>3 DEF Answers, Enough
  <1>4. ASSUME asked # {}
        PROVE  Fuzzy(known, words) = Answers(asked, known)
    <2>1. \A order \in SetToSeqs(D) : Outcome(asked, known, order) \in Answers(asked, known)
      BY <1>1, <1>4, OutcomeIs
    <2>2. ASSUME Enough(asked, known) = {}
          PROVE  \E order \in SetToSeqs(D) : Outcome(asked, known, order) = ""
      <3>1. PICK order : order \in SetToSeqs(D)
        BY OrderExists DEF Known
      <3> QED BY <2>1, <2>2, <3>1 DEF Answers
    <2>3. ASSUME NEW key \in Enough(asked, known)
          PROVE  \E order \in SetToSeqs(D) : Outcome(asked, known, order) = known[key]
      <3>1. /\ key \in BestKeys(asked, known) /\ key \in Keys(known) /\ key \in D
            /\ factContentTokens(key) # {} /\ 10 * M(asked, key) >= 6 * Cardinality(asked)
        BY DEF Enough, BestKeys, Keys
      <3>2. PICK order \in SetToSeqs(D) : order[1] = key
        BY <3>1, OrderExists DEF Known
      <3>3. order \in Seq(D) /\ Len(order) # 0
        <4>1. order \in Seq(D) /\ \E i \in 1..Len(order) : order[i] = key
          BY <3>1, OrderIs DEF Known
        <4> QED BY <4>1
      <3>4. \A other \in D : factContentTokens(other) # {} => ~Better(asked, other, key)
        BY <1>1, <3>1, BestIsUnbeaten DEF Keys
      <3>5. Search(asked, known, order)[Len(order)] = Found(asked, known, key)
        BY <1>1, <3>1, <3>2, <3>3, <3>4, FirstBestStays
      <3>6. Outcome(asked, known, order) = known[key]
        BY <3>1, <3>5 DEF Outcome, Found
      <3> QED BY <3>6
    <2>4. Answers(asked, known) \subseteq {Outcome(asked, known, order) : order \in SetToSeqs(D)}
      BY <2>2, <2>3 DEF Answers
    <2> QED BY <1>2, <1>4, <2>1, <2>4
  <1> QED BY <1>3, <1>4 DEF asked

LEMMA BestFacts ==
    ASSUME Known(facts)
    PROVE  FactIsTheBest
PROOF
  <1> SUFFICES ASSUME NEW question \in Questions, factKey(question.words) \notin DOMAIN facts
               PROVE  Fact(facts, question.words) =
                          Answers(factContentTokens(factKey(question.words)), facts)
    BY DEF FactIsTheBest, Answers, Enough, BestKeys, Keys, M, S
  <1>1. Fact(facts, question.words) = Fuzzy(facts, question.words)
    BY DEF Fact
  <1> QED BY <1>1, QuestionIs, FuzzyIs

(* However many facts are taught, those with the most coverage and then    *)
(* the fewest tokens answer, in whatever order Go visits the map.          *)
THEOREM FactIsTheBestAlways == Spec => []FactIsTheBest
PROOF
  <1> DEFINE Inv == Known(facts)
  <1>1. Inv /\ [Next]_vars => Inv'
    BY FactsStep
  <1>2. Init => Inv
    BY FactsInit
  <1>3. Inv => FactIsTheBest
    BY BestFacts
  <1> HIDE DEF Inv
  <1> QED BY <1>1, <1>2, <1>3, PTL DEF Spec

-----------------------------------------------------------------------------
(* Questions without a common word have no common token. *)
LEMMA TokenIsWord ==
    ASSUME NEW words, NEW token \in factKey(words)
    PROVE  token[1] \in Range(words)
PROOF
  <1> DEFINE Likes(i) == Cardinality({j \in 1..i : words[j] = words[i]})
  <1>1. PICK i \in DOMAIN words : token = <<words[i], Likes(i)>>
    BY DEF factKey
  <1> HIDE DEF Likes
  <1>2. token[1] = words[i]
    BY <1>1
  <1> QED BY <1>2 DEF Range

LEMMA UnrelatedTokens ==
    ASSUME NEW W, NEW taught \in Seq(W), taught # << >>, NEW other,
           Range(taught) \cap Range(other) = {}
    PROVE  /\ factKey(taught) # factKey(other)
           /\ M(factContentTokens(factKey(other)), factKey(taught)) = 0
PROOF
  <1>1. factKey(taught) \cap factKey(other) = {}
    BY TokenIsWord
  <1>2. factKey(taught) # {}
    <2>1. 1 \in DOMAIN taught
      BY LenProperties, EmptySeq
    <2> QED BY <2>1 DEF factKey
  <1>3. factContentTokens(factKey(other)) \cap factContentTokens(factKey(taught)) = {}
    BY <1>1 DEF factContentTokens
  <1>4. Cardinality({}) = 0
    BY FS_EmptySet
  <1> QED BY <1>1, <1>2, <1>3, <1>4 DEF M, Matched

(* A fact that covers nothing of what is asked changes nothing. *)
LEMMA EnoughStays ==
    ASSUME NEW asked, IsFiniteSet(asked), NEW known, Known(known), NEW after, NEW key,
           DOMAIN after = DOMAIN known \cup {key}, M(asked, key) = 0
    PROVE  Enough(asked, after) = Enough(asked, known) /\ key \notin Enough(asked, known)
PROOF
  <1>1. CASE asked = {}
    BY <1>1 DEF Enough
  <1>2. CASE asked # {}
    <2>1. Cardinality(asked) \in Nat /\ Cardinality(asked) > 0
      BY <1>2, FS_CardinalityType, FS_EmptySet
    <2>2. Keys(known) \subseteq Keys(after) /\ Keys(after) \subseteq Keys(known) \cup {key}
      BY DEF Keys
    <2>3. \A k \in Keys(known) : M(asked, k) \in Nat
      BY TokensAreFinite DEF Keys, Known, M
    <2>4. ASSUME NEW k, 10 * M(asked, k) >= 6 * Cardinality(asked) PROVE k # key
      <3>1. ~(10 * 0 >= 6 * Cardinality(asked))
        BY <2>1
      <3> QED BY <2>4, <3>1
    <2>5. ASSUME NEW k \in Enough(asked, after) PROVE k \in Enough(asked, known)
      <3>1. k \in BestKeys(asked, after) /\ k # key
        BY <2>4 DEF Enough
      <3>2. k \in BestKeys(asked, known)
        BY <2>2, <3>1 DEF BestKeys
      <3> QED BY <3>2 DEF Enough
    <2>6. ASSUME NEW k \in Enough(asked, known) PROVE k \in Enough(asked, after) /\ k # key
      <3>1. k \in BestKeys(asked, known) /\ k \in Keys(known)
            /\ 10 * M(asked, k) >= 6 * Cardinality(asked)
        BY DEF Enough, BestKeys
      <3>2. M(asked, k) > M(asked, key)
        <4>1. M(asked, k) \in Nat
          BY <2>3, <3>1
        <4> QED BY <2>1, <3>1, <4>1
      <3>3. k \in BestKeys(asked, after)
        BY <2>2, <3>1, <3>2 DEF BestKeys
      <3> QED BY <1>2, <2>4, <3>1, <3>3 DEF Enough
    <2> QED BY <2>5, <2>6
  <1> QED BY <1>1, <1>2

LEMMA UnrelatedFact ==
    ASSUME NEW known, Known(known), NEW W, NEW taught \in Seq(W), taught # << >>,
           NEW U, NEW other \in Seq(U), Range(taught) \cap Range(other) = {}, NEW answer
    PROVE  Fact(TeachFact(known, taught, answer), other) = Fact(known, other)
PROOF
  <1> DEFINE after == TeachFact(known, taught, answer)
             key == factKey(taught)
             asked == factContentTokens(factKey(other))
  <1>1. key # factKey(other) /\ M(asked, key) = 0
    BY UnrelatedTokens
  <1>2. /\ DOMAIN after = DOMAIN known \cup {key}
        /\ \A k \in DOMAIN known : k # key => after[k] = known[k]
    BY DEF TeachFact
  <1>3. Known(after) /\ IsFiniteSet(asked)
    BY FactsTaught, KeyIsFinite, TokensAreFinite
  <1>4. Fuzzy(after, other) = Answers(asked, after) /\ Fuzzy(known, other) = Answers(asked, known)
    BY <1>3, FuzzyIs
  <1> HIDE DEF after, key, asked
  <1>5. CASE factKey(other) \in DOMAIN known
    BY <1>1, <1>2, <1>5 DEF Fact, after
  <1>6. CASE factKey(other) \notin DOMAIN known
    <2>1. Enough(asked, after) = Enough(asked, known) /\ key \notin Enough(asked, known)
      BY <1>1, <1>2, <1>3, EnoughStays
    <2>2. \A k \in Enough(asked, known) : k \in DOMAIN known /\ k # key
      BY <2>1 DEF Enough, BestKeys, Keys
    <2>3. \A k \in Enough(asked, known) : after[k] = known[k]
      BY <1>2, <2>2
    <2>4. Answers(asked, after) = Answers(asked, known)
      BY <2>1, <2>3 DEF Answers
    <2>5. factKey(other) \notin DOMAIN after
      BY <1>1, <1>2, <1>6
    <2> QED BY <1>4, <1>6, <2>4, <2>5 DEF Fact, after
  <1> QED BY <1>5, <1>6

(* Teaching leaves the answers to unrelated questions as they were. *)
THEOREM UnrelatedStayAlways == Spec => UnrelatedStay
PROOF
  <1> DEFINE A == \A taught \in Teachable, answer \in Corrections : Teach(taught, answer) =>
                     \A other \in Questions :
                        taught.words # << >> /\ Range(taught.words) \cap Range(other.words) = {} =>
                            Fact(facts', other.words) = Fact(facts, other.words)
             Inv == Known(facts)
  <1>1. Inv => A
    <2> SUFFICES ASSUME Inv, NEW taught \in Teachable, NEW answer \in Corrections,
                        Teach(taught, answer), NEW other \in Questions, taught.words # << >>,
                        Range(taught.words) \cap Range(other.words) = {}
                 PROVE  Fact(facts', other.words) = Fact(facts, other.words)
      OBVIOUS
    <2>1. facts' = TeachFact(facts, taught.words, answer)
      BY DEF Teach
    <2>2. taught \in Questions
      BY RoutingAssumption
    <2>3. taught.words \in Seq(STRING) /\ other.words \in Seq(STRING)
      BY <2>2, QuestionIs
    <2> QED BY <2>1, <2>3, UnrelatedFact
  <1>2. Inv /\ [Next]_vars => Inv'
    BY FactsStep
  <1>3. Init => Inv
    BY FactsInit
  <1>4. Inv /\ [Next]_vars => [A]_vars
    BY <1>1
  <1> HIDE DEF Inv
  <1> QED BY <1>2, <1>3, <1>4, PTL DEF Spec, UnrelatedStay
=============================================================================
