------------------------------ MODULE Planner ------------------------------
(***************************************************************************)
(* The planner of database/data_assistant.go: from the catalog and a       *)
(* question to one query, or to none.                                      *)
(*                                                                         *)
(* Names are matched by strings.Contains.  A name is therefore known by    *)
(* `words`, the search terms that occur in it, whole words or not, and by  *)
(* `ends`, how it ends.  A type is the set of kinds that its name matches. *)
(* A question is the trigger phrases that occur in it and its words.       *)
(* PrimaryKey is left out: loadColumns never sets it.                      *)
(***************************************************************************)
EXTENDS Integers, SequencesExt

CONSTANTS Singular(_)   \* strings.TrimSuffix(term, "s")

AbsencePhrases == {"absent", "absence", "attendance"}
CountPhrases == {"how many", "count", "number of"}
MoneyPhrases == {"money", "revenue", "income", "sales", "payment", "paid", "amount", "how much",
                 "total", "sum", "earned", "spent"}

NoColumn == [name |-> "", type |-> {}, words |-> {}, ends |-> ""]
Unsupported == [kind |-> "unsupported"]     \* ErrUnsupportedDataQuestion

-----------------------------------------------------------------------------
(* The places of the tables that there are, in the order of their names. *)
InOrder(places) ==
    CHOOSE s \in [1..Cardinality(places) -> places] :
        \A i, j \in DOMAIN s : i < j => s[i] < s[j]

(* Every "for ... if ... return" is the first element of s that is in S. *)
First(s, S) == s[SelectInSeq(s, LAMBDA e : e \in S)]
FirstOr(s, S, default) == IF Range(s) \cap S = {} THEN default ELSE First(s, S)

(* Column roles. *)
isIDColumn(column) == column.ends = "_id" \/ column.name = "id"

pickTemporalColumn(table) ==
    LET columns == table.columns
        typed == {c \in Range(columns) : "temporal" \in c.type}
        named == {c \in Range(columns) : c.words \cap {"date", "time", "_at"} # {}}
    IN  FirstOr(columns, typed, FirstOr(columns, named, NoColumn))

MoneyLike == {"amount", "price", "fee", "cost", "value", "salary", "payment", "revenue",
              "income", "total", "sum"}

pickAmountColumn(table, skipped) ==
    LET columns == table.columns
        numeric == {c \in Range(columns) :
                        "numeric" \in c.type /\ ~isIDColumn(c) /\ c.name \notin skipped}
        money == {c \in numeric : c.words \cap MoneyLike # {}}
    IN  FirstOr(columns, money, FirstOr(columns, numeric, NoColumn))

(* The loops that keep the best column so far: the first of those with the *)
(* highest score, none if no score is positive.                            *)
Best(columns, score) ==
    FirstOr(columns, {c \in Range(columns) :
                /\ score[c] > 0
                /\ \A other \in Range(columns) : score[other] <= score[c]}, NoColumn)

PersonWords == {"name", "full name", "fullname", "first name", "last name", "employee", "staff",
                "person", "user", "student", "customer", "client", "member"}
PersonScore(c) ==
    5 * Cardinality(c.words \cap PersonWords)
        + (IF "text" \in c.type THEN 1 ELSE 0) + (IF c.ends \in {"_id", "id"} THEN 2 ELSE 0)
pickPersonColumn(table, skipped) ==
    Best(table.columns, [c \in Range(table.columns) |->
                            IF c.name \in skipped THEN 0 ELSE PersonScore(c)])

StatusWords == {"status", "state", "reason", "type", "flag", "mark", "result"}
StatusScore(c) == 3 * Cardinality(c.words \cap StatusWords)
pickStatusOverlapping(table, skipped) ==
    LET texts == {c \in Range(table.columns) : "text" \in c.type}
        best == Best(table.columns, [c \in Range(table.columns) |->
                                        IF c \in texts THEN StatusScore(c) ELSE 0])
    IN  IF best # NoColumn THEN best ELSE FirstOr(table.columns, texts, NoColumn)
pickStatusColumn(table, skipped) ==
    LET texts == {c \in Range(table.columns) : "text" \in c.type /\ c.name \notin skipped}
        best == Best(table.columns, [c \in Range(table.columns) |->
                                        IF c \in texts THEN StatusScore(c) ELSE 0])
    IN  IF best # NoColumn THEN best ELSE FirstOr(table.columns, texts, NoColumn)

-----------------------------------------------------------------------------
(* Tables ranked by the terms in their names (4) and in their columns (1). *)
Score(table, terms) ==
    4 * Cardinality({i \in DOMAIN terms : Singular(terms[i]) \in table.words})
        + Cardinality({p \in (DOMAIN terms) \X DOMAIN table.columns :
                            Singular(terms[p[1]]) \in table.columns[p[2]].words})

(* The insertion sort: a table goes from the end to the front of those     *)
(* that score less.                                                        *)
InsertBeforeEqual(sorted, table, terms) ==
    LET ahead == SelectLastInSeq(sorted, LAMBDA t : Score(t, terms) > Score(table, terms)) IN
    InsertAt(sorted, ahead + 1, table)
Insert(sorted, table, terms) ==
    LET ahead == SelectLastInSeq(sorted, LAMBDA t : Score(t, terms) >= Score(table, terms)) IN
    InsertAt(sorted, ahead + 1, table)
rankedTables(tables, terms) ==
    LET ranked[n \in 0..Len(tables)] ==
            IF n = 0 THEN << >>
            ELSE IF Score(tables[n], terms) = 0 THEN ranked[n - 1]
            ELSE Insert(ranked[n - 1], tables[n], terms)
    IN  ranked[Len(tables)]

tableSynonyms ==
    [staff |-> <<"employee", "person", "worker", "human">>,
     people |-> <<"employee", "person", "customer", "client">>,
     workers |-> <<"employee", "person", "staff">>,
     client |-> <<"customer", "person">>,
     clients |-> <<"customer", "client">>,
     receipts |-> <<"payment", "transaction", "invoice">>,
     orders |-> <<"order", "sale">>,
     sales |-> <<"payment", "transaction", "invoice", "sale", "order">>,
     buyers |-> <<"customer", "client">>,
     purchases |-> <<"payment", "transaction", "order">>]

(* The best ranked table of the terms, else what was found for the synonyms*)
(* of the first term for which there was any; << >> stands for no table.   *)
BestOr(tables, terms, found) ==
    LET ranked == rankedTables(tables, terms)
        helped == {term \in DOMAIN tableSynonyms : found[tableSynonyms[term]] # << >>}
    IN  IF ranked # << >> THEN <<Head(ranked)>>
        ELSE IF Range(terms) \cap helped = {} THEN << >>
        ELSE found[tableSynonyms[First(terms, helped)]]

(* The call is recursive.  The synonyms of a question's words may have     *)
(* synonyms themselves, these have none.                                   *)
bestTable(tables, words) ==
    LET none == [terms \in Range(tableSynonyms) |-> << >>]
        last == [terms \in Range(tableSynonyms) |-> BestOr(tables, terms, none)]
        next == [terms \in Range(tableSynonyms) |-> BestOr(tables, terms, last)]
    IN  BestOr(tables, words, next)

-----------------------------------------------------------------------------
(* Queries.  Their text is left out: each begins with SELECT, as           *)
(* ValidateReadOnlyQuery wants, and quotes every name.                     *)
dateExpression(column) ==
    IF "created" \in column.words \/ column.ends = "_at" THEN "timestamp" ELSE "date"

absenceQuery(table) ==
    LET date == pickTemporalColumn(table)
        name == pickPersonColumn(table, {date.name})
        status == pickStatusColumn(table, {date.name, name.name})
    IN  IF NoColumn \in {date, name} THEN Unsupported
        ELSE [kind |-> "absence", table |-> table, date |-> date, name |-> name,
              status |-> status, since |-> dateExpression(date)]

revenueQuery(table) ==
    LET date == pickTemporalColumn(table)
        amount == pickAmountColumn(table, {date.name})
    IN  IF NoColumn \in {date, amount} THEN Unsupported
        ELSE [kind |-> "revenue", table |-> table, date |-> date, amount |-> amount,
              since |-> dateExpression(date)]

countQuery(table) == [kind |-> "count", table |-> table]

AbsenceTerms == <<"absence", "absent", "attendance", "leave">>
MoneyTerms == <<"payment", "transaction", "sale", "invoice", "revenue", "income", "order">>

(* The first table that gives a query. *)
FirstQuery(tables, query(_)) ==
    LET good == {t \in Range(tables) : query(t) # Unsupported} IN
    IF good = {} THEN Unsupported ELSE query(First(tables, good))

(* The first kind of phrase decides; its failure falls through to no other. *)
PlanRankedOnly(tables) == FirstQuery(rankedTables(tables, MoneyTerms), revenueQuery)
PlanRevenue(tables) ==
    FirstQuery(rankedTables(tables, MoneyTerms) \o tables, revenueQuery)

PlanCountFirst(tables, question) ==
    IF question.phrases \cap CountPhrases # {} /\ bestTable(tables, question.words) # << >>
    THEN countQuery(Head(bestTable(tables, question.words)))
    ELSE IF question.phrases \cap AbsencePhrases # {} THEN
        FirstQuery(rankedTables(tables, AbsenceTerms), absenceQuery)
    ELSE PlanRevenue(tables)
Plan(tables, question) ==
    IF question.phrases \cap AbsencePhrases # {} THEN
        FirstQuery(rankedTables(tables, AbsenceTerms), absenceQuery)
    ELSE IF question.phrases \cap CountPhrases # {} THEN
        LET best == bestTable(tables, question.words) IN
        IF best = << >> THEN Unsupported ELSE countQuery(Head(best))
    ELSE IF question.phrases \cap MoneyPhrases # {} THEN PlanRevenue(tables)
    ELSE Unsupported
=============================================================================
