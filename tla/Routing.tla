------------------------------ MODULE Routing ------------------------------
(***************************************************************************)
(* The path of a question at the prompt of main.go: the live database, the *)
(* redirect of schema questions, the taught facts, the documents.  It puts *)
(* the planner and the fact store together, under a catalog that follows   *)
(* the database and facts that are taught.                                 *)
(*                                                                         *)
(* The retrieval over the documents is a parameter: the questions it       *)
(* answers.  MaxSize bounds the columns and the facts there are at a time. *)
(***************************************************************************)
EXTENDS Planner, FactStore

CONSTANTS
    Questions,      \* records of the phrases and the words of a question
    Teachable,      \* those that are corrected at the prompt
    Corrections,    \* the answers typed there
    Documented,     \* those the retrieval answers
    TableOrder,     \* the tables there may be, in the order of their names
    Columns,        \* the columns they may get
    MaxSize         \* bound on the columns of all tables and the facts together

ASSUME RoutingAssumption ==
    /\ Teachable \cup Documented \subseteq Questions
    /\ "" \notin Corrections
    /\ \A q \in Questions : q.phrases \subseteq STRING /\ q.words \in Seq(STRING)
    /\ \A i, j \in DOMAIN TableOrder : TableOrder[i].name = TableOrder[j].name => i = j
    /\ DOMAIN TableOrder \subseteq Nat /\ IsFiniteSet(DOMAIN TableOrder)
    /\ \A c \in Columns : c.name # NoColumn.name
    /\ MaxSize \in Nat

VARIABLES
    schema,         \* DataAssistant.catalog: the columns of each table
    facts,          \* the Facts of the trained model
    last            \* the last question and what was printed

vars == <<schema, facts, last>>

SchemaPhrases == {"which table", "what table", "what column", "which column", "primary key",
                  "foreign key", "information_schema", "window function", "query plan",
                  "how do i join", "how are tables", "how are .* related"}

Tables ==
    LET order == InOrder(DOMAIN schema) IN
    [i \in DOMAIN order |->
        [name |-> TableOrder[order[i]].name, words |-> TableOrder[order[i]].words,
         columns |-> schema[order[i]]]]

(* How much the catalog and the fact store hold. *)
Size(tables, known) ==
    MapThenSumSet(LAMBDA i : Len(tables[i]), DOMAIN tables) + Cardinality(DOMAIN known)

Silence == [question |-> [phrases |-> {}, words |-> << >>], reply |-> ""]

Init == schema = << >> /\ facts = NoFacts /\ last = Silence

-----------------------------------------------------------------------------
(* RefreshCatalog: the catalog of a database in which a table or a column  *)
(* was created or dropped.                                                 *)
Replace(tables) == schema' = tables /\ last' = Silence /\ UNCHANGED facts
CreateTable(i) ==
    Replace([j \in DOMAIN schema \cup {i} |-> IF j = i THEN << >> ELSE schema[j]])
DropTable(i) == Replace(Restrict(schema, DOMAIN schema \ {i}))
AddColumn(i, column) ==
    /\ Size(schema, facts) < MaxSize
    /\ \A k \in DOMAIN schema[i] : schema[i][k].name # column.name
    /\ Replace([schema EXCEPT ![i] = Append(@, column)])
DropColumn(i, k) == Replace([schema EXCEPT ![i] = RemoveAt(@, k)])

RefreshCatalog ==
    \/ \E i \in DOMAIN TableOrder \ DOMAIN schema : CreateTable(i)
    \/ \E i \in DOMAIN schema :
        \/ DropTable(i)
        \/ \E column \in Columns : AddColumn(i, column)
        \/ \E k \in DOMAIN schema[i] : DropColumn(i, k)

(* The answer function of main.go.  A planned query may fail; only an      *)
(* unsupported question goes on to the redirect, the facts, the documents. *)
Live(question) == Plan(Tables, question) # Unsupported
Redirected(question) == question.phrases \cap SchemaPhrases # {}
Replies(known, question) ==
    IF Live(question) THEN {"records", "query failed"}
    ELSE IF Redirected(question) THEN {"redirect"}
    ELSE {IF answer # "" THEN answer
          ELSE IF question \in Documented THEN "document"
          ELSE "I do not know that yet." : answer \in Fact(known, question.words)}

Ask(question) ==
    /\ \E reply \in Replies(facts, question) :
           last' = [question |-> question, reply |-> reply]
    /\ UNCHANGED <<schema, facts>>

(* teachSession with a trainer: the correction is taught to the model in   *)
(* memory and saved, and the question asked again.  One step: what comes   *)
(* between them (a swap of a refresh, a failing save) is in Trainer; a     *)
(* session without a trainer, which asks a model it did not teach, is in   *)
(* Watcher.                                                                *)
Teach(question, answer) ==
    /\ facts' = TeachFact(facts, question.words, answer)
    /\ Size(schema, facts') <= MaxSize
    /\ \E reply \in Replies(facts', question) :
           last' = [question |-> question, reply |-> reply]
    /\ UNCHANGED schema

Next ==
    \/ RefreshCatalog
    \/ \E question \in Questions : Ask(question)
    \/ \E question \in Teachable, answer \in Corrections : Teach(question, answer)

Spec == Init /\ [][Next]_vars

-----------------------------------------------------------------------------
DifferentNames(columns) ==
    \A j, k \in DOMAIN columns : columns[j].name = columns[k].name => j = k

TypeOK ==
    /\ DOMAIN schema \subseteq DOMAIN TableOrder
    /\ \A i \in DOMAIN schema : schema[i] \in Seq(Columns) /\ DifferentNames(schema[i])
    /\ Range(facts) \subseteq Corrections
    /\ last = Silence \/ last.question \in Questions

(* What an absence or revenue query selects are columns of its table in    *)
(* different roles (data_assistant.go:188, "skipped"), and what it sums is *)
(* a measure: numeric, never an identifier, and money if the table has any *)
(* (data_assistant.go:360).                                                *)
Measures(table, date) ==
    {c \in Range(table.columns) : "numeric" \in c.type /\ ~isIDColumn(c) /\ c # date}
QueriesFitRoles ==
    \A question \in Questions :
        LET query == Plan(Tables, question) IN
        /\ query.kind = "absence" =>
            /\ {query.date, query.name} \subseteq Range(query.table.columns)
            /\ query.date # query.name /\ query.status \notin {query.date, query.name}
        /\ query.kind = "revenue" =>
            LET measures == Measures(query.table, query.date)
                money == {c \in measures : c.words \cap MoneyLike # {}}
            IN  query.amount \in IF money # {} THEN money ELSE measures

(* The planner works with any schema (data_assistant.go:316, "plug in any  *)
(* read-only database"): a revenue question is unsupported only if no      *)
(* table has both a date and a measure, whatever the tables are called.    *)
RevenueIsPlanned ==
    \A question \in Questions :
        /\ question.phrases \cap MoneyPhrases # {}
        /\ question.phrases \cap (AbsencePhrases \cup CountPhrases) = {}
        => \/ Plan(Tables, question).kind = "revenue"
           \/ \A i \in DOMAIN Tables :
                LET date == pickTemporalColumn(Tables[i]) IN
                date = NoColumn \/ Measures(Tables[i], date) = {}

(* The hand-written insertion sort is a stable sort of the tables that     *)
(* score: by score, and in catalog order among equals.                     *)
RankingIsStable ==
    \A question \in Questions :
        LET ranked == rankedTables(Tables, question.words)
            Place(table) == CHOOSE i \in DOMAIN Tables : Tables[i] = table
        IN  /\ Range(ranked) = {t \in Range(Tables) : Score(t, question.words) > 0}
            /\ \A i, j \in DOMAIN ranked : i < j =>
                LET a == Score(ranked[i], question.words)
                    b == Score(ranked[j], question.words)
                IN  a > b \/ (a = b /\ Place(ranked[i]) < Place(ranked[j]))

(* Fact finds the same answers whatever order Go visits the map in: those  *)
(* of the facts with the most coverage and, of these, the fewest tokens,   *)
(* if they cover enough (trained.go:95).                                   *)
FactIsTheBest ==
    \A question \in Questions : factKey(question.words) \notin DOMAIN facts =>
        LET asked == factContentTokens(factKey(question.words))
            keys == {k \in DOMAIN facts : factContentTokens(k) # {}}
            M(k) == Matched(asked, factContentTokens(k))
            S(k) == Cardinality(factContentTokens(k))
            best == {k \in keys : \A other \in keys :
                        \/ M(k) > M(other)
                        \/ M(k) = M(other) /\ S(k) <= S(other)}
            enough == {k \in best : asked # {} /\ 10 * M(k) >= 6 * Cardinality(asked)}
        IN  Fact(facts, question.words) = IF enough = {} THEN {""} ELSE {facts[k] : k \in enough}

(* "Saved! Now testing..." (main.go:259) prints the correction just typed, *)
(* unless the question belongs to the database or to the redirect, however *)
(* many facts compete for it.  (Of a process with a trainer, and if no     *)
(* refresh swaps its model between saving and testing.)                    *)
CorrectionIsAnswered ==
    [][\A question \in Teachable, answer \in Corrections :
        Teach(question, answer) /\ ~Live(question) /\ ~Redirected(question)
            => last' = [question |-> question, reply |-> answer]]_vars

(* Teaching never changes the answer to a question that has no word in     *)
(* common with it (trained_test.go, "unrelated question matched the taught *)
(* fact"): a fact of few tokens does not displace a better one.  (All      *)
(* questions without any word, such as "?", are one to the fact store.)    *)
UnrelatedStay ==
    [][\A taught \in Teachable, answer \in Corrections : Teach(taught, answer) =>
        \A other \in Questions :
            taught.words # << >> /\ Range(taught.words) \cap Range(other.words) = {} =>
                Fact(facts', other.words) = Fact(facts, other.words)]_vars
=============================================================================
