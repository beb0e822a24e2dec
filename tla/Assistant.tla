----------------------------- MODULE Assistant -----------------------------
(***************************************************************************)
(* A process of main.go and its database: it starts with some environment, *)
(* connects, introspects with several queries outside a transaction, and   *)
(* then answers from the catalog, which the self-learning loop refreshes,  *)
(* while the schema changes underneath.                                    *)
(*                                                                         *)
(* `past` keeps every schema the database had; the last one is the present *)
(* one.  A schema maps the tables there are to the sequence of their       *)
(* columns.  One question is under way at a time: they share nothing but   *)
(* the catalog, which they read once, under its lock.                      *)
(***************************************************************************)
EXTENDS Planner, Config

CONSTANTS
    Environments, DotEnvs,  \* what a process may be started with
    Questions,              \* records of the phrases and the words of a question
    TableOrder,             \* the tables there may be, by their place in the order of names
    FirstSchema,            \* the schema at the beginning
    Columns, Extra,         \* the columns there may be, and those a table may get later
    MaxChanges,             \* bound on changes of the schema
    MaxFailures,            \* bound on failing introspections
    MaxRows                 \* stands for the limit of 100 rows

IsSchema(s) == DOMAIN s \subseteq DOMAIN TableOrder /\ s \in [DOMAIN s -> Seq(Columns)]

ASSUME AssistantAssumption ==
    /\ DOMAIN TableOrder \subseteq Nat /\ IsFiniteSet(DOMAIN TableOrder)
    /\ IsSchema(FirstSchema) /\ Extra \subseteq Columns /\ NoColumn \notin Columns
    /\ \A question \in Questions : question.words \in Seq(STRING)
    /\ \A env \in Environments : env \in [DOMAIN env -> STRING]
    /\ DotEnvs \subseteq Seq([key : STRING, value : STRING])
    /\ {MaxChanges, MaxFailures} \subseteq Nat /\ MaxRows \in Nat \ {0}

VARIABLES
    past,           \* history: the schemas of the database so far
    process,        \* its step, its command, and the provider and mode it connected with
    catalog,        \* DataAssistant.catalog; db-introspect: the catalog it saved
    since,          \* history: Len(past) when the reading of that catalog began
    reading,        \* IntrospectSQL under way: its step and its local variables
    ask,            \* Ask: its step, the planned query, the form of the answer
    failures

vars == <<past, process, catalog, since, reading, ask, failures>>

Now == Len(past)
schema == past[Now]

Down == [pc |-> "down", command |-> "", provider |-> "", readOnly |-> TRUE]
NotReading == [pc |-> "no", tables |-> << >>, left |-> {}, since |-> 1]
NoAsk == [pc |-> "idle", phrases |-> {}, query |-> Unsupported, form |-> "", since |-> 1]

Init ==
    /\ past = <<FirstSchema>>
    /\ process = Down
    /\ catalog = << >> /\ since = 1
    /\ reading = NotReading
    /\ ask = NoAsk
    /\ failures = 0

-----------------------------------------------------------------------------
(* The database: a table or a column is created or dropped.  Nothing of    *)
(* this process depends on what happened before it starts.                 *)
ChangeSchema ==
    /\ process.pc # "down"
    /\ Now <= MaxChanges
    /\ \E new \in
            {Restrict(schema, DOMAIN schema \ {i}) : i \in DOMAIN schema}
            \cup {[j \in DOMAIN schema \cup {i} |-> IF j = i THEN FirstSchema[i] ELSE schema[j]] :
                    i \in DOMAIN FirstSchema \ DOMAIN schema}
            \cup {[schema EXCEPT ![i] = RemoveAt(@, 1)] :
                    i \in {j \in DOMAIN schema : schema[j] # << >>}}
            \cup {[schema EXCEPT ![p[1]] = Append(@, p[2])] :
                    p \in {q \in (DOMAIN schema) \X Extra : q[2] \notin Range(schema[q[1]])}} :
        past' = Append(past, new)
    /\ UNCHANGED <<process, catalog, since, reading, ask, failures>>

-----------------------------------------------------------------------------
(* What a command does with its configuration: it ends, goes on without a  *)
(* database, or connects.  A missing provider is no error for the commands *)
(* that can do without; NewDataAssistant takes SQL providers only, and     *)
(* each of the introspections checks the read-only mode by itself.         *)
MayServe(config) ==
    /\ config.provider \in SQLProviders
    /\ config.readOnly
    /\ SQLDriverAndDSN(config) # NoEndpoint

MongoReady(config) == config.readOnly /\ DocumentURL(config) # NoEndpoint
CassandraReadyUnchecked(config) == CassandraCluster(config) # NoEndpoint
CassandraReady(config) == config.readOnly /\ CassandraCluster(config) # NoEndpoint
MayIntrospect(config) ==
    CASE config.provider = "mongodb" -> MongoReady(config)
      [] config.provider = "cassandra" -> CassandraReady(config)
      [] OTHER -> SQLDriverAndDSN(config) # NoEndpoint /\ config.readOnly

Outcome(command, env) ==
    LET config == LoadConfig(env)
        may == IF command = "serve" THEN MayServe(config) ELSE MayIntrospect(config)
    IN  IF config = Error /\ command = "serve" /\ Getenv(env, "PROVIDER") = ""
        THEN [Down EXCEPT !.pc = "alone", !.command = command]
        ELSE IF config # Error /\ may
        THEN [pc |-> "connecting", command |-> command,
              provider |-> config.provider, readOnly |-> config.readOnly]
        ELSE [Down EXCEPT !.pc = "ended", !.command = command]

Start(command) ==
    /\ process.pc = "down"
    /\ process' \in {Outcome(command, LoadDotEnv(env, lines)) :
                        env \in Environments, lines \in DotEnvs}
    /\ UNCHANGED <<past, catalog, since, reading, ask, failures>>

(* The first introspection is part of NewDataAssistant: no question is     *)
(* answered before it is through.                                          *)
BeginReading ==
    reading.pc = "no" /\ reading' = [NotReading EXCEPT !.pc = "list", !.since = Now]
Connect ==
    /\ process.pc = "connecting"
    /\ BeginReading
    /\ UNCHANGED <<past, process, catalog, since, ask, failures>>

-----------------------------------------------------------------------------
(* IntrospectSQL, and the readers of collections: the names first, then    *)
(* the columns of one after the other.  Only SQL leaves out the tables of  *)
(* the system; MongoDB and Cassandra list whatever there is.  SQL and      *)
(* Cassandra have no columns for a table that is gone by then, and no      *)
(* error.  Of a collection there are the fields of any one document, in    *)
(* the order of a map.                                                     *)
MayList(provider, i) == provider \in SQLProviders => ~TableOrder[i].system
Listed(provider, tables) == [i \in {j \in DOMAIN tables : MayList(provider, j)} |-> << >>]
Names == Listed(process.provider, schema)
ListInPlace ==
    /\ reading.pc = "list"
    /\ reading' = [reading EXCEPT !.pc = "columns", !.tables = Names, !.left = DOMAIN Names]
    /\ catalog' = Names /\ since' = reading.since
    /\ UNCHANGED <<past, process, ask, failures>>
ListTables ==
    /\ reading.pc = "list"
    /\ reading' = [reading EXCEPT !.pc = "columns", !.tables = Names, !.left = DOMAIN Names]
    /\ UNCHANGED <<past, process, catalog, since, ask, failures>>

FieldsOf(columns) ==
    {fields \in SeqOf(Range(columns), Len(columns)) : IsInjective(fields)}
Readings(provider, tables, i) ==
    IF i \notin DOMAIN tables THEN {<< >>}
    ELSE IF provider = "mongodb" THEN FieldsOf(tables[i])
    ELSE {tables[i]}

LoadColumns ==
    /\ reading.pc = "columns"
    /\ \E i \in reading.left :
        /\ \A j \in reading.left : i <= j
        /\ \E columns \in Readings(process.provider, schema, i) :
            reading' = [reading EXCEPT
                !.tables = [j \in DOMAIN @ |-> IF j = i THEN columns ELSE @[j]],
                !.left = @ \ {i}]
    /\ UNCHANGED <<past, process, catalog, since, ask, failures>>

(* The complete catalog is put in place under the lock, or saved to the    *)
(* file by db-introspect, which ends with that.                            *)
Complete == reading.pc = "columns" /\ reading.left = {}
Installed(tables) ==
    /\ catalog' = tables /\ since' = reading.since
    /\ process' = [process EXCEPT !.pc = IF process.command = "serve" THEN "serving" ELSE "ended"]
    /\ UNCHANGED <<past, ask, failures>>
InstallMerged ==
    /\ Complete
    /\ Installed([i \in DOMAIN catalog \cup DOMAIN reading.tables |->
           IF i \in DOMAIN reading.tables THEN reading.tables[i] ELSE catalog[i]])
    /\ reading' = NotReading
InstallUnfinished ==
    /\ Complete
    /\ Installed(reading.tables)
    /\ reading' = [reading EXCEPT !.pc = "no"]
Install ==
    /\ Complete
    /\ Installed(reading.tables)
    /\ reading' = NotReading

(* Any of the queries fails.  At the start that ends the process; later it *)
(* ends this refresh, and the old catalog stays.                           *)
FailForGood ==
    /\ reading.pc # "no"
    /\ failures < MaxFailures /\ failures' = failures + 1
    /\ reading' = [NotReading EXCEPT !.pc = "stopped"]
    /\ process' = [process EXCEPT !.pc = IF @ = "connecting" THEN "ended" ELSE @]
    /\ UNCHANGED <<past, catalog, since, ask>>
FailReading ==
    /\ reading.pc # "no"
    /\ failures < MaxFailures /\ failures' = failures + 1
    /\ reading' = NotReading
    /\ process' = [process EXCEPT !.pc = IF @ = "connecting" THEN "ended" ELSE @]
    /\ UNCHANGED <<past, catalog, since, ask>>

(* RefreshCatalog, called by the loop of the trainer at every tick. *)
RefreshCatalog ==
    /\ process.pc = "serving"
    /\ BeginReading
    /\ UNCHANGED <<past, process, catalog, since, ask, failures>>

-----------------------------------------------------------------------------
(* formatAnswer: the columns of the result and their texts, the number of  *)
(* rows, the question.                                                     *)
ResultColumns(query) ==
    CASE query.kind = "count" -> <<[name |-> "total", words |-> {}]>>
      [] query.kind = "revenue" -> <<[name |-> "total_", words |-> query.amount.words]>>
      [] OTHER -> <<query.name, query.date>>
                    \o IF query.status = NoColumn THEN << >> ELSE <<query.status>>

WhoWords == {"name", "person", "user", "customer", "client", "member", "id"}
WhenWords == {"date", "time", "_at", "created", "scheduled", "occurred"}
StateWords == {"status", "state", "reason", "flag", "result"}
Shows(columns, needles) == \E c \in Range(columns) : c.words \cap needles # {}
EarnedPhrases == {"money", "revenue", "income", "sales", "payment", "paid", "amount"}

formatAnswer(phrases, columns, rows) ==
    IF rows = 0 THEN "no records"
    ELSE IF rows = 1 /\ Len(columns) = 1 THEN
        IF phrases \cap AbsencePhrases # {} THEN "absences"
        ELSE IF columns[1].name = "total" \/ phrases \cap CountPhrases # {} THEN "count"
        ELSE IF columns[1].name = "total_" \/ phrases \cap EarnedPhrases # {} THEN "revenue"
        ELSE "result"
    ELSE IF \A needles \in {WhoWords, WhenWords, StateWords} : Shows(columns, needles)
         THEN "sentences"
    ELSE "table"

TablesOf(columns) ==
    LET order == InOrder(DOMAIN columns) IN
    [k \in DOMAIN order |-> [place |-> order[k], words |-> TableOrder[order[k]].words,
                             columns |-> columns[order[k]]]]

(* Ask: Plan reads the catalog under the lock; the query is run later,     *)
(* against the database as it is then, and may fail for its own reasons.   *)
PlanQuestion(question) ==
    /\ process.pc = "serving" /\ ask.pc = "idle"
    /\ LET query == Plan(TablesOf(catalog), question) IN
       ask' = IF query = Unsupported THEN [NoAsk EXCEPT !.form = "unsupported"]
              ELSE [pc |-> "planned", phrases |-> question.phrases, query |-> query, form |-> "",
                    since |-> since]
    /\ UNCHANGED <<past, process, catalog, since, reading, failures>>

Selected(query) ==
    CASE query.kind = "count" -> {}
      [] query.kind = "revenue" -> {query.date, query.amount}
      [] OTHER -> {query.date, query.name, query.status} \ {NoColumn}
Possible(query) ==
    /\ query.table.place \in DOMAIN schema
    /\ Selected(query) \subseteq Range(schema[query.table.place])

RunQuery ==
    /\ process.pc = "serving" /\ ask.pc = "planned"
    /\ \E rows \in IF ask.query.kind = "absence" THEN 0..MaxRows ELSE {1} :
           ask' = [ask EXCEPT
               !.pc = "idle",
               !.form = IF Possible(ask.query)
                        THEN formatAnswer(ask.phrases, ResultColumns(ask.query), rows)
                        ELSE "missing"]
    /\ UNCHANGED <<past, process, catalog, since, reading, failures>>

FailQuery ==
    /\ process.pc = "serving" /\ ask.pc = "planned"
    /\ ask' = [ask EXCEPT !.pc = "idle", !.form = "query failed"]
    /\ UNCHANGED <<past, process, catalog, since, reading, failures>>

(* The end of the process, with Close. *)
Exit ==
    /\ process.pc \in {"serving", "alone"}
    /\ process' = [process EXCEPT !.pc = "ended"]
    /\ reading' = NotReading /\ ask' = NoAsk
    /\ UNCHANGED <<past, catalog, since, failures>>

-----------------------------------------------------------------------------
ReadingStep == RefreshCatalog \/ ListTables \/ LoadColumns \/ Install

Next ==
    \/ ChangeSchema
    \/ \E command \in {"serve", "db-introspect"} : Start(command)
    \/ Connect \/ ReadingStep \/ FailReading
    \/ \E question \in Questions : PlanQuestion(question)
    \/ RunQuery \/ FailQuery
    \/ Exit

(* The ticker of the trainer goes on, and a query that does not fail       *)
(* returns.                                                                *)
Spec == Init /\ [][Next]_vars /\ WF_vars(ReadingStep)

-----------------------------------------------------------------------------
WellFormed(query) ==
    /\ query.kind \in {"absence", "revenue", "count"}
    /\ query.table.place \in DOMAIN TableOrder /\ query.table.columns \in Seq(Columns)
    /\ Selected(query) \subseteq Range(query.table.columns)
TypeOK ==
    /\ past # << >> /\ \A v \in DOMAIN past : IsSchema(past[v])
    /\ process \in [pc : {"down", "connecting", "alone", "serving", "ended"},
                    command : {"", "serve", "db-introspect"},
                    provider : Providers \cup {""}, readOnly : BOOLEAN]
    /\ reading.pc \in {"no", "list", "columns"}
    /\ reading.left \subseteq DOMAIN reading.tables
    /\ IsSchema(reading.tables) /\ IsSchema(catalog)
    /\ (reading.pc = "no" <=> reading = NotReading)
    /\ {since, reading.since, ask.since} \subseteq 1..Now
    /\ ask.pc \in {"idle", "planned"} /\ (ask.pc = "planned" => WellFormed(ask.query))
    /\ failures \in 0..MaxFailures

(* "Existing environment variables take precedence over .env"              *)
(* (README.md:106), an empty one too, and read-only mode "defaults to      *)
(* true" (README.md:110): whatever .env holds, wherever it is malformed,   *)
(* only a source that says so and is not overruled makes a configuration   *)
(* writable, and the earlier of two entries counts.                        *)
Says(env, lines, key, value) ==
    \/ key \in DOMAIN env /\ env[key] = value
    \/ /\ key \notin DOMAIN env
       /\ \E i \in DOMAIN lines :
            /\ lines[i] = [key |-> key, value |-> value]
            /\ \A j \in 1..(i - 1) : lines[j] # Malformed /\ lines[j].key # key
SettingsHold ==
    process.pc = "down" =>
        \A env \in Environments, lines \in DotEnvs :
            LET config == LoadConfig(LoadDotEnv(env, lines)) IN
            config # Error =>
                /\ Says(env, lines, "PROVIDER", config.provider)
                /\ config.readOnly = ~\E text \in FalseTexts : Says(env, lines, "READ_ONLY", text)
                /\ config.port = 0 \/ \E text \in DOMAIN Numbers :
                        Says(env, lines, "PORT", text) /\ Numbers[text] = config.port

(* "Introspection only runs when read-only mode is enabled" (README.md:138)*)
(* and so do business queries (data_assistant.go:43), on each of the paths *)
(* that open a connection; questions are put to SQL databases only.        *)
OpensReadOnly ==
    process.pc \in {"connecting", "serving"} =>
        /\ process.readOnly
        /\ process.command = "serve" => process.provider \in SQLProviders

(* Every table of the catalog was there while the catalog was read, with   *)
(* the columns it has in it; without columns, it may also have been        *)
(* dropped in between.  Of an SQL database, a table of the system is never *)
(* among them.  "Errors leave the current catalog untouched"               *)
(* (data_assistant.go:74): it is never one that was read in part.          *)
WasRead(i, columns, start) ==
    \E v, w \in start..Now :
        /\ v <= w /\ i \in DOMAIN past[v]
        /\ process.provider \in SQLProviders => ~TableOrder[i].system
        /\ columns \in Readings(process.provider, past[w], i)
CatalogWasTrue == \A i \in DOMAIN catalog : WasRead(i, catalog[i], since)

(* A question fails for a table or a column that is gone only if the schema*)
(* changed after the reading of its catalog began: no catalog remembers a  *)
(* table that was gone before.                                             *)
FailureIsExplained == ask.form = "missing" => Now > ask.since

(* Planner and formatAnswer look at the question independently of each     *)
(* other (data_assistant.go:157, 503) and agree: a count is reported as a  *)
(* count, a sum as money received, absences row by row.                    *)
FormFitsQuery ==
    ask.pc = "idle" /\ ask.form \notin {"", "unsupported", "missing", "query failed"} =>
        CASE ask.query.kind = "count" -> ask.form = "count"
          [] ask.query.kind = "revenue" -> ask.form = "revenue"
          [] OTHER -> ask.form \in {"no records", "sentences", "table"}

(* "picks up new tables and columns without restarting"                    *)
(* (data_assistant.go:73): in the end the catalog of a process that stays  *)
(* up is the schema, through failing refreshes.                            *)
Snapshot == [i \in DOMAIN Names |-> schema[i]]
CatalogFollows == <>[](process.pc = "serving" => catalog = Snapshot)
=============================================================================
