-------------------------- MODULE AssistantProofs --------------------------
(***************************************************************************)
(* Proofs about the process that answers from a live database, for every   *)
(* schema, every question and every environment.                           *)
(***************************************************************************)
EXTENDS Assistant, PlannerProofs

(* An introspection is under way only in a process that has connected, and *)
(* whatever connected did so in read-only mode.                            *)
ConnectedInv ==
    /\ OpensReadOnly
    /\ (reading.pc # "no" => process.pc \in {"connecting", "serving"})
    /\ (process.pc = "serving" => process.command = "serve")

LEMMA OutcomeReadOnly ==
    ASSUME NEW command \in {"serve", "db-introspect"}, NEW env
    PROVE  LET started == Outcome(command, env) IN
           /\ started.pc \in {"alone", "connecting", "ended"}
           /\ started.pc = "connecting" =>
                /\ started.readOnly
                /\ started.command = "serve" => started.provider \in SQLProviders
PROOF
  <1> DEFINE config == LoadConfig(env)
  <1>1. MayServe(config) => config.readOnly /\ config.provider \in SQLProviders
    BY DEF MayServe
  <1>2. MayIntrospect(config) => config.readOnly
    BY DEF MayIntrospect, MongoReady, CassandraReady
  <1> HIDE DEF config
  <1> QED BY <1>1, <1>2 DEF Outcome, Down, config

LEMMA ConnectedInit == Init => ConnectedInv
PROOF
  <1> SUFFICES ASSUME Init PROVE ConnectedInv
    OBVIOUS
  <1>1. process.pc = "down" /\ reading.pc = "no"
    BY DEF Init, Down, NotReading
  <1> QED BY <1>1 DEF ConnectedInv, OpensReadOnly

LEMMA ConnectedStep == ConnectedInv /\ [Next]_vars => ConnectedInv'
PROOF
  <1> SUFFICES ASSUME ConnectedInv, [Next]_vars PROVE ConnectedInv'
    OBVIOUS
  <1> USE DEF ConnectedInv, OpensReadOnly
  <1>1. CASE UNCHANGED <<process, reading>>
    BY <1>1
  <1>2. ASSUME NEW command \in {"serve", "db-introspect"}, Start(command)
        PROVE  ConnectedInv'
    <2>1. PICK env \in Environments, lines \in DotEnvs :
              process' = Outcome(command, LoadDotEnv(env, lines))
      BY <1>2 DEF Start
    <2>2. reading' = reading /\ process.pc = "down"
      BY <1>2 DEF Start
    <2>3. /\ process'.pc \in {"alone", "connecting", "ended"}
          /\ process'.pc = "connecting" =>
                /\ process'.readOnly
                /\ process'.command = "serve" => process'.provider \in SQLProviders
      BY <2>1, OutcomeReadOnly
    <2> QED BY <2>2, <2>3
  <1>3. CASE Connect \/ RefreshCatalog
    BY <1>3 DEF Connect, RefreshCatalog, BeginReading, NotReading
  <1>4. CASE ListTables \/ LoadColumns
    <2>1. process' = process /\ reading.pc # "no"
      BY <1>4 DEF ListTables, LoadColumns
    <2> QED BY <2>1
  <1>5. CASE Install
    <2>1. process' = [process EXCEPT !.pc =
                          IF process.command = "serve" THEN "serving" ELSE "ended"]
      BY <1>5 DEF Install, Installed
    <2>2. reading.pc # "no" /\ reading' = NotReading
      BY <1>5 DEF Install, Complete
    <2> QED BY <2>1, <2>2 DEF NotReading
  <1>6. CASE FailReading
    BY <1>6 DEF FailReading, NotReading
  <1>7. CASE Exit
    BY <1>7 DEF Exit, NotReading
  <1> QED
    BY <1>1, <1>2, <1>3, <1>4, <1>5, <1>6, <1>7
    DEF Next, ReadingStep, ChangeSchema, PlanQuestion, RunQuery, FailQuery, vars

(* Whatever command runs in whatever environment, a connection is read-only*)
(* and questions are put to SQL databases only.                            *)
THEOREM OpensReadOnlyAlways == Spec => []OpensReadOnly
PROOF
  <1>1. ConnectedInv => OpensReadOnly
    BY DEF ConnectedInv
  <1> QED BY <1>1, ConnectedInit, ConnectedStep, PTL DEF Spec

-----------------------------------------------------------------------------
(* What the phrases of a question say of the query planned for it. *)
Fits(phrases, query) ==
    \/ query.kind = "absence"
    \/ query.kind = "count" /\ phrases \cap AbsencePhrases = {}
    \/ /\ query.kind = "revenue"
       /\ phrases \cap (AbsencePhrases \cup CountPhrases) = {}

LEMMA AbsenceKind ==
    ASSUME NEW tables, NEW q, q = FirstQuery(tables, absenceQuery)
    PROVE  q = Unsupported \/ q.kind = "absence"
PROOF BY DEF FirstQuery, absenceQuery

LEMMA RevenueKind ==
    ASSUME NEW tables, NEW q, q = FirstQuery(tables, revenueQuery)
    PROVE  q = Unsupported \/ q.kind = "revenue"
PROOF BY DEF FirstQuery, revenueQuery

LEMMA PlanFits ==
    ASSUME NEW tables, NEW question, NEW q, q = Plan(tables, question), q # Unsupported
    PROVE  Fits(question.phrases, q)
PROOF
  <1>1. CASE question.phrases \cap AbsencePhrases # {}
    BY <1>1, AbsenceKind DEF Plan, Fits
  <1>2. CASE /\ question.phrases \cap AbsencePhrases = {}
             /\ question.phrases \cap CountPhrases # {}
    BY <1>2 DEF Plan, Fits, countQuery
  <1>3. CASE /\ question.phrases \cap AbsencePhrases = {}
             /\ question.phrases \cap CountPhrases = {}
    BY <1>3, RevenueKind DEF Plan, PlanRevenue, Fits
  <1> QED BY <1>1, <1>2, <1>3

LEMMA FormFits ==
    ASSUME NEW phrases, NEW query, NEW rows, Fits(phrases, query),
           query.kind # "absence" => rows = 1
    PROVE  LET form == formatAnswer(phrases, ResultColumns(query), rows) IN
           CASE query.kind = "count" -> form = "count"
             [] query.kind = "revenue" -> form = "revenue"
             [] OTHER -> form \in {"no records", "sentences", "table"}
PROOF
  <1> DEFINE columns == ResultColumns(query)
  <1>1. CASE query.kind = "count"
    <2>1. columns = <<[name |-> "total", words |-> {}]>> /\ rows = 1
      BY <1>1 DEF ResultColumns
    <2> QED BY <1>1, <2>1 DEF formatAnswer, Fits
  <1>2. CASE query.kind = "revenue"
    <2>1. columns = <<[name |-> "total_", words |-> query.amount.words]>> /\ rows = 1
      BY <1>2 DEF ResultColumns
    <2> QED BY <1>2, <2>1 DEF formatAnswer, Fits
  <1>3. CASE query.kind \notin {"count", "revenue"}
    <2>1. Len(columns) # 1
      <3>1. \/ columns = <<query.name, query.date>> \o << >>
            \/ columns = <<query.name, query.date>> \o <<query.status>>
        BY <1>3 DEF ResultColumns
      <3> QED BY <3>1
    <2> QED BY <1>3, <2>1 DEF formatAnswer
  <1> QED BY <1>1, <1>2, <1>3

FormInv ==
    /\ FormFitsQuery
    /\ ask.pc \in {"idle", "planned"}
    /\ (ask.pc = "planned" => Fits(ask.phrases, ask.query))

LEMMA FormInit == Init => FormInv
PROOF
  <1> SUFFICES ASSUME Init PROVE FormInv
    OBVIOUS
  <1>1. ask.pc = "idle" /\ ask.form = ""
    BY DEF Init, NoAsk
  <1> QED BY <1>1 DEF FormInv, FormFitsQuery

LEMMA FormStep == FormInv /\ [Next]_vars => FormInv'
PROOF
  <1> SUFFICES ASSUME FormInv, [Next]_vars PROVE FormInv'
    OBVIOUS
  <1>1. CASE UNCHANGED ask
    BY <1>1 DEF FormInv, FormFitsQuery
  <1>2. CASE Exit
    BY <1>2 DEF Exit, NoAsk, FormInv, FormFitsQuery
  <1>3. ASSUME NEW question \in Questions, PlanQuestion(question)
        PROVE  FormInv'
    <2> DEFINE query == Plan(TablesOf(catalog), question)
    <2>1. CASE query = Unsupported
      <3>1. ask' = [NoAsk EXCEPT !.form = "unsupported"]
        BY <1>3, <2>1 DEF PlanQuestion
      <3> QED BY <3>1 DEF NoAsk, FormInv, FormFitsQuery
    <2>2. CASE query # Unsupported
      <3>1. ask' = [pc |-> "planned", phrases |-> question.phrases, query |-> query,
                    form |-> "", since |-> since]
        BY <1>3, <2>2 DEF PlanQuestion
      <3>2. Fits(question.phrases, query)
        BY <2>2, PlanFits
      <3> HIDE DEF query
      <3> QED BY <3>1, <3>2 DEF FormInv, FormFitsQuery
    <2> QED BY <2>1, <2>2
  <1>4. CASE RunQuery
    <2>1. PICK rows \in IF ask.query.kind = "absence" THEN 0..MaxRows ELSE {1} :
              ask' = [ask EXCEPT
                  !.pc = "idle",
                  !.form = IF Possible(ask.query)
                           THEN formatAnswer(ask.phrases, ResultColumns(ask.query), rows)
                           ELSE "missing"]
      BY <1>4 DEF RunQuery
    <2> DEFINE form == formatAnswer(ask.phrases, ResultColumns(ask.query), rows)
    <2>2. ask.pc = "planned" /\ (ask.query.kind # "absence" => rows = 1)
      BY <1>4, <2>1 DEF RunQuery
    <2>3. (CASE ask.query.kind = "count" -> form = "count"
             [] ask.query.kind = "revenue" -> form = "revenue"
             [] OTHER -> form \in {"no records", "sentences", "table"})
      BY <2>2, FormFits DEF FormInv
    <2> HIDE DEF form
    <2>4. /\ ask'.pc = "idle" /\ ask'.query = ask.query
          /\ ask'.form \in {form, "missing"}
      <3>1. CASE Possible(ask.query)
        BY <2>1, <3>1 DEF form
      <3>2. CASE ~Possible(ask.query)
        BY <2>1, <3>2
      <3> QED BY <3>1, <3>2
    <2> QED BY <2>3, <2>4 DEF FormInv, FormFitsQuery
  <1>5. CASE FailQuery
    BY <1>5 DEF FailQuery, FormInv, FormFitsQuery
  <1>6. /\ ChangeSchema => UNCHANGED ask
        /\ \A command : Start(command) => UNCHANGED ask
        /\ Connect \/ FailReading => UNCHANGED ask
    <2>1. ChangeSchema => UNCHANGED ask
      BY DEF ChangeSchema
    <2>2. \A command : Start(command) => UNCHANGED ask
      BY DEF Start
    <2>3. Connect \/ FailReading => UNCHANGED ask
      BY DEF Connect, FailReading
    <2> QED BY <2>1, <2>2, <2>3
  <1>7. ReadingStep => UNCHANGED ask
    <2>1. Install => UNCHANGED ask
      BY DEF Install, Installed
    <2>2. ListTables => UNCHANGED ask
      BY DEF ListTables
    <2>3. LoadColumns => UNCHANGED ask
      BY DEF LoadColumns
    <2>4. RefreshCatalog => UNCHANGED ask
      BY DEF RefreshCatalog
    <2> QED BY <2>1, <2>2, <2>3, <2>4 DEF ReadingStep
  <1>8. UNCHANGED vars => UNCHANGED ask
    BY DEF vars
  <1> QED BY <1>1, <1>2, <1>3, <1>4, <1>5, <1>6, <1>7, <1>8 DEF Next

(* Every planned query is reported in the form that fits its kind. *)
THEOREM FormFitsQueryAlways == Spec => []FormFitsQuery
PROOF
  <1>1. FormInv => FormFitsQuery
    BY DEF FormInv
  <1> QED BY <1>1, FormInit, FormStep, PTL DEF Spec

-----------------------------------------------------------------------------
(* The history of schemas only grows. *)
Schemas == UNION {[tables -> Seq(Columns)] : tables \in SUBSET DOMAIN TableOrder}

LEMMA FirstIsSchema == FirstSchema \in Schemas
PROOF
  <1>1. IsSchema(FirstSchema)
    BY AssistantAssumption
  <1> QED BY <1>1 DEF IsSchema, Schemas

LEMMA PastType == Init => past \in Seq(Schemas) /\ Len(past) = 1
PROOF BY FirstIsSchema DEF Init

LEMMA NewSchema ==
    ASSUME NEW s \in Schemas, NEW new,
           new \in
            {Restrict(s, DOMAIN s \ {i}) : i \in DOMAIN s}
            \cup {[j \in DOMAIN s \cup {i} |-> IF j = i THEN FirstSchema[i] ELSE s[j]] :
                    i \in DOMAIN FirstSchema \ DOMAIN s}
            \cup {[s EXCEPT ![i] = RemoveAt(@, 1)] : i \in {j \in DOMAIN s : s[j] # << >>}}
            \cup {[s EXCEPT ![p[1]] = Append(@, p[2])] :
                    p \in {q \in (DOMAIN s) \X Extra : q[2] \notin Range(s[q[1]])}}
    PROVE  new \in Schemas
PROOF
  <1>1. PICK tables \in SUBSET DOMAIN TableOrder : s \in [tables -> Seq(Columns)]
    BY DEF Schemas
  <1>2. PICK first \in SUBSET DOMAIN TableOrder : FirstSchema \in [first -> Seq(Columns)]
    BY FirstIsSchema DEF Schemas
  <1>3. ASSUME NEW i \in DOMAIN s, new = Restrict(s, DOMAIN s \ {i})
        PROVE  new \in Schemas
    <2>1. new \in [tables \ {i} -> Seq(Columns)]
      BY <1>1, <1>3 DEF Restrict
    <2> QED BY <2>1 DEF Schemas
  <1>4. ASSUME NEW i \in DOMAIN FirstSchema \ DOMAIN s,
               new = [j \in DOMAIN s \cup {i} |-> IF j = i THEN FirstSchema[i] ELSE s[j]]
        PROVE  new \in Schemas
    <2>1. new \in [tables \cup {i} -> Seq(Columns)]
      BY <1>1, <1>2, <1>4
    <2>2. tables \cup {i} \in SUBSET DOMAIN TableOrder
      BY <1>1, <1>2
    <2> QED BY <2>1, <2>2 DEF Schemas
  <1>5. ASSUME NEW i \in DOMAIN s, s[i] # << >>, new = [s EXCEPT ![i] = RemoveAt(@, 1)]
        PROVE  new \in Schemas
    <2>1. s[i] \in Seq(Columns) /\ Len(s[i]) >= 1
      BY <1>1, <1>5
    <2>2. RemoveAt(s[i], 1) \in Seq(Columns)
      BY <2>1 DEF RemoveAt
    <2>3. new \in [tables -> Seq(Columns)]
      BY <1>1, <1>5, <2>2
    <2> QED BY <2>3 DEF Schemas
  <1>6. ASSUME NEW p \in (DOMAIN s) \X Extra, new = [s EXCEPT ![p[1]] = Append(@, p[2])]
        PROVE  new \in Schemas
    <2>1. p[1] \in tables /\ p[2] \in Columns
      BY <1>1, <1>6, AssistantAssumption
    <2>2. Append(s[p[1]], p[2]) \in Seq(Columns)
      BY <1>1, <2>1
    <2>3. new \in [tables -> Seq(Columns)]
      BY <1>1, <1>6, <2>1, <2>2
    <2> QED BY <2>3 DEF Schemas
  <1> QED BY <1>3, <1>4, <1>5, <1>6

LEMMA PastGrows ==
    ASSUME past \in Seq(Schemas), Len(past) >= 1, [Next]_vars
    PROVE  /\ past' \in Seq(Schemas) /\ Len(past') >= Len(past)
           /\ \A v \in 1..Len(past) : past'[v] = past[v]
PROOF
  <1>1. CASE UNCHANGED past
    BY <1>1
  <1>2. CASE ChangeSchema
    <2>1. PICK new \in Schemas : past' = Append(past, new)
      <3>1. schema \in Schemas
        BY DEF schema, Now
      <3> HIDE DEF schema
      <3> QED BY <1>2, <3>1, NewSchema DEF ChangeSchema
    <2> QED BY <2>1
  <1>3. (Next /\ ~ChangeSchema) \/ UNCHANGED vars => UNCHANGED past
    <2>1. \A command : Start(command) => UNCHANGED past
      BY DEF Start
    <2>2. Connect \/ FailReading \/ RunQuery \/ FailQuery \/ Exit => UNCHANGED past
      BY DEF Connect, FailReading, RunQuery, FailQuery, Exit
    <2>3. \A question : PlanQuestion(question) => UNCHANGED past
      BY DEF PlanQuestion
    <2>4. RefreshCatalog \/ ListTables => UNCHANGED past
      BY DEF RefreshCatalog, ListTables
    <2>5. LoadColumns \/ Install => UNCHANGED past
      BY DEF LoadColumns, Install, Installed
    <2> QED BY <2>1, <2>2, <2>3, <2>4, <2>5 DEF Next, ReadingStep, vars
  <1> QED BY <1>1, <1>2, <1>3

-----------------------------------------------------------------------------
(* The same statements about a history, a provider and a reading as values:*)
(* a history that goes on does not take back what was read.                *)
ReadIn(history, provider, i, columns, start) ==
    \E v, w \in start..Len(history) :
        /\ v <= w /\ i \in DOMAIN history[v] /\ MayList(provider, i)
        /\ columns \in Readings(provider, history[w], i)
SeenIn(history, provider, i, start) ==
    \E v \in start..Len(history) : i \in DOMAIN history[v] /\ MayList(provider, i)
LoadedIn(history, provider, tables, left, start) ==
    \A i \in DOMAIN tables :
        /\ SeenIn(history, provider, i, start)
        /\ i \notin left => ReadIn(history, provider, i, tables[i], start)

Extends(history, longer) ==
    /\ Len(history) \in Nat /\ Len(longer) \in Nat /\ Len(history) <= Len(longer)
    /\ \A v \in 1..Len(history) : longer[v] = history[v]

LEMMA ReadStays ==
    ASSUME NEW history, NEW longer, Extends(history, longer), NEW provider, NEW i, NEW columns,
           NEW start \in 1..Len(history), ReadIn(history, provider, i, columns, start)
    PROVE  ReadIn(longer, provider, i, columns, start)
PROOF
  <1>1. PICK v \in start..Len(history), w \in start..Len(history) :
            /\ v <= w /\ i \in DOMAIN history[v] /\ MayList(provider, i)
            /\ columns \in Readings(provider, history[w], i)
    BY DEF ReadIn
  <1>2. /\ v \in start..Len(longer) /\ w \in start..Len(longer)
        /\ longer[v] = history[v] /\ longer[w] = history[w]
    BY DEF Extends
  <1> QED BY <1>1, <1>2 DEF ReadIn

LEMMA SeenStays ==
    ASSUME NEW history, NEW longer, Extends(history, longer), NEW provider, NEW i,
           NEW start \in 1..Len(history), SeenIn(history, provider, i, start)
    PROVE  SeenIn(longer, provider, i, start)
PROOF BY DEF SeenIn, Extends

LEMMA LoadedStays ==
    ASSUME NEW history, NEW longer, Extends(history, longer), NEW provider, NEW tables, NEW left,
           NEW start \in 1..Len(history), LoadedIn(history, provider, tables, left, start)
    PROVE  LoadedIn(longer, provider, tables, left, start)
PROOF
  <1> SUFFICES ASSUME NEW i \in DOMAIN tables
               PROVE  /\ SeenIn(longer, provider, i, start)
                      /\ i \notin left => ReadIn(longer, provider, i, tables[i], start)
    BY DEF LoadedIn
  <1>1. SeenIn(longer, provider, i, start)
    BY SeenStays DEF LoadedIn
  <1>2. i \notin left => ReadIn(longer, provider, i, tables[i], start)
    BY ReadStays DEF LoadedIn
  <1> QED BY <1>1, <1>2

(* What is known of a reading under way is what is left of it, and of the  *)
(* catalog that it is the result of one that was complete.                 *)
ShapeOf(read) ==
    read = [pc |-> read.pc, tables |-> read.tables, left |-> read.left, since |-> read.since]
CatalogInv ==
    /\ ShapeOf(reading)
    /\ past \in Seq(Schemas) /\ Len(past) >= 1
    /\ since \in 1..Len(past) /\ reading.since \in 1..Len(past)
    /\ LoadedIn(past, process.provider, catalog, {}, since)
    /\ reading.pc = "columns" =>
           LoadedIn(past, process.provider, reading.tables, reading.left, reading.since)
    /\ reading.pc # "no" => process.pc # "down"
    /\ process.pc = "down" => catalog = << >>

LEMMA CatalogInit == Init => CatalogInv
PROOF
  <1> SUFFICES ASSUME Init PROVE CatalogInv
    OBVIOUS
  <1>1. past \in Seq(Schemas) /\ Len(past) = 1
    BY PastType
  <1>2. /\ since = 1 /\ reading.since = 1 /\ reading.pc = "no" /\ catalog = << >>
    BY DEF Init, NotReading
  <1> ShapeOf(reading)
    BY DEF Init, NotReading, ShapeOf
  <1>3. LoadedIn(past, process.provider, catalog, {}, since)
    BY <1>2 DEF LoadedIn
  <1> QED BY <1>1, <1>2, <1>3 DEF CatalogInv

(* The steps that leave the catalog and the reading alone. *)
LEMMA OldReadingStays ==
    ASSUME CatalogInv, [Next]_vars, process'.provider = process.provider,
           UNCHANGED <<catalog, since>>
    PROVE  /\ past' \in Seq(Schemas) /\ Len(past') >= 1 /\ Extends(past, past')
           /\ since' \in 1..Len(past') /\ reading.since \in 1..Len(past')
           /\ LoadedIn(past', process'.provider, catalog', {}, since')
           /\ reading.pc = "columns" =>
                 LoadedIn(past', process'.provider, reading.tables, reading.left, reading.since)
PROOF
  <1>1. /\ past' \in Seq(Schemas) /\ Len(past') >= Len(past)
        /\ \A v \in 1..Len(past) : past'[v] = past[v]
    BY PastGrows DEF CatalogInv
  <1>2. Len(past) \in Nat /\ Len(past') \in Nat
    BY <1>1 DEF CatalogInv
  <1>3. Extends(past, past')
    BY <1>1, <1>2 DEF Extends
  <1>4. LoadedIn(past', process.provider, catalog, {}, since)
    BY <1>3, LoadedStays DEF CatalogInv
  <1>5. reading.pc = "columns" =>
            LoadedIn(past', process.provider, reading.tables, reading.left, reading.since)
    BY <1>3, LoadedStays DEF CatalogInv
  <1> QED BY <1>1, <1>2, <1>3, <1>4, <1>5 DEF CatalogInv


(* The steps that change neither catalog nor provider nor begin a reading. *)
LEMMA CatalogKept ==
    ASSUME CatalogInv, [Next]_vars, UNCHANGED <<catalog, since>>,
           process'.provider = process.provider, process'.pc # "down",
           reading' = reading \/ reading' = NotReading
    PROVE  CatalogInv'
PROOF
  <1>1. NotReading.pc = "no" /\ NotReading.since = 1 /\ ShapeOf(NotReading)
    BY DEF NotReading, ShapeOf
  <1>2. Len(past') >= 1 /\ Len(past') \in Nat
    BY OldReadingStays
  <1>3. CASE reading' = reading
    BY <1>3, OldReadingStays DEF CatalogInv
  <1>4. CASE reading' = NotReading
    BY <1>1, <1>2, <1>4, OldReadingStays DEF CatalogInv
  <1> QED BY <1>3, <1>4

LEMMA CatalogStarts ==
    ASSUME CatalogInv, [Next]_vars, NEW command, Start(command)
    PROVE  CatalogInv'
PROOF
  <1>1. /\ UNCHANGED <<past, catalog, since, reading>>
        /\ process.pc = "down" /\ catalog = << >> /\ reading.pc = "no"
    BY DEF Start, CatalogInv
  <1>2. LoadedIn(past', process'.provider, catalog', {}, since')
    BY <1>1 DEF LoadedIn
  <1> QED BY <1>1, <1>2 DEF CatalogInv

LEMMA ReadingBegins ==
    ASSUME CatalogInv, [Next]_vars, Connect \/ RefreshCatalog
    PROVE  CatalogInv'
PROOF
  <1>1. UNCHANGED <<past, process, catalog, since>>
    BY DEF Connect, RefreshCatalog
  <1>2. reading' = [NotReading EXCEPT !.pc = "list", !.since = Now]
    BY DEF Connect, RefreshCatalog, BeginReading
  <1>3. reading'.pc = "list" /\ reading'.since = Len(past) /\ ShapeOf(reading')
    BY <1>2 DEF NotReading, Now, ShapeOf
  <1>4. process.pc # "down"
    BY DEF Connect, RefreshCatalog
  <1> QED BY <1>1, <1>3, <1>4 DEF CatalogInv

LEMMA TablesListed ==
    ASSUME CatalogInv, [Next]_vars, ListTables
    PROVE  CatalogInv'
PROOF
  <1>1. UNCHANGED <<past, process, catalog, since>> /\ reading.pc = "list"
    BY DEF ListTables
  <1>2. reading' = [reading EXCEPT !.pc = "columns", !.tables = Names, !.left = DOMAIN Names]
    BY DEF ListTables
  <1>3. /\ reading'.since = reading.since /\ ShapeOf(reading') /\ reading'.pc # "no"
        /\ reading'.tables = Names /\ reading'.left = DOMAIN Names
    <2>1. ShapeOf(reading)
      BY DEF CatalogInv
    <2> DEFINE listed == Names
    <2>2. reading = [pc |-> reading.pc, tables |-> reading.tables, left |-> reading.left,
                     since |-> reading.since]
      BY <2>1 DEF ShapeOf
    <2>3. reading' = [reading EXCEPT !.pc = "columns", !.tables = listed, !.left = DOMAIN listed]
      BY <1>2
    <2> HIDE DEF listed
    <2>4. reading' = [pc |-> "columns", tables |-> listed, left |-> DOMAIN listed,
                      since |-> reading.since]
      BY <2>2, <2>3
    <2> QED BY <2>4 DEF ShapeOf, listed
  <1>4. LoadedIn(past, process.provider, Names, DOMAIN Names, reading.since)
    <2>1. ASSUME NEW i \in DOMAIN Names
          PROVE  SeenIn(past, process.provider, i, reading.since)
      <3>1. i \in DOMAIN past[Len(past)] /\ MayList(process.provider, i)
        BY <2>1 DEF Names, Listed, schema, Now
      <3>2. Len(past) \in reading.since..Len(past)
        BY DEF CatalogInv
      <3> QED BY <3>1, <3>2 DEF SeenIn
    <2> QED BY <2>1 DEF LoadedIn
  <1> QED BY <1>1, <1>3, <1>4 DEF CatalogInv


LEMMA ColumnsLoaded ==
    ASSUME CatalogInv, [Next]_vars, LoadColumns
    PROVE  CatalogInv'
PROOF
  <1>1. UNCHANGED <<past, process, catalog, since>> /\ reading.pc = "columns"
    BY DEF LoadColumns
  <1>0. PICK i \in reading.left :
            \E columns \in Readings(process.provider, schema, i) :
                reading' = [reading EXCEPT
                    !.tables = [j \in DOMAIN @ |-> IF j = i THEN columns ELSE @[j]],
                    !.left = @ \ {i}]
    BY DEF LoadColumns
  <1>2. PICK columns \in Readings(process.provider, schema, i) :
            reading' = [reading EXCEPT
                !.tables = [j \in DOMAIN @ |-> IF j = i THEN columns ELSE @[j]],
                !.left = @ \ {i}]
    BY <1>0
  <1> DEFINE tables == [j \in DOMAIN reading.tables |->
                            IF j = i THEN columns ELSE reading.tables[j]]
             left == reading.left \ {i}
  <1>3. /\ ShapeOf(reading') /\ reading'.pc = "columns" /\ reading'.since = reading.since
        /\ reading'.tables = tables /\ reading'.left = left
    <2>1. ShapeOf(reading)
      BY DEF CatalogInv
    <2>2. reading = [pc |-> reading.pc, tables |-> reading.tables, left |-> reading.left,
                     since |-> reading.since]
      BY <2>1 DEF ShapeOf
    <2>3. reading' = [reading EXCEPT !.tables = tables, !.left = left]
      BY <1>2
    <2> HIDE DEF tables, left
    <2>4. reading' = [pc |-> reading.pc, tables |-> tables, left |-> left,
                      since |-> reading.since]
      BY <2>2, <2>3
    <2> QED BY <1>1, <2>4 DEF ShapeOf
  <1>4. LoadedIn(past, process.provider, tables, left, reading.since)
    <2> SUFFICES ASSUME NEW j \in DOMAIN tables
                 PROVE  /\ SeenIn(past, process.provider, j, reading.since)
                        /\ j \notin left =>
                               ReadIn(past, process.provider, j, tables[j], reading.since)
      BY DEF LoadedIn
    <2>1. j \in DOMAIN reading.tables
      OBVIOUS
    <2>2. SeenIn(past, process.provider, j, reading.since)
      BY <1>1, <2>1 DEF CatalogInv, LoadedIn
    <2>3. CASE j = i
      <3>1. PICK v \in reading.since..Len(past) :
                i \in DOMAIN past[v] /\ MayList(process.provider, i)
        BY <2>2, <2>3 DEF SeenIn
      <3>2. Len(past) \in reading.since..Len(past) /\ v <= Len(past)
        BY <3>1 DEF CatalogInv
      <3>3. columns \in Readings(process.provider, past[Len(past)], i)
        BY <1>2 DEF schema, Now
      <3>4. ReadIn(past, process.provider, i, columns, reading.since)
        BY <3>1, <3>2, <3>3 DEF ReadIn
      <3> QED BY <2>2, <2>3, <3>4
    <2>4. CASE j # i
      <3>1. tables[j] = reading.tables[j] /\ (j \notin left => j \notin reading.left)
        BY <2>4
      <3>2. j \notin reading.left =>
                ReadIn(past, process.provider, j, reading.tables[j], reading.since)
        BY <1>1, <2>1 DEF CatalogInv, LoadedIn
      <3> QED BY <2>2, <3>1, <3>2
    <2> QED BY <2>3, <2>4
  <1> HIDE DEF tables, left
  <1> QED BY <1>1, <1>3, <1>4 DEF CatalogInv

ProcessShape ==
    process = [pc |-> process.pc, command |-> process.command,
               provider |-> process.provider, readOnly |-> process.readOnly]

LEMMA CatalogInstalled ==
    ASSUME CatalogInv, [Next]_vars, Install, ProcessShape
    PROVE  CatalogInv'
PROOF
  <1>1. /\ past' = past /\ catalog' = reading.tables /\ since' = reading.since
        /\ reading' = NotReading /\ reading.pc = "columns" /\ reading.left = {}
    BY DEF Install, Installed, Complete
  <1>2. process'.provider = process.provider /\ process'.pc \in {"serving", "ended"}
    BY DEF Install, Installed, ProcessShape
  <1>3. LoadedIn(past, process.provider, reading.tables, {}, reading.since)
    BY <1>1 DEF CatalogInv
  <1>4. /\ NotReading.pc = "no" /\ NotReading.since = 1 /\ ShapeOf(NotReading)
    BY DEF NotReading, ShapeOf
  <1> QED BY <1>1, <1>2, <1>3, <1>4 DEF CatalogInv

LEMMA ShapeInit == Init => ProcessShape
PROOF BY DEF Init, Down, ProcessShape

LEMMA ShapeStep == ProcessShape /\ [Next]_vars => ProcessShape'
PROOF
  <1> SUFFICES ASSUME ProcessShape, [Next]_vars PROVE ProcessShape'
    OBVIOUS
  <1>1. CASE UNCHANGED process
    BY <1>1 DEF ProcessShape
  <1>2. ASSUME NEW command, Start(command)
        PROVE  ProcessShape'
    <2>1. PICK env \in Environments, lines \in DotEnvs :
              process' = Outcome(command, LoadDotEnv(env, lines))
      BY <1>2 DEF Start
    <2> DEFINE full == LoadDotEnv(env, lines)
               config == LoadConfig(full)
    <2>2. \/ process' = [Down EXCEPT !.pc = "alone", !.command = command]
          \/ process' = [Down EXCEPT !.pc = "ended", !.command = command]
          \/ process' = [pc |-> "connecting", command |-> command,
                         provider |-> config.provider, readOnly |-> config.readOnly]
      BY <2>1 DEF Outcome
    <2> HIDE DEF config
    <2> QED BY <2>2 DEF Down, ProcessShape
  <1>3. ASSUME NEW pc, process' = [process EXCEPT !.pc = pc]
        PROVE  ProcessShape'
    BY <1>3 DEF ProcessShape
  <1>4. Install \/ FailReading \/ Exit => \E pc : process' = [process EXCEPT !.pc = pc]
    BY DEF Install, Installed, FailReading, Exit
  <1>5. ChangeSchema \/ Connect => UNCHANGED process
    BY DEF ChangeSchema, Connect
  <1>6. RefreshCatalog \/ ListTables \/ LoadColumns => UNCHANGED process
    BY DEF RefreshCatalog, ListTables, LoadColumns
  <1>7. RunQuery \/ FailQuery => UNCHANGED process
    BY DEF RunQuery, FailQuery
  <1>8. \A question : PlanQuestion(question) => UNCHANGED process
    BY DEF PlanQuestion
  <1> QED BY <1>1, <1>2, <1>3, <1>4, <1>5, <1>6, <1>7, <1>8 DEF Next, ReadingStep, vars

LEMMA CatalogStep ==
    CatalogInv /\ ProcessShape /\ [Next]_vars => CatalogInv'
PROOF
  <1> SUFFICES ASSUME CatalogInv, ProcessShape, [Next]_vars PROVE CatalogInv'
    OBVIOUS
  <1>1. ASSUME NEW command, Start(command)
        PROVE  CatalogInv'
    BY <1>1, CatalogStarts
  <1>2. CASE Connect \/ RefreshCatalog
    BY <1>2, ReadingBegins
  <1>3. CASE ListTables
    BY <1>3, TablesListed
  <1>4. CASE LoadColumns
    BY <1>4, ColumnsLoaded
  <1>5. CASE Install
    BY <1>5, CatalogInstalled
  <1>6. CASE FailReading
    <2>1. UNCHANGED <<catalog, since>> /\ reading' = NotReading /\ process.pc # "down"
      BY <1>6 DEF FailReading, CatalogInv
    <2>2. process'.provider = process.provider /\ process'.pc # "down"
      BY <1>6, <2>1 DEF FailReading, ProcessShape
    <2> QED BY <2>1, <2>2, CatalogKept
  <1>7. CASE Exit
    <2>1. UNCHANGED <<catalog, since>> /\ reading' = NotReading
      BY <1>7 DEF Exit
    <2>2. process'.provider = process.provider /\ process'.pc # "down"
      BY <1>7 DEF Exit, ProcessShape
    <2> QED BY <2>1, <2>2, CatalogKept
  <1>8. CASE ChangeSchema
    <2>1. UNCHANGED <<catalog, since, process, reading>> /\ process.pc # "down"
      BY <1>8 DEF ChangeSchema
    <2> QED BY <2>1, CatalogKept
  <1>9. ASSUME NEW question, PlanQuestion(question)
        PROVE  CatalogInv'
    <2>1. UNCHANGED <<catalog, since, process, reading>> /\ process.pc # "down"
      BY <1>9 DEF PlanQuestion
    <2> QED BY <2>1, CatalogKept
  <1>10. CASE RunQuery \/ FailQuery
    <2>1. UNCHANGED <<catalog, since, process, reading>> /\ process.pc # "down"
      BY <1>10 DEF RunQuery, FailQuery
    <2> QED BY <2>1, CatalogKept
  <1>11. CASE UNCHANGED vars
    BY <1>11 DEF vars, CatalogInv
  <1> QED
    BY <1>1, <1>2, <1>3, <1>4, <1>5, <1>6, <1>7, <1>8, <1>9, <1>10, <1>11
    DEF Next, ReadingStep

(* What the catalog says was true while it was read, however the schema    *)
(* changes and however often a reading fails or is cut short.              *)
THEOREM CatalogWasTrueAlways == Spec => []CatalogWasTrue
PROOF
  <1>1. CatalogInv => CatalogWasTrue
    <2> SUFFICES ASSUME CatalogInv, NEW i \in DOMAIN catalog
                 PROVE  WasRead(i, catalog[i], since)
      BY DEF CatalogWasTrue
    <2>1. ReadIn(past, process.provider, i, catalog[i], since)
      BY DEF CatalogInv, LoadedIn
    <2> QED BY <2>1 DEF ReadIn, WasRead, MayList, Now
  <1> QED BY <1>1, CatalogInit, CatalogStep, ShapeInit, ShapeStep, PTL DEF Spec

-----------------------------------------------------------------------------
(* A question fails for what is not there.  A query asks for columns that  *)
(* its table has in the catalog; and a catalog that is as new as the       *)
(* schema is a part of the schema.                                         *)
ColumnsOf(tables) == \A i \in DOMAIN tables : tables[i] \in Seq(Columns)

LEMMA ReadColumns ==
    ASSUME NEW history \in Seq(Schemas), NEW provider, NEW i, NEW columns,
           NEW start \in 1..Len(history), ReadIn(history, provider, i, columns, start)
    PROVE  i \in DOMAIN TableOrder
PROOF
  <1>1. PICK v \in start..Len(history) : i \in DOMAIN history[v]
    BY DEF ReadIn
  <1>2. v \in 1..Len(history)
    BY <1>1, LenProperties
  <1>3. history[v] \in Schemas
    BY <1>2, ElementOfSeq
  <1>4. PICK tables \in SUBSET DOMAIN TableOrder : history[v] \in [tables -> Seq(Columns)]
    BY <1>3 DEF Schemas
  <1> QED BY <1>1, <1>4

(* A catalog read within one version of the schema. *)
LEMMA CatalogIsNow ==
    ASSUME CatalogInv, since = Now, process.provider \in SQLProviders
    PROVE  /\ DOMAIN catalog \subseteq DOMAIN schema /\ schema \in Schemas
           /\ \A i \in DOMAIN catalog : catalog[i] = schema[i]
PROOF
  <1>1. Len(past) \in 1..Len(past) /\ past \in Seq(Schemas)
    BY LenProperties DEF CatalogInv
  <1>2. schema \in Schemas
    BY <1>1, ElementOfSeq DEF schema, Now
  <1>3. ASSUME NEW i \in DOMAIN catalog
        PROVE  i \in DOMAIN schema /\ catalog[i] = schema[i]
    <2>1. ReadIn(past, process.provider, i, catalog[i], Len(past))
      BY DEF CatalogInv, LoadedIn, Now
    <2>2. PICK v \in Len(past)..Len(past), w \in Len(past)..Len(past) :
              /\ i \in DOMAIN past[v]
              /\ catalog[i] \in Readings(process.provider, past[w], i)
      BY <2>1 DEF ReadIn
    <2>3. v = Len(past) /\ w = Len(past)
      BY <1>1
    <2>4. i \in DOMAIN schema /\ catalog[i] \in Readings(process.provider, schema, i)
      BY <2>2, <2>3 DEF schema, Now
    <2>5. process.provider # "mongodb"
      BY DEF SQLProviders
    <2> QED BY <2>4, <2>5 DEF Readings
  <1> QED BY <1>2, <1>3

LEMMA TablesAreTables ==
    ASSUME NEW columns, DOMAIN columns \subseteq DOMAIN TableOrder, ColumnsOf(columns)
    PROVE  LET T == Range(TablesOf(columns)) IN
           /\ TablesOf(columns) \in Seq(T)
           /\ \A t \in T : Table(t) /\ t.place \in DOMAIN columns /\ t.columns = columns[t.place]
PROOF
  <1> DEFINE places == DOMAIN columns
             n == Cardinality(places)
             order == InOrder(places)
             tables == TablesOf(columns)
             T == Range(tables)
  <1>1. places \subseteq Nat /\ IsFiniteSet(places)
    BY AssistantAssumption, FS_Subset
  <1>2. n \in Nat /\ order \in [1..n -> places]
    BY <1>1, InOrderIs
  <1>3. tables = [k \in 1..n |-> [place |-> order[k], words |-> TableOrder[order[k]].words,
                                  columns |-> columns[order[k]]]]
    BY <1>2 DEF TablesOf
  <1> HIDE DEF n, order, tables
  <1>4. tables \in Seq(T)
    <2>1. DOMAIN tables = 1..n
      BY <1>3
    <2>2. tables \in [1..n -> T]
      BY <1>3, <2>1 DEF Range
    <2> QED BY <1>2, <2>2, SeqDef
  <1>5. ASSUME NEW t \in T
        PROVE  Table(t) /\ t.place \in DOMAIN columns /\ t.columns = columns[t.place]
    <2>1. PICK k \in 1..n : t = tables[k]
      BY <1>3 DEF Range
    <2>2. t = [place |-> order[k], words |-> TableOrder[order[k]].words,
               columns |-> columns[order[k]]]
      BY <1>3, <2>1
    <2>3. order[k] \in places
      BY <1>2
    <2>4. t.place = order[k] /\ t.columns = columns[order[k]]
      BY <2>2
    <2>5. t.columns \in Seq(Columns)
      BY <2>3, <2>4 DEF ColumnsOf
    <2>6. t.columns \in Seq(Range(t.columns))
      <3>1. t.columns \in [1..Len(t.columns) -> Range(t.columns)] /\ Len(t.columns) \in Nat
        BY <2>5 DEF Range
      <3> QED BY <3>1, SeqDef
    <2> QED BY <2>3, <2>4, <2>6 DEF Table
  <1> QED BY <1>4, <1>5 DEF tables

(* Of which table a query asks which columns. *)
LEMMA QueryOf ==
    ASSUME NEW T, \A t \in T : Table(t), NEW tables \in Seq(T),
           NEW question, question.words \in Seq(STRING),
           NEW query, query = Plan(tables, question), query # Unsupported
    PROVE  \E t \in T : query.table = t /\ Selected(query) \subseteq Range(t.columns)
PROOF
  <1>1. CASE \E t \in T : query = countQuery(t)
    BY <1>1 DEF countQuery, Selected
  <1>2. CASE \E t \in T : query = absenceQuery(t)
    <2>1. PICK t \in T : query = absenceQuery(t)
      BY <1>2
    <2>2. /\ query.kind = "absence" /\ query.table = t
          /\ {query.date, query.name} \subseteq Range(t.columns)
          /\ query.status = NoColumn \/ query.status \in Range(t.columns)
      BY <2>1, AbsenceRoles
    <2>3. Selected(query) = {query.date, query.name, query.status} \ {NoColumn}
      BY <2>2 DEF Selected
    <2> QED BY <2>2, <2>3
  <1>3. CASE \E t \in T : query = revenueQuery(t)
    <2>1. PICK t \in T : query = revenueQuery(t)
      BY <1>3
    <2> DEFINE amounts == Amounts(t, {query.date.name})
               money == MoneyAmounts(t, {query.date.name})
    <2>2. /\ query.kind = "revenue" /\ query.table = t /\ query.date \in Range(t.columns)
          /\ query.amount \in IF money # {} THEN money ELSE amounts
      BY <2>1, RevenueRoles
    <2>3. amounts \subseteq Range(t.columns) /\ money \subseteq Range(t.columns)
      BY DEF Amounts, MoneyAmounts
    <2>4. Selected(query) = {query.date, query.amount}
      BY <2>2 DEF Selected
    <2>5. query.amount \in Range(t.columns)
      BY <2>2, <2>3
    <2> QED BY <2>2, <2>4, <2>5
  <1>4. \/ \E t \in T : query = countQuery(t)
        \/ \E t \in T : query = absenceQuery(t)
        \/ \E t \in T : query = revenueQuery(t)
    BY PlanIs
  <1> QED BY <1>1, <1>2, <1>3, <1>4

(* A query that was planned from what the schema is now can be run.        *)
FailureInv ==
    /\ FailureIsExplained
    /\ ask.since \in 1..Now
    /\ ask.pc \in {"idle", "planned"}
    /\ ask.pc = "planned" /\ ask.since = Now => Possible(ask.query)

LEMMA PlannedIsPossible ==
    ASSUME CatalogInv, since = Now, process.provider \in SQLProviders,
           NEW question \in Questions,
           NEW query, query = Plan(TablesOf(catalog), question), query # Unsupported
    PROVE  Possible(query)
PROOF
  <1>1. /\ DOMAIN catalog \subseteq DOMAIN schema /\ schema \in Schemas
        /\ \A i \in DOMAIN catalog : catalog[i] = schema[i]
    BY CatalogIsNow
  <1>2. PICK there \in SUBSET DOMAIN TableOrder : schema \in [there -> Seq(Columns)]
    BY <1>1 DEF Schemas
  <1>3. DOMAIN catalog \subseteq DOMAIN TableOrder /\ ColumnsOf(catalog)
    BY <1>1, <1>2 DEF ColumnsOf
  <1> DEFINE tables == TablesOf(catalog)
             T == Range(tables)
  <1>4. /\ tables \in Seq(T)
        /\ \A t \in T : Table(t) /\ t.place \in DOMAIN catalog /\ t.columns = catalog[t.place]
    BY <1>3, TablesAreTables
  <1>5. question.words \in Seq(STRING)
    BY AssistantAssumption
  <1>6. query = Plan(tables, question)
    OBVIOUS
  <1> HIDE DEF tables, T
  <1>7. PICK t \in T : query.table = t /\ Selected(query) \subseteq Range(t.columns)
    BY <1>4, <1>5, <1>6, QueryOf
  <1> QED BY <1>1, <1>4, <1>7 DEF Possible

LEMMA FailureInit == Init => FailureInv
PROOF
  <1> SUFFICES ASSUME Init PROVE FailureInv
    OBVIOUS
  <1>1. ask.pc = "idle" /\ ask.form = "" /\ ask.since = 1
    BY DEF Init, NoAsk
  <1>2. Now = 1
    BY PastType DEF Now
  <1>3. FailureIsExplained
    BY <1>1 DEF FailureIsExplained
  <1>4. ask.since \in 1..Now
    <2>1. 1 \in 1..1
      OBVIOUS
    <2> QED BY <1>1, <1>2, <2>1, Zenon
  <1>5. ask.pc # "planned" /\ ask.pc \in {"idle", "planned"}
    BY <1>1
  <1> QED BY <1>3, <1>4, <1>5 DEF FailureInv

LEMMA QuestionPlanned ==
    ASSUME CatalogInv, ConnectedInv, FailureInv, NEW question \in Questions, PlanQuestion(question)
    PROVE  FailureInv'
PROOF
  <1> DEFINE query == Plan(TablesOf(catalog), question)
  <1>1. past' = past /\ process.pc = "serving"
    BY DEF PlanQuestion
  <1>2. Now' = Now /\ schema' = schema /\ Now \in Nat /\ 1 \in 1..Now
    BY <1>1, LenProperties DEF Now, schema, CatalogInv
  <1>3. CASE query = Unsupported
    <2>1. ask' = [NoAsk EXCEPT !.form = "unsupported"]
      BY <1>3 DEF PlanQuestion
    <2>2. ask'.pc = "idle" /\ ask'.form = "unsupported" /\ ask'.since = 1
      BY <2>1 DEF NoAsk
    <2> QED BY <1>2, <2>2 DEF FailureInv, FailureIsExplained
  <1>4. CASE query # Unsupported
    <2>1. ask' = [pc |-> "planned", phrases |-> question.phrases, query |-> query,
                  form |-> "", since |-> since]
      BY <1>4 DEF PlanQuestion
    <2>2. process.provider \in SQLProviders
      BY <1>1 DEF ConnectedInv, OpensReadOnly
    <2>3. since = Now => Possible(query)
      BY <1>4, <2>2, PlannedIsPossible
    <2> HIDE DEF query
    <2>4. ask'.pc = "planned" /\ ask'.query = query /\ ask'.form = "" /\ ask'.since = since
      BY <2>1
    <2>5. since \in 1..Now
      BY DEF CatalogInv, Now
    <2>6. ask'.since = Now' => Possible(ask'.query)
      BY <1>2, <2>3, <2>4
    <2>7. Possible(ask'.query) => Possible(ask.query)'
      BY <1>2 DEF Possible, Selected
    <2> QED BY <1>2, <2>4, <2>5, <2>6, <2>7 DEF FailureInv, FailureIsExplained
  <1> QED BY <1>3, <1>4

LEMMA NeverMissing ==
    ASSUME NEW phrases, NEW columns, NEW rows
    PROVE  formatAnswer(phrases, columns, rows) # "missing"
PROOF BY DEF formatAnswer

LEMMA QueryRuns ==
    ASSUME CatalogInv, FailureInv, RunQuery
    PROVE  FailureInv'
PROOF
  <1>1. PICK rows :
            ask' = [ask EXCEPT
                !.pc = "idle",
                !.form = IF Possible(ask.query)
                         THEN formatAnswer(ask.phrases, ResultColumns(ask.query), rows)
                         ELSE "missing"]
    BY DEF RunQuery
  <1>2. past' = past /\ ask.pc = "planned" /\ Now \in Nat
    BY LenProperties DEF RunQuery, CatalogInv, Now
  <1>3. Now' = Now
    BY <1>2 DEF Now
  <1> DEFINE form == IF Possible(ask.query)
                     THEN formatAnswer(ask.phrases, ResultColumns(ask.query), rows)
                     ELSE "missing"
  <1>4. form = "missing" => ~Possible(ask.query)
    BY NeverMissing
  <1> HIDE DEF form
  <1>5. ask' = [ask EXCEPT !.pc = "idle", !.form = form]
    BY <1>1 DEF form
  <1>6. ask'.since = ask.since
    BY <1>5
  <1>7. ask'.pc = "idle"
    <2>1. ask' = [[ask EXCEPT !.form = form] EXCEPT !.pc = "idle"]
      BY <1>5
    <2> QED BY <2>1, <1>5 DEF FailureInv
  <1> QED BY <1>2, <1>3, <1>4, <1>5, <1>6, <1>7 DEF FailureInv, FailureIsExplained

LEMMA FailureStep ==
    CatalogInv /\ ConnectedInv /\ FailureInv /\ [Next]_vars => FailureInv'
PROOF
  <1> SUFFICES ASSUME CatalogInv, ConnectedInv, FailureInv, [Next]_vars PROVE FailureInv'
    OBVIOUS
  <1>1. CASE UNCHANGED <<ask, past>>
    <2>1. Now' = Now /\ schema' = schema
      BY <1>1 DEF Now, schema
    <2>2. Possible(ask.query) => Possible(ask.query)'
      BY <1>1, <2>1 DEF Possible, Selected
    <2> QED BY <1>1, <2>1, <2>2 DEF FailureInv, FailureIsExplained
  <1>2. CASE ChangeSchema
    <2>1. ask' = ask
      BY <1>2 DEF ChangeSchema
    <2>2. past \in Seq(Schemas) /\ Now \in Nat
      BY LenProperties DEF CatalogInv, Now
    <2>3. PICK new : past' = Append(past, new)
      BY <1>2 DEF ChangeSchema
    <2>4. Now' = Now + 1
      BY <2>2, <2>3 DEF Now
    <2>5. ask'.since \in 1..Now
      BY <2>1 DEF FailureInv
    <2>6. ask'.since # Now' /\ Now' > ask'.since /\ ask'.since \in 1..Now'
      BY <2>2, <2>4, <2>5
    <2> QED BY <2>1, <2>6 DEF FailureInv, FailureIsExplained
  <1>3. ASSUME NEW question \in Questions, PlanQuestion(question)
        PROVE  FailureInv'
    BY <1>3, QuestionPlanned
  <1>4. CASE RunQuery
    BY <1>4, QueryRuns
  <1>5. CASE FailQuery
    <2>1. ask' = [ask EXCEPT !.pc = "idle", !.form = "query failed"] /\ past' = past
      BY <1>5 DEF FailQuery
    <2>2. Now' = Now
      BY <2>1 DEF Now
    <2>3. ask'.pc \in {"idle", ask.pc} /\ ask'.pc # "planned" /\ ask'.since = ask.since
      BY <1>5, <2>1 DEF FailQuery
    <2>4. ask'.form = "missing" => ask.form = "missing"
      BY <2>1
    <2> QED BY <2>2, <2>3, <2>4 DEF FailureInv, FailureIsExplained
  <1>6. CASE Exit
    <2>1. ask'.pc = "idle" /\ ask'.form = "" /\ ask'.since = 1 /\ past' = past
      BY <1>6 DEF Exit, NoAsk
    <2>2. Now' = Now
      BY <2>1 DEF Now
    <2>3. 1 \in 1..Now
      BY LenProperties DEF Now, CatalogInv
    <2> QED BY <2>1, <2>2, <2>3 DEF FailureInv, FailureIsExplained
  <1>7. \A command : Start(command) => UNCHANGED <<ask, past>>
    BY DEF Start
  <1>8. Connect \/ FailReading \/ RefreshCatalog => UNCHANGED <<ask, past>>
    BY DEF Connect, FailReading, RefreshCatalog
  <1>9. ListTables \/ LoadColumns \/ Install => UNCHANGED <<ask, past>>
    BY DEF ListTables, LoadColumns, Install, Installed
  <1>10. UNCHANGED vars => UNCHANGED <<ask, past>>
    BY DEF vars
  <1> QED
    BY <1>1, <1>2, <1>3, <1>4, <1>5, <1>6, <1>7, <1>8, <1>9, <1>10 DEF Next, ReadingStep

(* A question fails for a table or a column that is gone only if the schema*)
(* changed after the reading of the catalog it was planned with began.     *)
THEOREM FailureIsExplainedAlways == Spec => []FailureIsExplained
PROOF
  <1>1. FailureInv => FailureIsExplained
    BY DEF FailureInv
  <1> QED
    BY <1>1, FailureInit, FailureStep, ConnectedInit, ConnectedStep, CatalogInit, CatalogStep,
       ShapeInit, ShapeStep, PTL DEF Spec

-----------------------------------------------------------------------------
(* The types.  A provider is one of those that LoadConfig knows.           *)
ProcessTypes == [pc : {"down", "connecting", "alone", "serving", "ended"},
                 command : {"", "serve", "db-introspect"},
                 provider : Providers \cup {""}, readOnly : BOOLEAN]
ProcessInv == process \in ProcessTypes
ReadingInv ==
    /\ reading.pc \in {"no", "list", "columns"}
    /\ reading.left \subseteq DOMAIN reading.tables
    /\ IsSchema(reading.tables) /\ IsSchema(catalog)
    /\ (reading.pc = "no" <=> reading = NotReading)
    /\ failures \in 0..MaxFailures

LEMMA OutcomeType ==
    ASSUME NEW command \in {"serve", "db-introspect"}, NEW env
    PROVE  Outcome(command, env) \in ProcessTypes
PROOF
  <1> DEFINE config == LoadConfig(env)
  <1>1. config # Error => config.provider \in Providers /\ config.readOnly \in BOOLEAN
    BY DEF LoadConfig, ReadOnly
  <1>2. \/ Outcome(command, env) = [Down EXCEPT !.pc = "alone", !.command = command]
        \/ Outcome(command, env) = [Down EXCEPT !.pc = "ended", !.command = command]
        \/ /\ config # Error
           /\ Outcome(command, env) =
                [pc |-> "connecting", command |-> command,
                 provider |-> config.provider, readOnly |-> config.readOnly]
    BY DEF Outcome
  <1> HIDE DEF config
  <1>3. [Down EXCEPT !.pc = "alone", !.command = command] \in ProcessTypes
    BY DEF Down, ProcessTypes
  <1>4. [Down EXCEPT !.pc = "ended", !.command = command] \in ProcessTypes
    BY DEF Down, ProcessTypes
  <1>5. config # Error =>
            [pc |-> "connecting", command |-> command,
             provider |-> config.provider, readOnly |-> config.readOnly] \in ProcessTypes
    BY <1>1 DEF ProcessTypes
  <1> QED BY <1>2, <1>3, <1>4, <1>5

LEMMA ProcessTypeInit == Init => ProcessInv
PROOF
  <1>1. Down \in ProcessTypes
    BY DEF Down, ProcessTypes
  <1> QED BY <1>1 DEF Init, ProcessInv

LEMMA ProcessTypeStep == ProcessInv /\ [Next]_vars => ProcessInv'
PROOF
  <1> SUFFICES ASSUME process \in ProcessTypes, [Next]_vars PROVE process' \in ProcessTypes
    BY DEF ProcessInv, ProcessTypes
  <1>1. CASE UNCHANGED process
    BY <1>1
  <1>2. ASSUME NEW command \in {"serve", "db-introspect"}, Start(command)
        PROVE  process' \in ProcessTypes
    BY <1>2, OutcomeType DEF Start
  <1>3. CASE Install
    BY <1>3 DEF Install, Installed, ProcessTypes
  <1>4. CASE FailReading
    BY <1>4 DEF FailReading, ProcessTypes
  <1>5. CASE Exit
    BY <1>5 DEF Exit, ProcessTypes
  <1>6. ChangeSchema \/ Connect => UNCHANGED process
    BY DEF ChangeSchema, Connect
  <1>7. RefreshCatalog \/ ListTables \/ LoadColumns => UNCHANGED process
    BY DEF RefreshCatalog, ListTables, LoadColumns
  <1>8. RunQuery \/ FailQuery => UNCHANGED process
    BY DEF RunQuery, FailQuery
  <1>9. \A question : PlanQuestion(question) => UNCHANGED process
    BY DEF PlanQuestion
  <1> QED BY <1>1, <1>2, <1>3, <1>4, <1>5, <1>6, <1>7, <1>8, <1>9 DEF Next, ReadingStep, vars

(* Whatever is listed and read is a schema, also while it is incomplete. *)
LEMMA EmptyIsSchema == IsSchema(<< >>)
PROOF
  <1>1. DOMAIN << >> = {}
    OBVIOUS
  <1> QED BY <1>1 DEF IsSchema

LEMMA SchemaIs == ASSUME NEW s PROVE s \in Schemas <=> IsSchema(s)
PROOF BY DEF Schemas, IsSchema

LEMMA SchemaNow == ASSUME CatalogInv PROVE IsSchema(schema)
PROOF
  <1>1. past \in Seq(Schemas) /\ Len(past) \in 1..Len(past)
    BY LenProperties DEF CatalogInv
  <1>2. schema \in Schemas
    BY <1>1, ElementOfSeq DEF schema, Now
  <1> QED BY <1>2, SchemaIs

LEMMA NamesAreSchema == ASSUME IsSchema(schema) PROVE IsSchema(Names)
PROOF
  <1> DEFINE names == {j \in DOMAIN schema : MayList(process.provider, j)}
  <1>1. Names = [i \in names |-> << >>]
    BY DEF Names, Listed
  <1>2. names \subseteq DOMAIN TableOrder
    BY DEF IsSchema
  <1>3. << >> \in Seq(Columns)
    OBVIOUS
  <1> HIDE DEF names
  <1>4. DOMAIN Names = names /\ Names \in [names -> Seq(Columns)]
    BY <1>1, <1>3
  <1> QED BY <1>2, <1>4 DEF IsSchema

LEMMA ReadingsAreColumns ==
    ASSUME NEW s, IsSchema(s), NEW provider, NEW i, NEW columns \in Readings(provider, s, i)
    PROVE  columns \in Seq(Columns)
PROOF
  <1>1. CASE i \notin DOMAIN s
    BY <1>1 DEF Readings
  <1>2. CASE i \in DOMAIN s
    <2>1. s[i] \in Seq(Columns)
      BY <1>2 DEF IsSchema
    <2>2. CASE columns \in FieldsOf(s[i])
      <3>1. PICK m \in 0..Len(s[i]) : columns \in [1..m -> Range(s[i])]
        BY <2>2 DEF FieldsOf, SeqOf
      <3>2. Range(s[i]) \subseteq Columns
        BY <2>1 DEF Range
      <3>3. m \in Nat
        BY <2>1, <3>1, LenProperties
      <3> QED BY <3>1, <3>2, <3>3, SeqDef
    <2>3. columns \in FieldsOf(s[i]) \/ columns = s[i]
      BY <1>2 DEF Readings
    <2> QED BY <2>1, <2>2, <2>3
  <1> QED BY <1>1, <1>2

LEMMA ReadingInit == Init => ReadingInv
PROOF
  <1> SUFFICES ASSUME Init PROVE ReadingInv
    OBVIOUS
  <1>1. reading = NotReading /\ failures = 0
    BY DEF Init
  <1>2. NotReading.pc = "no" /\ NotReading.left = {} /\ IsSchema(NotReading.tables)
    BY EmptyIsSchema DEF NotReading
  <1>3. failures \in 0..MaxFailures
    BY <1>1, AssistantAssumption
  <1>4. IsSchema(catalog)
    BY EmptyIsSchema DEF Init
  <1> QED BY <1>1, <1>2, <1>3, <1>4 DEF ReadingInv

LEMMA ReadingStepKeeps ==
    CatalogInv /\ ReadingInv /\ [Next]_vars => ReadingInv'
PROOF
  <1> SUFFICES ASSUME CatalogInv, ReadingInv, [Next]_vars PROVE ReadingInv'
    OBVIOUS
  <1>0. IsSchema(reading.tables) /\ IsSchema(catalog) /\ IsSchema(schema)
    BY SchemaNow DEF ReadingInv
  <1>1. NotReading.pc = "no" /\ NotReading.left = {} /\ IsSchema(NotReading.tables)
    BY EmptyIsSchema DEF NotReading
  <1>2. CASE UNCHANGED <<catalog, reading, failures>>
    BY <1>2 DEF ReadingInv, IsSchema
  <1>3. CASE UNCHANGED failures /\ reading' = NotReading /\ catalog' \in {catalog, reading.tables}
    <2>1. IsSchema(catalog')
      BY <1>0, <1>3
    <2>2. IsSchema(reading'.tables)
      BY <1>1, <1>3
    <2> QED BY <1>1, <1>3, <2>1, <2>2 DEF ReadingInv, IsSchema
  <1>4. CASE BeginReading /\ UNCHANGED <<catalog, failures>>
    <2>1. reading'.pc = "list" /\ reading'.left = {} /\ reading'.tables = << >>
      BY <1>4 DEF BeginReading, NotReading
    <2>2. reading' # NotReading
      BY <1>1, <2>1
    <2>3. IsSchema(reading'.tables) /\ IsSchema(catalog')
      BY <1>0, <1>4, <2>1, EmptyIsSchema
    <2> QED BY <1>4, <2>1, <2>2, <2>3 DEF ReadingInv, IsSchema
  <1>5. CASE ListTables
    <2> DEFINE listed == Names
    <2>1. reading' = [reading EXCEPT !.pc = "columns", !.tables = listed, !.left = DOMAIN listed]
      BY <1>5 DEF ListTables
    <2>2. reading = [pc |-> reading.pc, tables |-> reading.tables, left |-> reading.left,
                     since |-> reading.since]
      BY DEF CatalogInv, ShapeOf
    <2> HIDE DEF listed
    <2>3. reading' = [pc |-> "columns", tables |-> listed, left |-> DOMAIN listed,
                      since |-> reading.since]
      BY <2>1, <2>2
    <2>4. reading'.pc = "columns" /\ reading'.tables = listed /\ reading'.left = DOMAIN listed
      BY <2>3
    <2>5. IsSchema(reading'.tables) /\ IsSchema(catalog')
      <3>1. IsSchema(listed)
        BY <1>0, NamesAreSchema DEF listed
      <3>2. catalog' = catalog
        BY <1>5 DEF ListTables
      <3> QED BY <1>0, <2>4, <3>1, <3>2
    <2>6. reading' # NotReading /\ failures' = failures
      BY <1>1, <1>5, <2>4 DEF ListTables
    <2> QED BY <2>4, <2>5, <2>6 DEF ReadingInv, IsSchema
  <1>6. CASE LoadColumns
    <2>0. reading.pc = "columns" /\ failures' = failures /\ catalog' = catalog
      BY <1>6 DEF LoadColumns
    <2>1. PICK i \in reading.left : \E columns \in Readings(process.provider, schema, i) :
              reading' = [reading EXCEPT
                  !.tables = [j \in DOMAIN @ |-> IF j = i THEN columns ELSE @[j]],
                  !.left = @ \ {i}]
      BY <1>6 DEF LoadColumns
    <2>8. PICK columns \in Readings(process.provider, schema, i) :
              reading' = [reading EXCEPT
                  !.tables = [j \in DOMAIN @ |-> IF j = i THEN columns ELSE @[j]],
                  !.left = @ \ {i}]
      BY <2>1
    <2> DEFINE tables == [j \in DOMAIN reading.tables |->
                              IF j = i THEN columns ELSE reading.tables[j]]
               left == reading.left \ {i}
    <2>2. reading = [pc |-> reading.pc, tables |-> reading.tables, left |-> reading.left,
                     since |-> reading.since]
      BY DEF CatalogInv, ShapeOf
    <2>3. reading' = [reading EXCEPT !.tables = tables, !.left = left]
      BY <2>8
    <2>4. DOMAIN tables = DOMAIN reading.tables /\ left \subseteq reading.left
      OBVIOUS
    <2>9. IsSchema(tables)
      <3>1. columns \in Seq(Columns)
        BY <1>0, ReadingsAreColumns
      <3> QED BY <1>0, <3>1 DEF IsSchema
    <2> HIDE DEF tables, left
    <2>5. reading' = [pc |-> reading.pc, tables |-> tables, left |-> left,
                      since |-> reading.since]
      BY <2>2, <2>3
    <2>6. reading'.pc = "columns" /\ reading'.tables = tables /\ reading'.left = left
      BY <2>0, <2>5
    <2>7. reading' # NotReading
      BY <1>1, <2>6
    <2>10. IsSchema(reading'.tables) /\ IsSchema(catalog')
      BY <1>0, <2>0, <2>6, <2>9
    <2> QED BY <2>0, <2>4, <2>6, <2>7, <2>10 DEF ReadingInv, IsSchema
  <1>7. CASE FailReading
    <2>1. /\ reading' = NotReading /\ failures < MaxFailures /\ failures' = failures + 1
          /\ catalog' = catalog
      BY <1>7 DEF FailReading
    <2>2. failures' \in 0..MaxFailures
      BY <2>1, AssistantAssumption DEF ReadingInv
    <2>3. IsSchema(reading'.tables) /\ IsSchema(catalog')
      BY <1>0, <1>1, <2>1
    <2> QED BY <1>1, <2>1, <2>2, <2>3 DEF ReadingInv, IsSchema
  <1>8. Connect \/ RefreshCatalog => BeginReading /\ UNCHANGED <<catalog, failures>>
    BY DEF Connect, RefreshCatalog
  <1>9. Install \/ Exit =>
            UNCHANGED failures /\ reading' = NotReading /\ catalog' \in {catalog, reading.tables}
    BY DEF Install, Installed, Exit
  <1>10. ChangeSchema \/ RunQuery \/ FailQuery => UNCHANGED <<catalog, reading, failures>>
    BY DEF ChangeSchema, RunQuery, FailQuery
  <1>11. \A command : Start(command) => UNCHANGED <<catalog, reading, failures>>
    BY DEF Start
  <1>12. \A question : PlanQuestion(question) => UNCHANGED <<catalog, reading, failures>>
    BY DEF PlanQuestion
  <1>13. UNCHANGED vars => UNCHANGED <<catalog, reading, failures>>
    BY DEF vars
  <1> QED
    BY <1>2, <1>3, <1>4, <1>5, <1>6, <1>7, <1>8, <1>9, <1>10, <1>11, <1>12, <1>13 DEF Next, ReadingStep

(* A query under way asks for columns of a table of some catalog. *)
QueryInv == ask.pc = "planned" => WellFormed(ask.query)

LEMMA PlannedIsWellFormed ==
    ASSUME IsSchema(catalog), NEW question \in Questions,
           NEW query, query = Plan(TablesOf(catalog), question), query # Unsupported
    PROVE  WellFormed(query)
PROOF
  <1> DEFINE tables == TablesOf(catalog)
             T == Range(tables)
  <1>1. DOMAIN catalog \subseteq DOMAIN TableOrder /\ ColumnsOf(catalog)
    BY DEF IsSchema, ColumnsOf
  <1>2. /\ tables \in Seq(T)
        /\ \A t \in T : Table(t) /\ t.place \in DOMAIN catalog /\ t.columns = catalog[t.place]
    BY <1>1, TablesAreTables
  <1>3. question.words \in Seq(STRING)
    BY AssistantAssumption
  <1>4. query = Plan(tables, question)
    OBVIOUS
  <1>5. query.kind \in {"absence", "revenue", "count"}
    BY PlanFits DEF Fits
  <1> HIDE DEF tables, T
  <1>6. PICK t \in T : query.table = t /\ Selected(query) \subseteq Range(t.columns)
    BY <1>2, <1>3, <1>4, QueryOf
  <1>7. t.place \in DOMAIN TableOrder /\ t.columns \in Seq(Columns)
    BY <1>1, <1>2 DEF ColumnsOf
  <1> QED BY <1>5, <1>6, <1>7 DEF WellFormed

LEMMA NothingPlanned == NoAsk.pc # "planned"
PROOF
  <1>1. NoAsk.pc = "idle"
    BY DEF NoAsk
  <1> QED BY <1>1

LEMMA QueryInit == Init => QueryInv
PROOF BY NothingPlanned DEF Init, QueryInv

LEMMA QueryStep == ReadingInv /\ QueryInv /\ [Next]_vars => QueryInv'
PROOF
  <1> SUFFICES ASSUME ReadingInv, QueryInv, [Next]_vars, ask'.pc = "planned"
               PROVE  WellFormed(ask'.query)
    BY DEF QueryInv, WellFormed, Selected
  <1>1. CASE UNCHANGED ask
    BY <1>1 DEF QueryInv
  <1>2. ASSUME NEW question \in Questions, PlanQuestion(question)
        PROVE  WellFormed(ask'.query)
    <2> DEFINE query == Plan(TablesOf(catalog), question)
    <2>1. query = Unsupported => ask' = [NoAsk EXCEPT !.form = "unsupported"]
      BY <1>2 DEF PlanQuestion
    <2>2. query # Unsupported
      BY <2>1 DEF NoAsk
    <2>3. ask' = [pc |-> "planned", phrases |-> question.phrases, query |-> query,
                  form |-> "", since |-> since]
      BY <1>2, <2>2 DEF PlanQuestion
    <2>4. WellFormed(query)
      BY <2>2, PlannedIsWellFormed DEF ReadingInv
    <2> HIDE DEF query
    <2> QED BY <2>3, <2>4
  <1>3. RunQuery \/ FailQuery \/ Exit => ask'.pc # "planned"
    <2>1. RunQuery => ask'.pc # "planned"
      BY DEF RunQuery
    <2>2. FailQuery => ask'.pc # "planned"
      BY DEF FailQuery
    <2>3. Exit => ask'.pc # "planned"
      BY NothingPlanned DEF Exit
    <2> QED BY <2>1, <2>2, <2>3
  <1>4. \A command : Start(command) => UNCHANGED ask
    BY DEF Start
  <1>5. ChangeSchema \/ Connect \/ FailReading \/ RefreshCatalog => UNCHANGED ask
    BY DEF ChangeSchema, Connect, FailReading, RefreshCatalog
  <1>6. ListTables \/ LoadColumns \/ Install => UNCHANGED ask
    BY DEF ListTables, LoadColumns, Install, Installed
  <1>7. UNCHANGED vars => UNCHANGED ask
    BY DEF vars
  <1> QED BY <1>1, <1>2, <1>3, <1>4, <1>5, <1>6, <1>7 DEF Next, ReadingStep

(* Of every state: what is listed, read and put in place is always a       *)
(* sequence of columns for each of some tables, a reading that is over     *)
(* leaves nothing behind, and a planned query asks one table of a catalog  *)
(* for columns it has there.                                               *)
THEOREM AssistantTypeCorrect == Spec => []TypeOK
PROOF
  <1>1. CatalogInv /\ FailureInv /\ ReadingInv /\ ProcessInv /\ QueryInv => TypeOK
    <2> SUFFICES ASSUME CatalogInv, FailureInv, ReadingInv, ProcessInv, QueryInv PROVE TypeOK
      OBVIOUS
    <2>1. past # << >> /\ \A v \in DOMAIN past : IsSchema(past[v])
      <3>1. past \in Seq(Schemas) /\ Len(past) >= 1
        BY DEF CatalogInv
      <3>2. ASSUME NEW v \in DOMAIN past
            PROVE  IsSchema(past[v])
        <4>1. past[v] \in Schemas
          BY <3>1
        <4> QED BY <4>1 DEF Schemas, IsSchema
      <3> QED BY <3>1, <3>2
    <2>2. {since, reading.since, ask.since} \subseteq 1..Now
      BY DEF CatalogInv, FailureInv, Now
    <2> QED
      BY <2>1, <2>2 DEF TypeOK, FailureInv, ReadingInv, ProcessInv, ProcessTypes, QueryInv
  <1> QED
    BY <1>1, FailureInit, FailureStep, ConnectedInit, ConnectedStep, CatalogInit, CatalogStep,
       ShapeInit, ShapeStep, ProcessTypeInit, ProcessTypeStep, ReadingInit, ReadingStepKeeps,
       QueryInit, QueryStep, PTL DEF Spec

-----------------------------------------------------------------------------
(* What a setting is after .env was read: as the environment has it, else  *)
(* as the first entry for it has it that is not behind a malformed line.   *)
EntryTypes == [key : STRING, value : STRING]
Lines == Seq(EntryTypes)

LEMMA EntriesAre ==
    ASSUME NEW lines \in Lines
    PROVE  /\ Entries(lines) \in Lines /\ Len(Entries(lines)) \in 0..Len(lines)
           /\ \A i \in 1..Len(Entries(lines)) :
                  Entries(lines)[i] = lines[i] /\ lines[i] # Malformed
           /\ Len(Entries(lines)) # Len(lines) => lines[Len(Entries(lines)) + 1] = Malformed
PROOF
  <1> DEFINE bad == {i \in DOMAIN lines : lines[i] = Malformed}
  <1>1. Len(lines) \in Nat /\ DOMAIN lines = 1..Len(lines)
    BY LenProperties DEF Lines
  <1>2. CASE bad = {}
    <2>1. Entries(lines) = lines
      BY <1>2 DEF Entries
    <2>2. \A i \in 1..Len(lines) : lines[i] # Malformed
      BY <1>1, <1>2
    <2> QED BY <1>1, <2>1, <2>2
  <1>3. CASE bad # {}
    <2> DEFINE b == CHOOSE i \in bad : \A j \in bad : i <= j
    <2>1. bad \subseteq Nat
      BY <1>1
    <2>2. b \in bad /\ \A j \in bad : b <= j
      BY <1>3, <2>1, LeastNatural
    <2>3. Entries(lines) = SubSeq(lines, 1, b - 1)
      BY <1>3 DEF Entries
    <2> HIDE DEF b
    <2>4. b \in 1..Len(lines) /\ b - 1 \in 0..Len(lines) /\ lines[b] = Malformed
      BY <1>1, <2>2
    <2>5. \A i \in 1..b - 1 : lines[i] # Malformed /\ i \in 1..Len(lines)
      BY <1>1, <2>2, <2>4
    <2>6. Entries(lines) \in Lines /\ Len(Entries(lines)) = b - 1
      <3>0. \A i \in 1..b - 1 : lines[i] \in EntryTypes
        BY <2>5, ElementOfSeq DEF Lines
      <3>1. SubSeq(lines, 1, b - 1) \in Lines
        BY <2>4, <3>0, SubSeqProperties DEF Lines
      <3>2. Len(SubSeq(lines, 1, b - 1)) = b - 1
        BY <2>4, <3>0, SubSeqProperties
      <3> QED BY <2>3, <3>1, <3>2
    <2>7. \A i \in 1..b - 1 : Entries(lines)[i] = lines[i]
      BY <2>3, <2>4 DEF Lines
    <2> QED BY <2>4, <2>5, <2>6, <2>7
  <1> QED BY <1>2, <1>3

(* The first of the entries for a key, and the settings after n of them.   *)
FirstOf(entries, key) ==
    CHOOSE i \in DOMAIN entries :
        entries[i].key = key /\ \A j \in DOMAIN entries : entries[j].key = key => i <= j
SetBy(env, entries, n) ==
    [key \in DOMAIN env \cup {entries[j].key : j \in 1..n} |->
        IF key \in DOMAIN env THEN env[key] ELSE entries[FirstOf(entries, key)].value]

LEMMA FirstOfIs ==
    ASSUME NEW entries \in Lines, NEW key, NEW i \in DOMAIN entries, entries[i].key = key,
           \A j \in 1..i - 1 : entries[j].key # key
    PROVE  FirstOf(entries, key) = i
PROOF
  <1>1. DOMAIN entries = 1..Len(entries) /\ Len(entries) \in Nat
    BY LenProperties DEF Lines
  <1>2. \A j \in DOMAIN entries : entries[j].key = key => i <= j
    BY <1>1
  <1>3. ASSUME NEW k \in DOMAIN entries, entries[k].key = key,
               \A j \in DOMAIN entries : entries[j].key = key => k <= j
        PROVE  k = i
    BY <1>1, <1>2, <1>3
  <1> QED BY <1>2, <1>3 DEF FirstOf

LEMMA SetOnce ==
    ASSUME NEW env, NEW entries \in Lines, NEW n \in 1..Len(entries)
    PROVE  Setenv(SetBy(env, entries, n - 1), entries[n]) = SetBy(env, entries, n)
PROOF
  <1> DEFINE before == SetBy(env, entries, n - 1)
             D == DOMAIN env \cup {entries[j].key : j \in 1..n - 1}
             E == DOMAIN env \cup {entries[j].key : j \in 1..n}
             entry == entries[n]
             Value(key) == IF key \in DOMAIN env THEN env[key]
                           ELSE entries[FirstOf(entries, key)].value
  <1>1. Len(entries) \in Nat /\ DOMAIN entries = 1..Len(entries) /\ n \in Nat
    BY LenProperties DEF Lines
  <1>2. E = D \cup {entry.key}
    <2>1. 1..n = 1..n - 1 \cup {n}
      BY <1>1
    <2> QED BY <2>1
  <1>3. DOMAIN before = D /\ \A key \in D : before[key] = Value(key)
    BY DEF SetBy
  <1>4. ASSUME entry.key \notin D
        PROVE  entry.value = Value(entry.key)
    <2>1. \A j \in 1..n - 1 : entries[j].key # entry.key
      BY <1>4
    <2>2. FirstOf(entries, entry.key) = n
      <3>1. n \in DOMAIN entries
        BY <1>1
      <3> QED BY <2>1, <3>1, FirstOfIs
    <2> QED BY <1>4, <2>2
  <1>5. Setenv(before, entry) = [key \in D \cup {entry.key} |->
                                    IF key \in D THEN before[key] ELSE entry.value]
    BY <1>3 DEF Setenv
  <1>6. SetBy(env, entries, n) = [key \in E |-> Value(key)]
    BY DEF SetBy
  <1> HIDE DEF before, D, E, entry, Value
  <1>7. \A key \in E : (IF key \in D THEN before[key] ELSE entry.value) = Value(key)
    BY <1>2, <1>3, <1>4
  <1> QED BY <1>2, <1>5, <1>6, <1>7 DEF before, entry

LEMMA DotEnvIs ==
    ASSUME NEW env, env \in [DOMAIN env -> STRING], NEW lines \in Lines
    PROVE  LoadDotEnv(env, lines) = SetBy(env, Entries(lines), Len(Entries(lines)))
PROOF
  <1> DEFINE entries == Entries(lines)
             N == Len(entries)
             r == [n \in 0..N |-> SetBy(env, entries, n)]
             Is(g) == g = [n \in 0..N |-> IF n = 0 THEN env ELSE Setenv(g[n - 1], entries[n])]
             after == CHOOSE g : Is(g)
  <1>1. N \in Nat /\ entries \in Lines
    BY EntriesAre, LenProperties DEF Lines
  <1>2. LoadDotEnv(env, lines) = after[N]
    BY DEF LoadDotEnv
  <1>3. \A n \in 0..N : r[n] = SetBy(env, entries, n)
    OBVIOUS
  <1>4. SetBy(env, entries, 0) = env
    <2>1. DOMAIN env \cup {entries[j].key : j \in 1..0} = DOMAIN env
      OBVIOUS
    <2>2. SetBy(env, entries, 0) = [key \in DOMAIN env |-> env[key]]
      BY <2>1 DEF SetBy
    <2> QED BY <2>2
  <1> HIDE DEF entries, N
  <1>5. \A n \in 1..N : SetBy(env, entries, n) = Setenv(SetBy(env, entries, n - 1), entries[n])
    BY <1>1, SetOnce DEF N
  <1>6. \A n \in 0..N : r[n] = IF n = 0 THEN env ELSE Setenv(r[n - 1], entries[n])
    <2> TAKE n \in 0..N
    <2>1. CASE n = 0
      BY <1>3, <1>4, <2>1
    <2>2. CASE n # 0
      <3>1. n \in 1..N /\ n - 1 \in 0..N
        BY <1>1, <2>2
      <3>2. r[n] = SetBy(env, entries, n) /\ r[n - 1] = SetBy(env, entries, n - 1)
        BY <1>3, <3>1
      <3> QED BY <1>5, <2>2, <3>1, <3>2
    <2> QED BY <2>1, <2>2
  <1>7. Is(r)
    <2> DEFINE h == [n \in 0..N |-> IF n = 0 THEN env ELSE Setenv(r[n - 1], entries[n])]
    <2>1. r = [n \in 0..N |-> r[n]] /\ h = [n \in 0..N |-> h[n]]
      OBVIOUS
    <2>2. \A n \in 0..N : r[n] = h[n]
      <3> HIDE DEF r
      <3> QED BY <1>6
    <2> HIDE DEF h, r
    <2>3. r = h
      BY <2>1, <2>2
    <2> QED BY <2>3 DEF h
  <1>8. Is(after)
    <2> HIDE DEF Is
    <2> QED BY <1>7
  <1>9. \A n \in 0..N : after[n] = IF n = 0 THEN env ELSE Setenv(after[n - 1], entries[n])
    <2> HIDE DEF after
    <2> QED BY <1>8
  <1> HIDE DEF after, Is, r
  <1> DEFINE wrong == {n \in 0..N : after[n] # r[n]}
  <1>10. wrong = {}
    <2> SUFFICES ASSUME wrong # {} PROVE FALSE
      OBVIOUS
    <2>1. wrong \subseteq Nat
      BY <1>1
    <2>2. PICK m \in wrong : \A k \in wrong : m <= k
      BY <2>1, LeastNatural
    <2>3. m # 0
      BY <1>1, <1>6, <1>9, <2>2
    <2>4. m \in 1..N /\ m - 1 \in 0..N /\ ~(m <= m - 1)
      BY <1>1, <2>2, <2>3
    <2>5. after[m - 1] = r[m - 1]
      BY <2>2, <2>4
    <2> QED BY <1>6, <1>9, <2>2, <2>3, <2>4, <2>5
  <1>11. after[N] = r[N] /\ r[N] = SetBy(env, entries, N)
    BY <1>1, <1>3, <1>10
  <1> QED BY <1>2, <1>11 DEF entries, N

(* Which entry counts, said of the lines of .env themselves. *)
Setting(key) == key # ""
LEMMA SaysIs ==
    ASSUME NEW env, env \in [DOMAIN env -> STRING], NEW lines \in Lines,
           NEW key, Setting(key), NEW value
    PROVE  LET full == LoadDotEnv(env, lines) IN
           Says(env, lines, key, value) <=> key \in DOMAIN full /\ full[key] = value
PROOF
  <1> DEFINE entries == Entries(lines)
             N == Len(entries)
             full == LoadDotEnv(env, lines)
  <1>1. /\ entries \in Lines /\ N \in 0..Len(lines)
        /\ \A i \in 1..N : entries[i] = lines[i] /\ lines[i] # Malformed
        /\ N # Len(lines) => lines[N + 1] = Malformed
    BY EntriesAre
  <1>2. N \in Nat /\ DOMAIN entries = 1..N /\ Len(lines) \in Nat /\ DOMAIN lines = 1..Len(lines)
    BY <1>1, LenProperties DEF Lines
  <1>3. full = SetBy(env, entries, N)
    BY DotEnvIs
  <1> HIDE DEF full, N, entries
  <1>4. /\ DOMAIN full = DOMAIN env \cup {entries[j].key : j \in 1..N}
        /\ \A k \in DOMAIN full : full[k] = IF k \in DOMAIN env THEN env[k]
                                            ELSE entries[FirstOf(entries, k)].value
    BY <1>3 DEF SetBy
  <1>5. CASE key \in DOMAIN env
    BY <1>4, <1>5 DEF Says, full
  <1>6. CASE key \notin DOMAIN env
    <2>1. ASSUME NEW i \in DOMAIN lines, lines[i] = [key |-> key, value |-> value],
                 \A j \in 1..(i - 1) : lines[j] # Malformed /\ lines[j].key # key
          PROVE  key \in DOMAIN full /\ full[key] = value
      <3>1. lines[i].key = key /\ lines[i].value = value
        BY <2>1
      <3>2. lines[i] # Malformed
          <4>1. Malformed.key = ""
          BY DEF Malformed
        <4>2. key # ""
          BY DEF Setting
        <4> QED BY <3>1, <4>1, <4>2, Zenon
      <3>3. i \in 1..N
        <4> SUFFICES ASSUME i \notin 1..N PROVE FALSE
          OBVIOUS
        <4>1. N + 1 \in 1..i /\ N # Len(lines)
          BY <1>2, <1>1
        <4>2. lines[N + 1] = Malformed
          BY <1>1, <4>1
        <4>3. N + 1 = i \/ N + 1 \in 1..i - 1
          BY <1>2, <4>1
        <4> QED BY <2>1, <3>2, <4>2, <4>3
      <3>4. entries[i] = lines[i] /\ \A j \in 1..i - 1 : entries[j].key # key
        <4>1. \A j \in 1..i - 1 : j \in 1..N
          BY <1>2, <3>3
        <4> QED BY <1>1, <2>1, <3>3, <4>1
      <3>5. FirstOf(entries, key) = i
        BY <1>1, <1>2, <3>1, <3>3, <3>4, FirstOfIs
      <3>6. key \in DOMAIN full
        BY <1>4, <3>1, <3>3, <3>4
      <3> QED BY <1>4, <1>6, <3>1, <3>4, <3>5, <3>6
    <2>2. ASSUME key \in DOMAIN full, full[key] = value
          PROVE  \E i \in DOMAIN lines :
                    /\ lines[i] = [key |-> key, value |-> value]
                    /\ \A j \in 1..(i - 1) : lines[j] # Malformed /\ lines[j].key # key
      <3> DEFINE with == {j \in 1..N : entries[j].key = key}
      <3>1. with # {} /\ with \subseteq Nat
        BY <1>4, <1>6, <2>2
      <3>2. PICK i \in with : \A j \in with : i <= j
        BY <3>1, LeastNatural
      <3>3. /\ i \in 1..N /\ i \in Nat /\ entries[i].key = key
            /\ \A j \in 1..i - 1 : j \in 1..N /\ entries[j].key # key
        BY <1>2, <3>2
      <3>4. FirstOf(entries, key) = i
        BY <1>1, <1>2, <3>3, FirstOfIs
      <3>5. entries[i].value = value
        BY <1>4, <1>6, <2>2, <3>4
      <3>6. lines[i] = entries[i] /\ i \in DOMAIN lines
        BY <1>1, <1>2, <3>3
      <3>7. lines[i] = [key |-> lines[i].key, value |-> lines[i].value]
        <4>1. lines[i] \in EntryTypes
          BY <1>2, <3>6, ElementOfSeq DEF Lines
        <4> QED BY <4>1 DEF EntryTypes
      <3>8. lines[i] = [key |-> key, value |-> value]
        BY <3>3, <3>5, <3>6, <3>7
      <3>9. \A j \in 1..i - 1 : lines[j] # Malformed /\ lines[j].key # key
        BY <1>1, <3>3
      <3> QED BY <3>6, <3>8, <3>9
    <2> QED BY <1>6, <2>1, <2>2 DEF Says, full
  <1> QED BY <1>5, <1>6

LEMMA PortIsNumber ==
    ASSUME NEW text, ValidPort(text), text # ""
    PROVE  text \in DOMAIN Numbers
PROOF BY Zenon DEF ValidPort

(* Whatever environment a process is started with, and whatever .env holds:*)
(* what counts is the environment, then the first entry for a setting.     *)
THEOREM SettingsHoldAlways == Spec => []SettingsHold
PROOF
  <1>1. ASSUME NEW env \in Environments, NEW lines \in DotEnvs,
               NEW config, config = LoadConfig(LoadDotEnv(env, lines)), config # Error
        PROVE  /\ Says(env, lines, "PROVIDER", config.provider)
               /\ config.readOnly =
                    ~\E text \in FalseTexts : Says(env, lines, "READ_ONLY", text)
               /\ config.port = 0 \/ \E text \in DOMAIN Numbers :
                    Says(env, lines, "PORT", text) /\ Numbers[text] = config.port
    <2> DEFINE full == LoadDotEnv(env, lines)
               Get(key) == Getenv(full, key)
    <2>1. env \in [DOMAIN env -> STRING] /\ lines \in Lines
      BY AssistantAssumption DEF Lines, EntryTypes
    <2>2. \A value : \A key \in {"PROVIDER", "READ_ONLY", "PORT"} :
              Says(env, lines, key, value) <=> key \in DOMAIN full /\ full[key] = value
      <3>1. \A key \in {"PROVIDER", "READ_ONLY", "PORT"} : Setting(key)
        BY DEF Setting
      <3> QED BY <2>1, <3>1, SaysIs
    <2> HIDE DEF full
    <2>3. \A value : \A key \in {"PROVIDER", "READ_ONLY", "PORT"} :
              value # "" => (Says(env, lines, key, value) <=> Get(key) = value)
      BY <2>2 DEF Getenv
    <2>4. /\ Get("PROVIDER") \in Providers /\ ValidPort(Get("PORT"))
          /\ config = [provider |-> Get("PROVIDER"),
                       url |-> Get("URL"), host |-> Get("HOST"), database |-> Get("DATABASE"),
                       port |-> IF Get("PORT") = "" THEN 0 ELSE Numbers[Get("PORT")],
                       tls |-> Get("TLS") = "true",
                       readOnly |-> ReadOnly(Get("READ_ONLY"))]
      BY <1>1 DEF LoadConfig, full
    <2> HIDE DEF Get
    <2>5. /\ config.provider = Get("PROVIDER") /\ config.readOnly = ReadOnly(Get("READ_ONLY"))
          /\ config.port = IF Get("PORT") = "" THEN 0 ELSE Numbers[Get("PORT")]
      BY <2>4
    <2>6. Get("PROVIDER") # ""
      BY <2>4 DEF Providers, SQLProviders
    <2>7. Says(env, lines, "PROVIDER", config.provider)
      BY <2>3, <2>5, <2>6
    <2>8. config.readOnly = ~\E text \in FalseTexts : Says(env, lines, "READ_ONLY", text)
      <3>1. \A text \in FalseTexts : Says(env, lines, "READ_ONLY", text) <=> Get("READ_ONLY") = text
        BY <2>3 DEF FalseTexts
      <3> QED BY <2>5, <3>1 DEF ReadOnly
    <2>9. CASE Get("PORT") = ""
      BY <2>5, <2>7, <2>8, <2>9
    <2>10. CASE Get("PORT") # ""
      <3>0. ValidPort(Get("PORT"))
        BY <2>4
      <3>1. Get("PORT") \in DOMAIN Numbers
        BY <2>10, <3>0, PortIsNumber, Zenon
      <3>2. Says(env, lines, "PORT", Get("PORT"))
        BY <2>3, <2>10
      <3> QED BY <2>5, <2>7, <2>8, <2>10, <3>1, <3>2
    <2> QED BY <2>9, <2>10
  <1> DEFINE Held == \A env \in Environments, lines \in DotEnvs :
                LET config == LoadConfig(LoadDotEnv(env, lines)) IN
                config # Error =>
                    /\ Says(env, lines, "PROVIDER", config.provider)
                    /\ config.readOnly =
                         ~\E text \in FalseTexts : Says(env, lines, "READ_ONLY", text)
                    /\ config.port = 0 \/ \E text \in DOMAIN Numbers :
                            Says(env, lines, "PORT", text) /\ Numbers[text] = config.port
  <1>2. Held
    BY <1>1, Zenon
  <1>3. SettingsHold
    BY <1>2 DEF SettingsHold
  <1> QED BY <1>3, PTL

=============================================================================
