# Verification of Nyansapo

TLA+ models of Nyansapo (the Go program in this repository), the TLC runs that
check them on small instances, and proofs that TLAPS checks for every size.
Paths and line numbers are relative to the repository's root. File names in
capitals with `MC` are instances for TLC; `*Proofs` modules hold the theorems.

## 1. The system

Nyansapo answers questions from training documents and, if it is connected,
from a live SQL database. One binary, several processes: the HTTP server
(`serve`, `api`), the terminal session (`teach`, the default), the watcher
(`watch`), and the one-shot commands `train`, `ask`, `db-introspect` and `evaluate`.
They share files: `data/model.json` (the trained model with the taught facts),
`data/input/*` (the training documents) and `data/input/live-database.json` (the
catalog of the database, written back as a document).

| component | source | state it keeps | operations | what makes it correct |
|---|---|---|---|---|
| HTTP server | `api/api.go` | per request: question, context, time of the model file, model, response | `ServeHTTP`, `answer` | answers are never older than the file the request looked at; follow-ups are answered in their context; every request ends |
| answer cache | `api/cache.go` | map `values`, list `order`, a mutex | `get`, `set` | map and list name the same keys; bounded; evicts the least recently used |
| conversation memory | `conversation/memory.go` | the last turns, the name; no lock | `Repeat`, `Respond`, `Enrich`, `Remember` | the turns are the end of the conversation, as far as requests do not race; they are few |
| self-learning trainer | `selflearn/selflearn.go` | the model in memory, the last signature, an RWMutex | `Start`, `Refresh`, `Teach`, `Model`, `Stop` | no taught fact is lost; a skip is justified; the schema is learned in the end |
| trained model | `model/trained.go` | documents, vectors, the `Facts` map; its JSON file | `TrainTexts`, `Teach`, `Fact`, `Save`, `LoadTrained`, `AnswerResult` | a fact answers the questions it is about and no other, whatever the order of the map; what is answered from the documents is about the question; what is saved can be loaded |
| planner | `database/data_assistant.go` | the catalog under an RWMutex | `NewDataAssistant`, `RefreshCatalog`, `Plan`, `Ask`, `Close` | the columns of a query fit their roles; a question with an obvious query gets it; the answer is worded for the query; the catalog follows the database |
| introspection | `database/sql_catalog.go`, `introspect.go`, `document_introspect.go` | none (reads a database, writes the catalog file) | `IntrospectSQL`, `IntrospectMongo`, `IntrospectCassandra`, `SaveCatalog` | what a catalog says was true while it was read; one catalog is one state of the database, sooner or later |
| configuration | `database/config.go`, `connection.go` | none | `LoadDotEnv`, `LoadConfig`, `SQLDriverAndDSN`, `DocumentURL` | the environment precedes `.env`; read-only unless said otherwise |
| read-only check | `database/readonly.go` | none | `ValidateReadOnlyQuery` | only reads reach the database |
| commands | `main.go` | fingerprint of `watch`; the prompt of `teach` | `train`, `teachSession`, `watchTraining`, `runServer` | the watcher saves what changed; a correction is answered afterwards; training keeps the facts |
| pipeline | `pipeline/pipeline.go` | none | `Load` of text, Markdown, JSON and CSV | the vectors depend on the files alone; live catalogs stay out of the training |
| knowledge record | `model/model.go` | facts of a subject | `Train`, `Answer` | used by tests only; empty in the program's files |
| templates | `response/response.go` | random source | `Format` | the answer opens with the sentence that is about the question |
| tokens and vectors | `tokenizer`, `embedding` | none | words, stop words, counts of words, cosine | none of its own |
| evaluation | `evaluation/evaluation.go` | none | a fixed list of questions | none of its own |

How they interact:

* The server answers each question from `data/model.json`, which it stats
  (the time is half of the cache key) and loads for every request. The trainer
  of the same process, a watcher, `train` and a teaching session write that file, by
  `os.WriteFile`, which truncates first and writes afterwards.
* The trainer's goroutine runs `Refresh` at every tick. It introspects the
  database, saves the catalog into the training folder, compares a signature with
  the last one, trains a fresh model from the folder, gives it the *same* `Facts` map,
  saves it without the lock and swaps it in under the lock. `Teach` may come between
  any two of these steps.
* The watcher takes every change of the training folder, the rewritten
  catalog included, as a reason to train and save a model of its own.
* A request reads and writes one conversation memory that belongs to all clients.

The hard behaviours are therefore interleavings of goroutines over the model,
the memory and the files, interleavings of processes over two files without
atomic writes, failures and exits between two steps, stale reads between `stat`,
load and store or between introspection, plan and query, and ends that must be
reached in spite of all that. The planner, the fact store, the readers and the
retrieval are sequential, and hard because many rules and ties interact and Go
leaves the order of a map open.
`PROJECT.json` lists the hazards with their lines and the properties that
watch them.

## 2. Modules

| module | models | composes |
|---|---|---|
| `AnswerCache` | `api/cache.go` | |
| `RecentAnswers` | abstract: what a least-recently-used cache promises | |
| `AnswerCacheHistory` | the cache with its reply and the history of evictions | extends `AnswerCache`, implements `RecentAnswers` |
| `AnswerCacheProofs` | theorems about `AnswerCache`; that the history implements `RecentAnswers` | |
| `Trainer` | `selflearn.go`, `Save`/`LoadTrained`, the process around them | |
| `TrainerProofs` | theorems about `Trainer` and `Watcher` | |
| `Watcher` | `watchTraining` beside the process of `Trainer` | extends `Trainer` |
| `ApiServer` | `api.go`, `memory.go` | an instance of `AnswerCache` per server |
| `ApiServerProofs` | theorems about `ApiServer` | builds on `AnswerCacheProofs` |
| `Planner` | `Plan` and what it calls, pure operators | |
| `FactStore` | `Teach`, `Fact`, pure operators | |
| `Routing` | the answer function and the prompt of `main.go` | `Planner` and `FactStore` |
| `SequenceLemmas` | lemmas about sequences, orders, sums, loops, recursion through a tree, least counterexamples | |
| `PlannerProofs` | lemmas about what `Plan` picks | builds on `SequenceLemmas` |
| `RoutingProofs` | theorems about `Routing` | builds on `PlannerProofs` |
| `Config` | `config.go`, `connection.go`, pure operators | |
| `Assistant` | a process and its database: start, introspection, refresh, questions | `Config` and `Planner` |
| `AssistantProofs` | theorems about `Assistant` | builds on `PlannerProofs` |
| `Documents` | `pipeline.go` and `trainFrom`, pure operators | |
| `Retrieval` | `AnswerResult`, `Format`, `Cosine`, pure operators | `Documents` and `FactStore` |
| `Training` | `train`, `teach` and `ask` over one folder and one model file | `Retrieval` |
| `TrainingProofs` | theorems about `Training`, lemmas about its readers and loops | builds on `SequenceLemmas` |

### AnswerCache
`values` and `order` are the fields of the struct. `Get` and `Set` are the two
methods; both hold the mutex throughout and are one action each. `RecentAnswers`
keeps *all* entries ever stored in the order of their last use and answers from the
last `Capacity` of them. The refinement mapping joins the history of evicted
entries and the entries of the list.

### Trainer
One action per step between which another goroutine can act. `refresh.pc` follows
`Refresh`: `Tick`, `ReadShape` once for each query of `IntrospectSQL` (the list of tables,
then the columns of each) and `ReadKeys`, all outside a transaction, `Compare` (the skip), `Load`,
`ShareFacts` (line 172), `EncodeFresh`, `OpenFresh`, `WriteFresh` (the three
steps of `Save`), `Swap`; `FailRefresh` is an error at any of them. `Teach` is what
happens under the lock, `OpenTaught` and `WriteTaught` the save after it. `Stop` is
the end of the process at any moment. A new one loads the file twice: `Start` is the load of
`main` (line 94), `Restart` the one of `startSelfLearning` (line 301), which can only fail
beside another writer of the file, in `Watcher`. Details:

* A catalog has a version for each part of what the signature covers (`shape`), and one
  for the foreign keys and nullability that it leaves out (`keys`). `Migrate` changes any of the
  parts at once, so that a catalog read across it mixes versions, and its signature too. A change
  of `keys` alone is skipped, as is a change of the documents alone. The keys of all tables are
  read in one step: no property tells their mixtures apart, as the signature ignores them.
* `Readable` is `LoadTrained`: the bytes parse, and `Validate` finds no empty vector. `Unloadable` are the
  versions of the documents that leave one; how they do is in `Training`.
* A write that fails, or is cut off by the end of the process, leaves the empty file or some of
  its bytes (`CutShort`). That all bytes are there and only closing the file fails is left out:
  the model of `Refresh` would be on disk and not in memory, and `FileIsMemory` does not
  hold of that.
* Go shares maps by reference. The model says so by `refresh.shared`: a fresh model
  whose map is shared has the facts of `trained` at the time of each use.
  A nil map cannot be shared. It is nil exactly when it is empty: `Teach` makes
  it, and JSON omits an empty one.
* `os.WriteFile` is a truncation and a write. If another writer was there between
  them, the bytes may mix, and `file` becomes `Garbled` or the later content.
* `json.MarshalIndent` of `Refresh` reads the map while `Teach` may write it: the
  runtime may then end the process. That outcome is `Stop`, which any state
  allows; the other one is the ordinary step.
* A `Save` that fails after `Teach` ends the process. That, too, is `Stop`.

### Watcher
`watch` is a process of its own. `Wake` compares fingerprints, `LoadWatched` reads
the folder, `OpenWatched` and `WriteWatched` save; each error (`LoadTorn`,
`FailWatch`) ends the process, as the code does. The catalog file is rewritten by each
`Refresh` (`OpenCatalog`, `CloseCatalog`). A fingerprint has sizes and modification
times; the model keeps the version of the documents and one flag, whether the
catalog was rewritten since. `WatchSpec` runs both processes over one model file. What the watcher
saves or truncates between the two loads of a start leaves the other process without a
trainer (`RestartAlone`), as the code does without a word; a correction is then taught to a copy
loaded from the file and saved (`TeachAlone`, `main.go:249-258`), while the model that answers stays
the one that `main` loaded.

### ApiServer
Each request has its own step and local variables. The steps are in the order of
`ServeHTTP`: `Repeat`, `Respond`, `Enrich`, `Stat`, `Lookup` (only without a live
database, which bypasses the cache), `Load`, `Answer`, `Store`, and the four accesses of `Remember`,
for nothing protects it: `RememberRead` and `RememberAppend` (line 178), `RememberTrim` (the
comparison of line 179) and `RememberCut` (line 180). `Truncate`, `Write`, `RemoveFile`
are other writers of the model file. Questions are known by the sets they belong
to (phrases of small talk, follow-ups, schema questions), answers by where their
words come from and from which version of the model. `CoarseClock` says
whether two writes may get one modification time.

Requests that are in `Remember` at one time append to one array, in place or to a copy of it, and
each writes back a length of its own. The model follows the lengths and gives up the content:
a write of a request that is or was beside another one in `Remember` (`racing`) leaves `Torn` turns,
and a reader that meets them, or reads while somebody is in `Remember`, gets any turn
there was, or blank (`LastTurns`: an append in place stores the length before the turn). Three
things are simpler than a data race may be: lines 179 and 180 read one slice,
pointer and length of a slice, and of a string, are read together, and so
no index is out of range.

### Planner, FactStore, Routing
The planner's operators have the code's names. Names of tables and columns are known
by the search terms that occur in them as substrings, which is the only way the
code looks at them. The fact store works on keys: `factKey` sorts the tokens, so of
a key it only matters how often each token is in it, and a key is the set of its tokens, each
numbered among its likes. The loop over the map is a recursive function over every
order of its keys, for Go leaves the order open, and `Fact` is the set of outcomes. `Routing`
is a state machine over a catalog that changes and facts that are taught; `Ask`
and `Teach` print one of the replies that the chain database, redirect, facts,
documents can give. `Teach` is a correction in a process with a trainer, taught, saved and
asked again in one step. A refresh that swaps its model in between is in `Trainer`, and can lose
the first fact of all (see below); a process without a trainer asks the model of line
94 again, which was not taught (`main.go:249-259`), and is `TeachAlone` of `Watcher`.
`CorrectionIsAnswered` is a claim about neither.

### Config, Assistant
An environment is a function from the names that are set to texts; `LoadDotEnv` goes through
the entries before the first malformed line, `Setenv` for each, and drops the error, as
`LoadConfig` does. `Outcome` is what a start leads to: a process without a database, one that
connects, or an end (the panics of `main`). Each of the four functions that open a
connection has its own check of the read-only mode in the model because it has one in
the code (`MayServe`, `MongoReady`, `CassandraReady`, and the SQL case of `MayIntrospect`).
The texts of a truth value are those of `strconv.ParseBool`, one spelling for each of its
spellings of a word.

The introspection is one step per query: `ListTables`, then `LoadColumns` for one table after
the other, then `Install`, which is the assignment under the lock or the catalog file of
`db-introspect`. `ChangeSchema` may come between any two of them, and so may `PlanQuestion`,
which reads the catalog in force, and `RunQuery`, which meets the schema of its own
moment. `past` keeps every schema, for the properties to refer to; `since` and the fields
of that name say when the reading of a catalog began. Which tables are listed depends on the
provider: the SQL queries leave out the schemas of the system, MongoDB and Cassandra list
whatever there is (`MayList`). MongoDB shows the fields of one arbitrary document in the order of a
Go map: any of the fields there are, in any order (`FieldsOf`).
`formatAnswer` yields the form of the answer, not its wording.

### Documents, Retrieval, Training
A text is a sequence of sentences, a sentence one of tokens. A blank text is the empty
sequence; a text of signs only (a row of empty cells, joined by colons) is not blank and
has no token. The members of a JSON object come in any order, so that each reader is the
set of its outcomes, empty for an error. `Depth` says that JSON is nested finitely deep.
`Load` goes through the places `1..Places` of a folder in order; `trainFrom` leaves out live
catalogs.

`Embed` is the bag of the content tokens, which is what `map[string]float64` counts, written
as a set: each token is numbered among its likes. The product of two counts is then
a number of pairs.
`Cosine` and all scores are in thousandths, rounded down, found without a square root.
The thresholds 0.05, 0.2, 0.3 and the boosts 0.25 and 1 are whole numbers of
thousandths, so rounding decides no comparison with a threshold; two candidates that are
closer than a thousandth count as equal. `bestCandidate` is the loop with its three variables,
`bestIndex` the loop over the sentences with its two starts.
A template is the set of tokens it adds to the answer, which is what `verifyEvidence` sees of it.

`Training` is the sequence of commands: each one is a process that loads the file, if
it needs it, and may save it. `spoiled` remembers whether a training has saved a file that does
not load.

## 3. Runs

| run | properties | shows |
|---|---|---|
| `answer_cache` | `TypeOK`, `OrderTracksValues`, `Bounded`, `LeastRecentlyUsed` | map and list stay in step and the cache is a least-recently-used one |
| `trainer` | `TypeOK`, `SkipIsSound`, `FileIsMemory`, `FactsStay`, `TablesCatchUp` | refreshes, corrections, a failure, a stop and changes of the database in every order: no fact leaves the memory, a skip is always justified, the file follows the memory until somebody teaches, the tables are learned in the end |
| `watcher` | `WatchTypeOK`, `PrintIsSound`, `WatcherFollows` | a remembered fingerprint stands for documents that were saved; a living watcher gets to the newest ones, although it is woken at every tick |
| `api_cache` | `NeverStale`, `MemoryIsHistory`, `MemoryIsBounded` | three concurrent requests against a retraining: nothing older than what the request saw is answered; the unlocked memory is too long only while somebody is about to trim it, and a turn that no race has torn is at its place in the history, also after a race |
| `api_talk` | `TypeOK`, `EveryRequestEnds` | one client at a time, of every kind of question, over a failing database and a missing or torn file: no request loses its question and each one ends |
| `routing` | `TypeOK`, `QueriesFitRoles`, `RevenueIsPlanned`, `RankingIsStable`, `FactIsTheBest`, `CorrectionIsAnswered`, `UnrelatedStay` | every small catalog and every small set of facts under a question of each kind |
| `assistant` | `TypeOK`, `SettingsHold`, `OpensReadOnly`, `CatalogWasTrue`, `FailureIsExplained`, `FormFitsQuery`, `CatalogFollows` | every small configuration, then a process over a schema that changes at any moment: only read-only configurations connect; the catalog is never a mixture with what was gone before its reading, and of an SQL database it has no table of the system; a query for something missing means that the schema changed; the catalog gets to the schema |
| `training` | `TypeOK`, `FactsKept`, `TrainingIsStable`, `DocumentsOnly`, `EvidenceIsRelated`, `OpensWithTheBest` | trainings, a correction and questions over a changing folder of every format: facts survive, the vectors do not depend on the order of maps, live catalogs stay out, answers are about their questions |

Four more runs end in a counterexample, each against a sentence of the
documentation or an expectation of a test. Quotations are in `PROJECT.json`.

| run | property | what happens |
|---|---|---|
| `trainer_stale_save` | `TeachPersists` | a refresh encodes, a correction is taught and reported as saved, the refresh writes; the file never gets the fact, as later refreshes skip |
| `watcher_file` | `FileCatchesUp` | the watcher answers every rewritten catalog by a model without that catalog and without facts; the trainer skips, since its own memory is right |
| `api_context` | `AnswersTheContext` | the answer of an enriched question is cached under the bare one |
| `training_unloadable` | `TrainedLoads` | a CSV row of empty cells becomes a text of colons, `train` saves it with an empty vector, and no command loads the file any more |

Three other limits of the code show up by a change of one constant, or by a
look at one state, and have no run of their own:

* The first fact of all, taught between `ShareFacts` and `Swap`, is lost from memory:
  the map was nil and could not be shared. `FactsStay` fails in `MCTrainer.cfg` with an
  empty `InitialFacts`.
* Two requests at a time that remember may lose a turn, for they append to one slice, although
  `conversation/memory_test.go:51` wants the latest turn there. `MemoryIsHistory` fails in
  `MCApiCache.cfg` if `Torn` turns are not let pass.
* Words of a question are searched in names as substrings, stop words too: "do" of "how
  many staff do we have" is found in "vendors", and vendors are counted, although
  README.md:274 rules out guessed SQL. The catalog and the question are in `MCRouting`.

### Bounds and why they are enough
* `answer_cache`: two places, four keys, two answers: a key can be
  evicted, come back, be overwritten and evict another one, with a bystander.
* `trainer`: two parts of the schema, read one after the other, each of which changes once,
  together with the other or apart; one change each of keys and documents; two corrections
  (the second one can overlap with the save of the first or replace its
  answer), one failure, one stop. More of any of them repeats what one of them
  can do to a refresh, for every refresh begins anew; the proofs have no bounds.
* `watcher`: the database stays, for the watcher ignores the catalog's
  content; one document, one correction, one failure, one stop and two starts, so
  that a dead watcher is started over a file it left behind. The changed document is one that
  `Validate` refuses, so that the watcher can save between the two loads of a
  start, and the process is left without a trainer.
* `api_cache`: three requests at once, for a store between the lookup and load of
  another and a third one that hits; one place, so that a store evicts; one
  retraining with both its steps; a memory of two turns, so that each of three requests may
  find it too long, and one may come after two that raced and find what they left.
* `MaxBusy = 1` in `api_talk` and `api_context` means requests that follow each other, as
  those properties are about one client.
* `routing`: `MaxSize` is the number of columns and facts together. Three columns
  give a query with date, measure and a competing measure; three facts
  give two competitors and the key that is asked.
* `assistant`: `.env` has up to two lines, for an entry that is overruled by another or cut
  off by a malformed one; each setting that decides is absent, empty, right and wrong.
  `MaxChanges = 2`: a table may go and come back, or one be gone before and another
  after the listing. `MaxFailures = 1`: a refresh fails and another one follows; a
  second failure would begin where the first did. Two business tables and one of
  the system, under an SQL provider, MongoDB and Cassandra: the listing, the columns of the first
  and of the second are different moments. `MaxRows = 2` is no row, one row, several. The proofs have no bounds.
* `training`: four places, each with the files of one sort: JSON of each shape, a live
  catalog, text, CSV of both kinds with empty, short and ragged rows. `MaxChanges = 2` gives
  two files beside each other or one replaced after a training; `MaxTaught = 1`, for what
  several facts do to each other is the subject of `routing`. The questions reach each
  boost, each intent and a refusal.
* Counters stop at their bounds, so a run may end in a state without a step:
  deadlock checking is off in the instances where a process may have ended or all requests
  be answered, and on where there is always a step.

### Fairness
* `Trainer`: weak fairness of the refresh goroutine and of a save that began. A ticker
  drives the goroutine (`selflearn.go:89`), calls that do not fail return. Nobody
  has to change the database, teach, stop or restart, and nothing must fail.
* `Watcher`: the same, and weak fairness of the loop of `watch`, a sleep and a comparison.
  Starting `watch` is up to somebody.
* `ApiServer`: weak fairness of each request, which has a goroutine of its own. The
  writers of the file owe nothing.
* `Assistant`: weak fairness of `ReadingStep`, the refresh that the ticker of the trainer starts
  (`selflearn.go:89`) with the queries of its introspection. Questions, exits, changes of the schema
  and failures owe nothing.

## 4. Proofs

TLAPS checks these for all values of the constants that satisfy the named
assumptions (`CacheAssumption`, `TrainerAssumption`, ...), which only say what types
they have, that the capacity is positive and that the special values differ.

* `OrderTracksValuesAlways`, `BoundedAlways` (from `CacheInvariant`): the
  conjunction of type, agreement of map and list, and bound is inductive. No part is so
  alone: an eviction makes room only if the head of the list is a stored key, and
  it keeps the agreement only if the head occurs once. The lemmas about
  `RemoveFirst`, `Append` and `Tail` say what each does to an injective sequence and to
  its set of elements.
* `CacheTypeCorrect`: the types alone, from the same invariant.
* `TypeCorrect` for `Trainer`: contains that whatever is about to be written is a
  whole model.
* `SkipIsSoundAlways`: inductive with the types; `Swap` sets signature and model
  together, `Restart` forgets the signature. A process that starts has no trainer yet, and
  nothing is claimed of it until it has.
* `FactsStayAlways`: assumes a first file with a fact, and needs it: see the first fact
  of all, above. The strengthening `MapIsShared` says
  that no model in memory, in the file or on its way there has a nil map, so that each
  refresh shares it.
* `FileIsMemoryAlways`: the strengthening `SoleWriter` says what holds at each step
  of the save while nobody has taught: the file is empty between open and write, then
  what was encoded, and that is still what the swap will install.

* `WatchTypeCorrect`, `PrintIsSoundAlways`: every step of the server in `Watcher` is a step of
  `Trainer` or leaves its variables alone, so the lemmas of `TrainerProofs` carry over.
  `PrintInv` adds that the fingerprint a pass works with is no newer than the documents,
  and the documents it read are no older than the fingerprint.
* `ServerTypeCorrect`, `CacheInServer`: `ServerInv` has the types,
  the bookkeeping of the file (`FileInv`), that a request in progress has a question, and the
  invariant of the cache. A step of the server is a step of the cache's specification or
  leaves it alone, so the cache's invariant is taken over from `AnswerCacheProofs` and not
  proved again.
* `NeverStaleAlways`: assumes `~CoarseClock`, that every write of the model file gets a
  time of its own. Then the time is twice the version, plus one while the file is torn, and
  `FreshInv` compares versions with times in every request and under every cache key. Without
  the assumption the claim is false: two saves within the resolution of the clock share a key.
* `MemoryIsBoundedAlways`: inductive with the types, and for any number of requests. Whoever writes a memory that
  is too long has just appended, and so is before its own trim; whoever finds it too long there stays
  until it has cut it to the limit; whoever finds it short enough leaves nothing behind.
* `MemoryIsHistoryAlways`: for any number of requests that race. `HistoryInv` says that
  requests which are in `Remember` together all race (`MeetAndRace`), that what an undisturbed one read
  is still there when it writes (`Undisturbed`, `SeenFits`), that a turn which is not torn is at its
  place in the history (`Aligned`), and that while nothing is torn and nobody races, nothing is
  missing (`Complete`). The hard case is the undisturbed request after a race: it
  appends to torn turns, and the ones it keeps must still be counted from the right end.

* `ImplementsRecentAnswers`: the refinement, step by step. `HistoryInv` adds to the invariant of
  the cache that the evicted entries and the entries of the list together hold every key at
  most once, and that the list is full as soon as anything was evicted. A `Get` that hits moves a key of the list, a `Set`
  of a stored key moves and replaces it, a `Set` of a new one appends and may
  evict; each is matched with the abstract step, and a miss or a repetition with a stutter.
  The hard step is a key that comes back after its eviction.

* `RoutingTypeCorrect`: every catalog keeps its columns apart, also when one is dropped.
* `CorrectionIsAnsweredAlways`: whatever else was taught, the answer just taught is
  given to the same question, because the exact key is looked up before any other fact is
  compared. No property of the comparison is needed.
* `QueriesFitRolesAlways`, `RevenueIsPlannedAlways`: for every catalog and question. The lemmas
  of `PlannerProofs` say of each picker which columns it can return, what it excludes,
  and when it returns none; `RankedIsSeq` and `InOrderIs` that every table is tried.
* `RankingIsStableAlways`: `InsertionIsStable` is the loop invariant of the insertion sort: after n
  tables the result has the scoring ones among them, higher scores first, equal ones
  in catalog order, each once.
* `FactIsTheBestAlways`: `SearchSteps` is the loop over the map in one order, `SearchFindsBest` its
  invariant: what is kept belongs to a fact that none of those seen beats. `OrderExists` says
  that a finite map has an order, so that the set of outcomes is not empty.
* `UnrelatedStayAlways`: two stores that differ by an unrelated fact. That fact matches no token of
  the question, so the loop with it and the loop without it keep the same best fact up to
  what decides about the answer (`FirstBestStays`). Questions without any word all have the same,
  empty key and are left out.

* `OpensReadOnlyAlways`: what a process does is decided by `Outcome` when it starts, so the
  step `Start` carries the proof: each of the conditions under which `Outcome` connects
  implies the read-only mode. Later steps keep provider and mode.
* `AssistantTypeCorrect`: process, reading and query one after the other. A reading that
  ended or failed leaves nothing behind; what is left to read was listed; a planned query asks its
  table for columns it has there, which is a fact about `Plan` and its pickers.
* `FormFitsQueryAlways`: a planned query comes from `Plan` for the phrases that are kept with
  it. The strengthening says so of a query under way, and the result columns of each kind of
  query decide the switch of `formatAnswer`.
* `CatalogWasTrueAlways`: `CatalogInv` says of the reading under way what `CatalogWasTrue` says of
  the catalog, for the tables whose columns are loaded, and of the others that they were
  there when it began. The history only grows, so that what was read stays so.
* `FailureIsExplainedAlways`: `FailureInv` on top of `CatalogInv`. A catalog that was read within one
  version equals the schema of that version, and a query asks only for the table it names and
  for columns of it (`PlannedIsPossible`); so a query that meets a gap was planned
  before a change.
* `SettingsHoldAlways`: `DotEnvIs` brings the loop of `LoadDotEnv` to a closed form, `SetBy`: a name
  that was set keeps its text, another one has that of its first entry.

* `FactsKeptAlways`: inductive as it stands, with `Validate` in it: `Train` takes over the facts
  only of a file that loads, and `Teach` needs one.
* `TrainingTypeCorrect`, `DocumentsOnlyAlways`, `EvidenceIsRelatedAlways`, `OpensWithTheBestAlways`:
  from one invariant, `DocumentsInv`: what is in the folder can be read, what is in the file are
  documents, and the last result is as it should be (`Sound`). The assumption on the
  constants is that JSON values are finite and texts are sequences of sentences.
  - *What a reader makes of a file are documents that are not blank* (`ReadType`). `collectStrings`
    and `collectLabeledStrings` recurse through a value; that there are such functions is
    `TreeRecursion`, from `Depth`, and that a claim holds of each value if it holds of each one
    that holds only such values is `Shallowest`, a least counterexample.
  - *Leaving live catalogs out of what was read is the same as never reading them*
    (`TrainedApart`): filtering distributes over concatenation (`OnlyConcat`), place by place.
  - *The loop over the candidates keeps text, place and score of one* (`BestCandidateIs`), and
    the loop over the sentences leads among those it has seen, whatever it starts from
    (`BestIndexIs`); `FirstBestIs` makes of that the first of the best.
* `TrainingIsStableAlways`: from `DocumentsInv` only that the folder can be read; the rest is about
  the readers. Two readings of an object differ in the order of its members, and so in the
  order of everything below it, so that no claim about single strings survives the recursion.
  What survives are sums: `Steady` says that all outcomes of a reader weigh the same, for any
  weight of a text or a token, and `AnyOrderSteady` that an order changes no sum (`Total` counts
  a set with one element for each unit, which is the same set in every order). The weights are then
  chosen: one for each text gives the number of strings, one for each that is not blank decides
  between a document, none and bare marks, and one for a single token counts that token, which is
  all that the key of a text is (`SameKey`). From document to folder the order is fixed, and
  `Settled` says that the keys are the same place by place (`InTurnSettled`).

Loops are recursive functions of a number, `f[n] == IF n = 0 THEN ... ELSE ... f[n - 1] ...`. That there is
such a function is `RecursionExists`; what it computes is proved by a least counterexample
(`LeastNatural`), since an induction schema takes an operator as a parameter, which the provers
cannot instantiate.

Only model-checked: liveness (`TablesCatchUp`, `WatcherFollows`, `EveryRequestEnds`,
`CatalogFollows`), as the prover does not do fairness. Every invariant and every action
property of a passing run has its theorem.

## 5. What is not modelled

* Drivers and the text of the queries, of the introspection and of the planner; so
  `ValidateReadOnlyQuery`, a predicate on that text (each query of the planner begins with
  SELECT). The models keep that calls fail and that they are several.
* Text: wording, quoting, splitting into sentences and tokens, formatting of values and
  dates. A name is known by the search terms in it.
* Nested fields of documents and the types of columns beyond the kinds the planner tells
  apart; foreign keys other than as a version in `Trainer`.
* The knowledge record: the files of the program leave it empty, only tests use it.
* Evaluation and `db-config`: they print and change nothing.
* The terminal chat: the answer function of `Routing` behind a memory of its own, which
  the server has too, for one client without concurrency.
* The data race on `Memory` beyond lost, stale and torn turns, and on `Facts` beyond the end of the
  process: Go may tear a slice or a string itself, and index out of range.
* The name that one client tells and another one is called by: the code shares the
  memory; no document says whose it is.
* `train` at the same time as another writer: `Training` takes the commands one after the other;
  `Trainer` and `Watcher` have the torn file and the mixture of two writers.

## 6. Plan

The order follows what the program is for: first what all answers depend on.

1. *Done:* the answer cache with its abstract specification; the trainer; the server; the
   planner, facts and routing; the watcher; configuration, introspection and questions
   beside a changing schema; readers, training and retrieval; the proofs of section 4.
2. `train` and `db-introspect` as processes beside those of `Watcher`, with each writer of
   the file as one instance of a common module of `os.WriteFile`.
