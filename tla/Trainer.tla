------------------------------ MODULE Trainer ------------------------------
(***************************************************************************)
(* selflearn/selflearn.go inside one process of main.go: the background    *)
(* refresh loop, the teaching prompt, the model file both of them write,   *)
(* and the database and training documents that change underneath.         *)
(*                                                                         *)
(* A catalog has versions for what it is put together from: `shape` for    *)
(* what catalogSignature writes out, in the parts that IntrospectSQL reads *)
(* by a query each (the list of tables, then the columns of each), and     *)
(* `keys` for what the signature leaves out (foreign keys, nullability; of *)
(* all tables at once).  A model is the corpus it was trained from and the *)
(* facts taught to it.  The trainer's Facts map is nil exactly when no     *)
(* fact is in it, for Teach allocates it and encoding/json omits an empty  *)
(* one.                                                                    *)
(***************************************************************************)
EXTENDS Integers, Sequences

CONSTANTS
    Questions, Answers,     \* fact keys and the answers taught for them
    Connected,              \* whether Options.Assistant is there
    NoCatalog,              \* the zero database.Catalog
    Unset,                  \* lastSig of a new trainer
    Empty, Garbled,         \* a truncated model file, one that does not parse
    InitialFacts,           \* the facts of the file the process starts with
    Parts,                  \* queries for the tables and columns of the database
    Unloadable,             \* versions of the documents whose model Validate refuses
    MaxShape, MaxKeys, MaxDocs, \* bounds on changes of the database and documents
    MaxTaught,              \* bound on corrections typed at the prompt
    MaxFailures, MaxStops   \* bounds on failing calls and on process exits

Catalogs == [shape : Seq(Nat), keys : Nat]
Corpora == [catalog : Catalogs \cup {NoCatalog}, docs : Nat]
Facts == UNION {[S -> Answers] : S \in SUBSET Questions}
Models == [corpus : Corpora, facts : Facts]
NoFacts == [q \in {} |-> q]
(* The facts after q was answered by a, replacing an older answer. *)
Learn(facts, q, a) == [x \in DOMAIN facts \cup {q} |-> IF x = q THEN a ELSE facts[x]]

ASSUME TrainerAssumption ==
    /\ Connected \in BOOLEAN
    /\ InitialFacts \in Facts
    /\ NoCatalog \notin Catalogs
    /\ Unset # NoCatalog /\ Unset \notin Nat \cup Seq(Nat)
    /\ Parts \in Nat \ {0} /\ Unloadable \subseteq Nat \ {0}
    /\ {Empty, Garbled} \cap Models = {}
    /\ {MaxShape, MaxKeys, MaxDocs, MaxTaught, MaxFailures, MaxStops} \subseteq Nat

VARIABLES
    db, docs,       \* the live schema and the version of the training source
    file,           \* data/model.json
    process,        \* where the process is: see up
    trained,        \* Trainer.trained; without a trainer, the model of main
    lastSig,        \* Trainer.lastSig
    refresh,        \* the refresh goroutine: its step and its local variables
    teach,          \* the prompt: its step and the encoded model it writes
    saved,          \* history: the facts the prompt reported as saved
    taught, failures, stops     \* the bounded counters

vars == <<db, docs, file, process, trained, lastSig, refresh, teach, saved, taught, failures, stops>>
memory == <<trained, lastSig>>
counters == <<taught, failures, stops>>

(* The process runs with its trainer, whose loop and prompt are below; it  *)
(* may also be down, starting, or, beside another writer of its file,      *)
(* "alone": running without a trainer.                                     *)
up == process = "up"

(* catalogSignature: of a catalog, only its shape. *)
Signature(catalog) == IF catalog = NoCatalog THEN NoCatalog ELSE catalog.shape

(* `train` excludes live catalogs: the first file knows documents only. *)
FirstModel == [corpus |-> [catalog |-> NoCatalog, docs |-> 0], facts |-> InitialFacts]

Waiting == [pc |-> "waiting", catalog |-> NoCatalog, docs |-> 0, shared |-> FALSE, data |-> Empty]
Prompt == [pc |-> "prompt", question |-> Unset, data |-> Empty]

(* LoadTrained: the file parses and Validate finds no empty vector in it.  *)
Readable == file \notin {Empty, Garbled} /\ file.corpus.docs \notin Unloadable

Init ==
    /\ db = [shape |-> [part \in 1..Parts |-> 0], keys |-> 0] /\ docs = 0
    /\ file = FirstModel
    /\ process = "up" /\ trained = FirstModel /\ lastSig = Unset
    /\ refresh = Waiting /\ teach = Prompt
    /\ saved = InitialFacts
    /\ taught = 0 /\ failures = 0 /\ stops = 0

-----------------------------------------------------------------------------
(* The world: a migration of some tables and columns, of keys only, a      *)
(* changed document.                                                       *)
Migrate ==
    /\ \E parts \in SUBSET (1..Parts) \ {{}} :
        /\ \A part \in parts : db.shape[part] < MaxShape
        /\ db' = [db EXCEPT !.shape =
                     [part \in 1..Parts |-> IF part \in parts THEN @[part] + 1 ELSE @[part]]]
    /\ UNCHANGED <<docs, file, process, memory, refresh, teach, saved, counters>>

ChangeKeys ==
    /\ db.keys < MaxKeys
    /\ db' = [db EXCEPT !.keys = @ + 1]
    /\ UNCHANGED <<docs, file, process, memory, refresh, teach, saved, counters>>

ChangeDocs ==
    /\ docs < MaxDocs
    /\ docs' = docs + 1
    /\ UNCHANGED <<db, file, process, memory, refresh, teach, saved, counters>>

-----------------------------------------------------------------------------
(* os.WriteFile: the file is truncated when it is opened and the bytes     *)
(* come in a second step.  Another writer may have come in between: over   *)
(* its bytes ours leave a mixture if they are fewer.                       *)
Truncate == file' = Empty
WriteOver(data) ==
    file' \in IF file \in {Empty, data} THEN {data} ELSE {data, Garbled}

At(step) == up /\ refresh.pc = step
Goto(step) == refresh' = [refresh EXCEPT !.pc = step]

(* The ticker fires: Refresh starts, with the zero catalog if there is no  *)
(* assistant.                                                              *)
NothingRead == [shape |-> << >>, keys |-> 0]
Tick ==
    /\ At("waiting")
    /\ refresh' = IF Connected THEN [Waiting EXCEPT !.pc = "shape", !.catalog = NothingRead]
                  ELSE [Waiting EXCEPT !.pc = "compare"]
    /\ UNCHANGED <<db, docs, file, process, memory, teach, saved, counters>>

(* RefreshCatalog: the parts of the shape one after the other, then the    *)
(* keys, outside of any transaction, so that a catalog may mix versions;   *)
(* then SaveCatalog.                                                       *)
ReadShape ==
    /\ At("shape")
    /\ LET read == Len(refresh.catalog.shape) + 1 IN
       refresh' = [refresh EXCEPT !.pc = IF read = Parts THEN "keys" ELSE "shape",
                                  !.catalog.shape = Append(@, db.shape[read])]
    /\ UNCHANGED <<db, docs, file, process, memory, teach, saved, counters>>

ReadKeys ==
    /\ At("keys")
    /\ refresh' = [refresh EXCEPT !.pc = "compare", !.catalog.keys = db.keys]
    /\ UNCHANGED <<db, docs, file, process, memory, teach, saved, counters>>

(* The signature is compared under the lock; an unchanged one ends it. *)
CompareAndRemember ==
    /\ At("compare")
    /\ IF Signature(refresh.catalog) = lastSig THEN Goto("waiting") ELSE Goto("load")
    /\ lastSig' = Signature(refresh.catalog)
    /\ UNCHANGED <<db, docs, file, process, trained, teach, saved, counters>>
Compare ==
    /\ At("compare")
    /\ IF Signature(refresh.catalog) = lastSig THEN Goto("waiting") ELSE Goto("load")
    /\ UNCHANGED <<db, docs, file, process, memory, teach, saved, counters>>

(* The training documents are read, live catalogs filtered out. *)
Load ==
    /\ At("load")
    /\ refresh' = [refresh EXCEPT !.pc = "share", !.docs = docs]
    /\ UNCHANGED <<db, docs, file, process, memory, teach, saved, counters>>

(* The fresh model gets the map of the trained one: from now on both are   *)
(* one map, unless it is nil.                                              *)
ShareFacts ==
    /\ At("share")
    /\ refresh' = [refresh EXCEPT !.pc = "encode", !.shared = trained.facts # NoFacts]
    /\ UNCHANGED <<db, docs, file, process, memory, teach, saved, counters>>

Fresh ==
    [corpus |-> [catalog |-> refresh.catalog, docs |-> refresh.docs],
     facts |-> IF refresh.shared THEN trained.facts ELSE NoFacts]

(* fresh.Save: encoded as the facts are now, without the lock; then the    *)
(* file is opened and written.                                             *)
EncodeNothing ==
    /\ At("encode")
    /\ Goto("open")
    /\ UNCHANGED <<db, docs, file, process, memory, teach, saved, counters>>
EncodeFresh ==
    /\ At("encode")
    /\ refresh' = [refresh EXCEPT !.pc = "open", !.data = Fresh]
    /\ UNCHANGED <<db, docs, file, process, memory, teach, saved, counters>>

OpenFresh ==
    /\ At("open")
    /\ Truncate
    /\ Goto("write")
    /\ UNCHANGED <<db, docs, process, memory, teach, saved, counters>>

WriteFresh ==
    /\ At("write")
    /\ WriteOver(refresh.data)
    /\ Goto("swap")
    /\ UNCHANGED <<db, docs, process, memory, teach, saved, counters>>

(* The model in memory is swapped under the lock, after the save. *)
SwapStaleFacts ==
    /\ At("swap")
    /\ trained' = refresh.data
    /\ lastSig' = Signature(refresh.catalog)
    /\ refresh' = Waiting
    /\ UNCHANGED <<db, docs, file, process, teach, saved, counters>>
Swap ==
    /\ At("swap")
    /\ trained' = Fresh
    /\ lastSig' = Signature(refresh.catalog)
    /\ refresh' = Waiting
    /\ UNCHANGED <<db, docs, file, process, teach, saved, counters>>

(* A failing query, reader or write ends the refresh with an error that    *)
(* the loop logs.  A write that fails or is cut short leaves the truncated *)
(* file behind, or some bytes of ours in it (that all of them are there    *)
(* and only the closing fails is left out).                                *)
CutShort(writing) == file' \in IF writing THEN {file, Garbled} ELSE {file}
FailUnnoticed ==
    /\ up /\ refresh.pc \in {"open", "write"}
    /\ failures < MaxFailures /\ failures' = failures + 1
    /\ Goto("swap")
    /\ UNCHANGED <<db, docs, file, process, memory, teach, saved, taught, stops>>
FailRefresh ==
    /\ up /\ refresh.pc \in {"shape", "keys", "load", "open", "write"}
    /\ failures < MaxFailures /\ failures' = failures + 1
    /\ refresh' = Waiting
    /\ CutShort(refresh.pc = "write")
    /\ UNCHANGED <<db, docs, process, memory, teach, saved, taught, stops>>

-----------------------------------------------------------------------------
(* Trainer.Teach under the lock: the map is changed, the model copied.     *)
(* The copy is encoded at once: nothing else changes its map.              *)
Teach(question, answer) ==
    /\ up /\ teach.pc = "prompt"
    /\ taught < MaxTaught /\ taught' = taught + 1
    /\ trained' = [trained EXCEPT !.facts = Learn(@, question, answer)]
    /\ teach' = [pc |-> "open", question |-> question, data |-> trained']
    /\ UNCHANGED <<db, docs, file, process, lastSig, refresh, saved, failures, stops>>


(* The Save of Teach, without the lock.  Its success is reported. *)
OpenTaught ==
    /\ teach.pc = "open"
    /\ Truncate
    /\ teach' = [teach EXCEPT !.pc = "write"]
    /\ UNCHANGED <<db, docs, process, memory, refresh, saved, counters>>

WriteTaught ==
    /\ teach.pc = "write"
    /\ WriteOver(teach.data)
    /\ saved' = Learn(saved, teach.question, teach.data.facts[teach.question])
    /\ teach' = Prompt
    /\ UNCHANGED <<db, docs, process, memory, refresh, counters>>

(* The end of the process, whatever its goroutines are doing: "exit" at    *)
(* the prompt, the panic on a failed Save of Teach, a signal, or the fatal *)
(* error of the runtime when Teach writes the map that Refresh encodes.    *)
Stop ==
    /\ process # "down" /\ stops < MaxStops /\ stops' = stops + 1
    /\ process' = "down"
    /\ refresh' = Waiting /\ teach' = Prompt
    /\ CutShort("write" \in {refresh.pc, teach.pc})
    /\ UNCHANGED <<db, docs, memory, saved, taught, failures>>

(* Started again: main insists on a valid file.  startSelfLearning loads   *)
(* it a second time, and its trainer remembers no signature.  (That the    *)
(* second load fails takes another writer of the file: see Watcher.)       *)
Start ==
    /\ process = "down" /\ Readable
    /\ process' = "starting" /\ trained' = file
    /\ UNCHANGED <<db, docs, file, lastSig, refresh, teach, saved, counters>>
RestartRemembering ==
    /\ process = "starting" /\ Readable
    /\ process' = "up" /\ trained' = file
    /\ UNCHANGED <<db, docs, file, lastSig, refresh, teach, saved, counters>>
Restart ==
    /\ process = "starting" /\ Readable
    /\ process' = "up" /\ trained' = file /\ lastSig' = Unset
    /\ UNCHANGED <<db, docs, file, refresh, teach, saved, counters>>


-----------------------------------------------------------------------------
RefreshStep ==
    \/ Tick \/ ReadShape \/ ReadKeys \/ Compare \/ Load \/ ShareFacts
    \/ EncodeFresh \/ OpenFresh \/ WriteFresh \/ Swap
SaveStep == OpenTaught \/ WriteTaught
World == Migrate \/ ChangeKeys \/ ChangeDocs
Startup == Start \/ Restart

Next ==
    \/ World
    \/ RefreshStep
    \/ FailRefresh
    \/ \E question \in Questions, answer \in Answers : Teach(question, answer)
    \/ SaveStep
    \/ Stop
    \/ Startup

Spec == Init /\ [][Next]_vars

(* The ticker keeps firing and a call that does not fail returns; nobody   *)
(* has to change the schema, teach, stop or restart.                       *)
FairSpec == Spec /\ WF_vars(RefreshStep) /\ WF_vars(SaveStep)

-----------------------------------------------------------------------------
RefreshType ==
    /\ refresh \in [pc : {"waiting", "shape", "keys", "compare", "load", "share",
                          "encode", "open", "write", "swap"},
                    catalog : Catalogs \cup {NoCatalog}, docs : Nat,
                    shared : BOOLEAN, data : Models \cup {Empty}]
    /\ (refresh.pc = "shape" => /\ refresh.catalog # NoCatalog
                                /\ Len(refresh.catalog.shape) < Parts)
    /\ (refresh.pc = "keys" => refresh.catalog # NoCatalog)
    /\ (refresh.pc \in {"open", "write"} => refresh.data \in Models)

TeachType ==
    /\ teach \in [pc : {"prompt", "open", "write"}, question : Questions \cup {Unset},
                  data : Models \cup {Empty}]
    /\ (teach.pc # "prompt" => /\ teach.data \in Models
                               /\ teach.question \in Questions
                               /\ teach.question \in DOMAIN teach.data.facts)

(* Whatever is about to be written to the file is a whole model. *)
TypeOK ==
    /\ db \in [shape : [1..Parts -> Nat], keys : Nat] /\ docs \in Nat
    /\ file \in Models \cup {Empty, Garbled}
    /\ process \in {"down", "starting", "up", "alone"}
    /\ (~up => refresh = Waiting)
    /\ trained \in Models
    /\ lastSig \in Seq(Nat) \cup {NoCatalog, Unset}
    /\ RefreshType
    /\ TeachType
    /\ saved \in Facts
    /\ taught \in Nat /\ failures \in Nat /\ stops \in Nat

(* The skip of an unchanged catalog (selflearn.go:143) is sound: whenever  *)
(* a signature is remembered, the model in memory was trained from a       *)
(* catalog of that signature, also after refreshes that failed half-way    *)
(* and after restarts.                                                     *)
SkipIsSound == up /\ lastSig # Unset => lastSig = Signature(trained.corpus.catalog)

(* A fact the running process knows stays known: neither a refresh that    *)
(* overlaps with Teach nor one that fails loses it (selflearn_test.go:37,  *)
(* "after refresh, fact lost").                                            *)
FactsStay ==
    [][up /\ up' => DOMAIN trained.facts \subseteq DOMAIN trained'.facts]_vars

(* As long as nobody taught, as in the server, the file that is answered   *)
(* from is the model in memory whenever it is readable, but for the moment *)
(* between the save and the swap: no failure, stop or restart makes the    *)
(* two drift apart.                                                        *)
FileIsMemory == taught = 0 /\ up /\ Readable /\ refresh.pc # "swap" => file = trained

(* "Teach adds a fact to the current model and persists it"                *)
(* (selflearn.go:117): once everything is at rest, what the prompt         *)
(* reported as saved is in a file that can be read.                        *)
AtRest == up /\ refresh.pc = "waiting" /\ teach.pc = "prompt"
TeachPersists ==
    AtRest /\ Readable =>
        \A q \in DOMAIN saved : q \in DOMAIN file.facts /\ file.facts[q] = saved[q]

(* "answers stay current as the schema and data evolve, without a restart" *)
(* (selflearn.go:2): the model in memory catches up with the tables and    *)
(* columns of the database for good, through failures and concurrent       *)
(* teaching.                                                               *)
Knows(corpus, part) == corpus.catalog # NoCatalog /\ corpus.catalog[part] = db[part]
TablesCatchUp == <>[](up => Knows(trained.corpus, "shape"))

(* "The API reloads and validates that artifact for each question, so new  *)
(* data becomes available" (README.md:146): the file catches up too.       *)
FileCatchesUp == <>[](up => Readable /\ Knows(file.corpus, "shape"))
=============================================================================
