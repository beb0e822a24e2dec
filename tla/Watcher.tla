------------------------------ MODULE Watcher ------------------------------
(***************************************************************************)
(* `watch` (main.go, watchTraining) in a terminal of its own beside the    *)
(* process of Trainer.tla: two writers of data/model.json, and a catalog   *)
(* file that one of them writes into the folder the other one watches.     *)
(*                                                                         *)
(* A fingerprint lists path, size and time of every file.  It is the       *)
(* version of the documents, and whether the catalog file is still the one *)
(* it was taken of: a file rewritten since never gets the old time again.  *)
(***************************************************************************)
EXTENDS Trainer

CONSTANTS MaxStarts     \* bound on starts of `watch`

ASSUME WatcherAssumption == MaxStarts \in Nat

VARIABLES
    live,           \* data/input/live-database.json: "absent", "torn" or "whole"
    watch           \* the watching process: its step, its local variables, its starts

allvars == <<vars, live, watch>>

(* seen, previous: fingerprints; trained: the documents of its last save. *)
NoPrint == [docs |-> Unset, current |-> FALSE]
Fingerprint == [docs |-> docs, current |-> TRUE]
Off == [pc |-> "off", seen |-> NoPrint, previous |-> NoPrint, data |-> Empty, trained |-> Unset,
        starts |-> 0]

WatchInit == Init /\ live = "absent" /\ watch = Off

-----------------------------------------------------------------------------
(* The process of Trainer.tla.  Refresh saves the catalog, at every tick   *)
(* and whatever the signature: an open that truncates, then the bytes.     *)
Outdated(print) == [print EXCEPT !.current = FALSE]
Rewrite(state) ==
    /\ live' = state
    /\ watch' = [watch EXCEPT !.seen = Outdated(@), !.previous = Outdated(@)]

OpenCatalog == ReadKeys /\ Rewrite("torn")
CloseCatalog == At("compare") /\ live = "torn" /\ Rewrite("whole") /\ UNCHANGED vars
FailCatalog ==
    /\ FailRefresh
    /\ \/ UNCHANGED <<live, watch>>
       \/ refresh.pc = "keys" /\ Rewrite("torn")

(* The second load of a start meets what the watcher left behind since the *)
(* first: there is no trainer then, and no word of it.                     *)
RestartAlone ==
    /\ process = "starting" /\ ~Readable
    /\ process' = "alone"
    /\ UNCHANGED <<db, docs, file, memory, refresh, teach, saved, counters>>

(* teachSession without a trainer: the file is loaded, taught and saved;   *)
(* the model that answers stays the one main loaded.  A file that cannot   *)
(* be loaded is the end of the process.                                    *)
TeachAlone(question, answer) ==
    /\ process = "alone" /\ Readable /\ teach.pc = "prompt"
    /\ taught < MaxTaught /\ taught' = taught + 1
    /\ teach' = [pc |-> "open", question |-> question,
                 data |-> [file EXCEPT !.facts = Learn(@, question, answer)]]
    /\ UNCHANGED <<db, docs, file, process, memory, refresh, saved, failures, stops>>

NoTrainer ==
    RestartAlone \/ \E question \in Questions, answer \in Answers : TeachAlone(question, answer)

Server ==
    \/ OpenCatalog \/ CloseCatalog \/ FailCatalog
    \/ /\ \/ World \/ Tick \/ ReadShape \/ Load \/ ShareFacts \/ EncodeFresh
          \/ OpenFresh \/ WriteFresh \/ Swap
          \/ Compare /\ live # "torn"
          \/ \E question \in Questions, answer \in Answers : Teach(question, answer)
          \/ SaveStep \/ Stop \/ Startup \/ NoTrainer
       /\ UNCHANGED <<live, watch>>

-----------------------------------------------------------------------------
(* The loop of watchTraining.  Every error ends the process. *)
Watching(step) == watch.pc = step
Private == <<db, docs, process, memory, refresh, teach, saved, counters, live>>

StartWatch ==
    /\ Watching("off") /\ watch.starts < MaxStarts
    /\ watch' = [Off EXCEPT !.pc = "asleep", !.starts = watch.starts + 1]
    /\ UNCHANGED <<vars, live>>

(* sourceFingerprint, and the comparison with the one before. *)
WakeOnce ==
    /\ Watching("asleep") /\ watch.previous = NoPrint
    /\ watch' = [watch EXCEPT !.pc = "load", !.seen = Fingerprint]
    /\ UNCHANGED <<vars, live>>
Wake ==
    /\ Watching("asleep") /\ watch.previous # Fingerprint
    /\ watch' = [watch EXCEPT !.pc = "load", !.seen = Fingerprint]
    /\ UNCHANGED <<vars, live>>

(* trainFrom reads all files, the catalog too, and drops it by its name.   *)
(* A truncated catalog does not parse, an error like any other.            *)
LoadNothing ==
    /\ Watching("load") /\ live # "torn"
    /\ watch' = [watch EXCEPT !.pc = "open"]
    /\ UNCHANGED <<vars, live>>
LoadWatched ==
    /\ Watching("load") /\ live # "torn"
    /\ watch' = [watch EXCEPT !.pc = "open",
                     !.data = [corpus |-> [catalog |-> NoCatalog, docs |-> docs],
                               facts |-> NoFacts]]
    /\ UNCHANGED <<vars, live>>
LoadTorn ==
    /\ Watching("load") /\ live = "torn"
    /\ watch' = [watch EXCEPT !.pc = "off"]
    /\ UNCHANGED <<vars, live>>

OpenWatched ==
    /\ Watching("open")
    /\ Truncate
    /\ watch' = [watch EXCEPT !.pc = "write"]
    /\ UNCHANGED Private

(* Save, then previous = fingerprint: the one taken before the load. *)
WriteAndLookAgain ==
    /\ Watching("write")
    /\ WriteOver(watch.data)
    /\ watch' = [watch EXCEPT !.pc = "asleep", !.previous = Fingerprint,
                              !.trained = watch.data.corpus.docs]
    /\ UNCHANGED Private
WriteWatched ==
    /\ Watching("write")
    /\ WriteOver(watch.data)
    /\ watch' = [watch EXCEPT !.pc = "asleep", !.previous = watch.seen,
                              !.trained = watch.data.corpus.docs]
    /\ UNCHANGED Private

(* A failing walk, read or write, or the end of the process. *)
FailWatch ==
    /\ watch.pc # "off"
    /\ failures < MaxFailures /\ failures' = failures + 1
    /\ CutShort(watch.pc = "write")
    /\ watch' = [watch EXCEPT !.pc = "off"]
    /\ UNCHANGED <<db, docs, process, memory, refresh, teach, saved, taught, stops, live>>

-----------------------------------------------------------------------------
WatchStep == Wake \/ LoadWatched \/ LoadTorn \/ OpenWatched \/ WriteWatched

WatchNext == Server \/ StartWatch \/ WatchStep \/ FailWatch

(* Ticker and sleeping loop go on, and a save that began goes on. *)
ServerLoop == Server /\ (RefreshStep \/ CloseCatalog \/ SaveStep)
WatchSpec ==
    /\ WatchInit /\ [][WatchNext]_allvars
    /\ WF_allvars(ServerLoop) /\ WF_allvars(WatchStep)

-----------------------------------------------------------------------------
WatchTypeOK ==
    /\ TypeOK
    /\ live \in {"absent", "torn", "whole"}
    /\ watch \in [pc : {"off", "asleep", "load", "open", "write"},
                  seen : [docs : Nat \cup {Unset}, current : BOOLEAN],
                  previous : [docs : Nat \cup {Unset}, current : BOOLEAN],
                  data : Models \cup {Empty}, trained : Nat \cup {Unset}, starts : Nat]
    /\ (watch.pc \in {"open", "write"} => watch.data \in Models)

(* A remembered fingerprint promises that there is nothing to do           *)
(* (main.go:323): the documents it stands for were in the last save, also  *)
(* when they changed while they were read or saved.                        *)
PrintIsSound ==
    watch.previous.docs # Unset =>
        /\ watch.trained # Unset
        /\ watch.trained >= watch.previous.docs

(* "The watcher rebuilds data/model.json when it detects a file change"    *)
(* (README.md:146): a watcher that lives has saved the newest documents in *)
(* the end, whatever the other process does.                               *)
WatcherFollows == <>[](watch.pc # "off" => watch.trained = docs)
=============================================================================
