--------------------------- MODULE TrainerProofs ---------------------------
(***************************************************************************)
(* Proofs about selflearn/selflearn.go for every set of questions, every   *)
(* number of schema changes, failures, corrections and restarts, and then  *)
(* about watchTraining of main.go beside it.                               *)
(***************************************************************************)
EXTENDS Watcher, TLAPS

(* Learning a fact gives a map of facts that keeps the questions of the    *)
(* old one and is not nil.                                                 *)
LEMMA LearnType ==
    ASSUME NEW facts \in Facts, NEW q \in Questions, NEW a \in Answers
    PROVE  /\ Learn(facts, q, a) \in Facts
           /\ DOMAIN Learn(facts, q, a) = DOMAIN facts \cup {q}
           /\ Learn(facts, q, a) # NoFacts
PROOF
  <1>1. PICK S \in SUBSET Questions : facts \in [S -> Answers]
    BY DEF Facts
  <1>2. Learn(facts, q, a) \in [S \cup {q} -> Answers]
    BY <1>1 DEF Learn
  <1>3. DOMAIN NoFacts = {} /\ DOMAIN facts = S /\ S \cup {q} \in SUBSET Questions
    BY <1>1 DEF NoFacts
  <1>4. DOMAIN Learn(facts, q, a) = DOMAIN facts \cup {q}
    BY DEF Learn
  <1>5. Learn(facts, q, a) \in Facts
    BY <1>2, <1>3 DEF Facts
  <1> QED BY <1>3, <1>4, <1>5

(* What a map of facts says of a question is an answer. *)
LEMMA FactType ==
    ASSUME NEW facts \in Facts, NEW q \in DOMAIN facts
    PROVE  facts[q] \in Answers
PROOF
  <1>1. PICK S \in SUBSET Questions : facts \in [S -> Answers]
    BY DEF Facts
  <1> QED BY <1>1

LEMMA NoFactsType == NoFacts \in Facts /\ DOMAIN NoFacts = {}
PROOF
  <1>1. NoFacts \in [{} -> Answers] /\ DOMAIN NoFacts = {}
    BY DEF NoFacts
  <1> QED BY <1>1 DEF Facts

(* What a write leaves in the file is a model or an unreadable file. *)
LEMMA WriteOverType ==
    ASSUME TypeOK, NEW data \in Models, WriteOver(data)
    PROVE  file' \in {data, Garbled}
PROOF BY DEF WriteOver

LEMMA CutShortType ==
    ASSUME TypeOK, NEW writing, CutShort(writing)
    PROVE  file' \in {file, Garbled} /\ file' \in Models \cup {Empty, Garbled}
PROOF BY DEF CutShort, TypeOK

LEMMA FreshType ==
    ASSUME TypeOK
    PROVE  Fresh \in Models
PROOF
  <1>1. trained.facts \in Facts /\ NoFacts \in Facts
    BY NoFactsType DEF TypeOK, Models
  <1>2. [catalog |-> refresh.catalog, docs |-> refresh.docs] \in Corpora
    BY DEF TypeOK, RefreshType, Corpora
  <1> QED BY <1>1, <1>2 DEF Fresh, Models

-----------------------------------------------------------------------------
LEMMA InitType == Init => TypeOK
PROOF
  <1> SUFFICES ASSUME Init PROVE TypeOK
    OBVIOUS
  <1>1. FirstModel \in Models
    BY TrainerAssumption DEF FirstModel, Models, Corpora
  <1>2. RefreshType
    BY DEF Init, RefreshType, Waiting
  <1>4. /\ process \in {"down", "starting", "up", "alone"} /\ up
        /\ db \in [shape : [1..Parts -> Nat], keys : Nat]
    BY DEF Init, up
  <1>3. TeachType
    BY DEF Init, TeachType, Prompt
  <1> QED
    BY <1>1, <1>2, <1>3, <1>4, TrainerAssumption DEF Init, TypeOK

(* Another part of the shape is read. *)
LEMMA ShapeRead ==
    ASSUME TypeOK, ReadShape
    PROVE  RefreshType'
PROOF
  <1> DEFINE read == Len(refresh.catalog.shape) + 1
             shape == Append(refresh.catalog.shape, db.shape[read])
             catalog == [shape |-> shape, keys |-> refresh.catalog.keys]
  <1>1. /\ refresh.pc = "shape" /\ refresh.catalog \in Catalogs
        /\ Len(refresh.catalog.shape) < Parts
    BY DEF TypeOK, RefreshType, ReadShape, At
  <1>2. refresh.catalog.shape \in Seq(Nat) /\ Len(refresh.catalog.shape) \in Nat
    BY <1>1 DEF Catalogs
  <1>3. read \in 1..Parts
    BY <1>1, <1>2, TrainerAssumption
  <1>4. shape \in Seq(Nat) /\ Len(shape) = read
    <2>1. db.shape[read] \in Nat
      <3> HIDE DEF read
      <3> QED BY <1>3 DEF TypeOK
    <2> DEFINE s == refresh.catalog.shape
               part == db.shape[read]
    <2>2. s \in Seq(Nat) /\ part \in Nat
      BY <1>2, <2>1
    <2> HIDE DEF s, part
    <2>3. Append(s, part) \in Seq(Nat) /\ Len(Append(s, part)) = Len(s) + 1
      BY <2>2
    <2> QED BY <2>3 DEF s, part
  <1>5. catalog \in Catalogs
    BY <1>1, <1>4 DEF Catalogs
  <1>6. refresh' = [refresh EXCEPT !.pc = IF read = Parts THEN "keys" ELSE "shape",
                                   !.catalog = catalog]
    <2>1. [refresh.catalog EXCEPT !.shape = shape] = catalog
      <3> DEFINE c == refresh.catalog
      <3>1. c \in Catalogs
        BY <1>1
      <3> HIDE DEF c, shape
      <3>2. [c EXCEPT !.shape = shape] = [shape |-> shape, keys |-> c.keys]
        BY <3>1 DEF Catalogs
      <3> QED BY <3>2 DEF c
    <2> QED BY <2>1 DEF ReadShape
  <1>7. catalog # NoCatalog /\ catalog.shape = shape
    BY <1>5, TrainerAssumption
  <1>8. read # Parts => read < Parts
    BY <1>3, TrainerAssumption
  <1> HIDE DEF catalog, shape, read
  <1> QED BY <1>1, <1>4, <1>5, <1>6, <1>7, <1>8 DEF TypeOK, RefreshType

LEMMA KeysRead ==
    ASSUME TypeOK, ReadKeys
    PROVE  RefreshType'
PROOF
  <1> DEFINE catalog == [refresh.catalog EXCEPT !.keys = db.keys]
  <1>1. refresh.pc = "keys" /\ refresh.catalog \in Catalogs
    BY DEF TypeOK, RefreshType, ReadKeys, At
  <1>2. catalog \in Catalogs
    BY <1>1 DEF TypeOK, Catalogs
  <1>3. refresh' = [refresh EXCEPT !.pc = "compare", !.catalog = catalog]
    BY DEF ReadKeys
  <1> HIDE DEF catalog
  <1> QED BY <1>1, <1>2, <1>3 DEF TypeOK, RefreshType

(* The steps of Refresh that leave file and model alone. *)
LEMMA RefreshLocalType ==
    ASSUME TypeOK, Tick \/ ReadShape \/ ReadKeys \/ Compare \/ Load \/ ShareFacts \/ EncodeFresh
    PROVE  TypeOK'
PROOF
  <1>1. UNCHANGED <<db, docs, file, process, trained, lastSig, teach, saved, taught, failures, stops>>
    BY DEF Tick, ReadShape, ReadKeys, Compare, Load, ShareFacts, EncodeFresh, memory, counters
  <1>2. RefreshType'
    <2> USE DEF TypeOK, RefreshType, At, Goto
    <2>1. CASE Tick
      <3>1. /\ NothingRead \in Catalogs /\ NothingRead # NoCatalog
            /\ Len(NothingRead.shape) < Parts
        <4>1. NothingRead.shape = << >> /\ NothingRead \in Catalogs
          BY DEF NothingRead, Catalogs
        <4>2. Parts \in Nat /\ Parts # 0 /\ NoCatalog \notin Catalogs
          BY TrainerAssumption
        <4> HIDE DEF NothingRead
        <4> QED BY <4>1, <4>2
      <3>2. CASE Connected
        <4>1. refresh' = [Waiting EXCEPT !.pc = "shape", !.catalog = NothingRead]
          BY <2>1, <3>2 DEF Tick
        <4> HIDE DEF NothingRead
        <4> QED BY <3>1, <4>1 DEF Waiting
      <3>3. CASE ~Connected
        BY <2>1, <3>3 DEF Tick, Waiting
      <3> QED BY <3>2, <3>3
    <2>2. CASE ReadShape
      BY <2>2, ShapeRead
    <2>3. CASE ReadKeys
      BY <2>3, KeysRead
    <2>4. CASE Compare
      BY <2>4 DEF Compare
    <2>5. CASE Load
      BY <2>5 DEF Load
    <2>6. CASE ShareFacts
      BY <2>6 DEF ShareFacts
    <2>7. CASE EncodeFresh
      BY <2>7, FreshType DEF EncodeFresh
    <2> QED BY <2>1, <2>2, <2>3, <2>4, <2>5, <2>6, <2>7
  <1>3. TeachType'
    BY <1>1 DEF TypeOK, TeachType
  <1>4. up
    BY DEF Tick, ReadShape, ReadKeys, Compare, Load, ShareFacts, EncodeFresh, At
  <1> QED BY <1>1, <1>2, <1>3, <1>4 DEF TypeOK, up

LEMMA StepType == TypeOK /\ [Next]_vars => TypeOK'
PROOF
  <1> SUFFICES ASSUME TypeOK, [Next]_vars PROVE TypeOK'
    OBVIOUS
  <1> USE DEF memory, counters, up, At
  <1>1. CASE World
    <2>1. RefreshType' /\ TeachType'
      BY <1>1 DEF TypeOK, RefreshType, TeachType, World, Migrate, ChangeKeys, ChangeDocs
    <2>2. db' \in [shape : [1..Parts -> Nat], keys : Nat]
      <3>1. ASSUME NEW parts \in SUBSET (1..Parts),
                   db' = [db EXCEPT !.shape = [part \in 1..Parts |->
                                    IF part \in parts THEN @[part] + 1 ELSE @[part]]]
            PROVE  db' \in [shape : [1..Parts -> Nat], keys : Nat]
        <4> DEFINE Raised(part) == IF part \in parts THEN db.shape[part] + 1 ELSE db.shape[part]
                   raised == [part \in 1..Parts |-> Raised(part)]
        <4>1. db \in [shape : [1..Parts -> Nat], keys : Nat]
          BY DEF TypeOK
        <4>2. ASSUME NEW part \in 1..Parts PROVE Raised(part) \in Nat
          <5>1. db.shape \in [1..Parts -> Nat]
            BY <4>1
          <5>2. db.shape[part] \in Nat
            BY <5>1, Zenon
          <5> QED BY <5>2
        <4>3. db' = [db EXCEPT !.shape = raised]
          BY <3>1
        <4> HIDE DEF Raised
        <4>4. raised \in [1..Parts -> Nat]
          BY <4>2
        <4> HIDE DEF raised
        <4> QED BY <4>1, <4>3, <4>4
      <3>2. CASE Migrate
        BY <3>1, <3>2 DEF Migrate
      <3>3. CASE ChangeKeys \/ ChangeDocs
        BY <3>3 DEF TypeOK, ChangeKeys, ChangeDocs
      <3> QED BY <1>1, <3>2, <3>3 DEF World
    <2> QED BY <1>1, <2>1, <2>2 DEF TypeOK, World, Migrate, ChangeKeys, ChangeDocs
  <1>2. CASE Tick \/ ReadShape \/ ReadKeys \/ Compare \/ Load \/ ShareFacts \/ EncodeFresh
    BY <1>2, RefreshLocalType
  <1>3. CASE OpenFresh
    <2>1. RefreshType' /\ TeachType'
      BY <1>3 DEF TypeOK, RefreshType, TeachType, OpenFresh, At, Goto
    <2> QED BY <1>3, <2>1 DEF TypeOK, OpenFresh, Truncate
  <1>4. CASE WriteFresh
    <2>1. RefreshType' /\ TeachType'
      BY <1>4 DEF TypeOK, RefreshType, TeachType, WriteFresh, At, Goto
    <2>2. file' \in Models \cup {Garbled}
      BY <1>4, WriteOverType DEF TypeOK, RefreshType, WriteFresh, At
    <2> QED BY <1>4, <2>1, <2>2 DEF TypeOK, WriteFresh
  <1>5. CASE Swap
    <2>1. RefreshType' /\ TeachType'
      BY <1>5 DEF TypeOK, RefreshType, TeachType, Swap, Waiting
    <2>2. lastSig' \in Seq(Nat) \cup {NoCatalog, Unset}
      BY <1>5 DEF TypeOK, RefreshType, Swap, Signature, Catalogs
    <2> QED BY <1>5, <2>1, <2>2, FreshType DEF TypeOK, Swap
  <1>6. CASE FailRefresh
    <2>1. RefreshType' /\ TeachType'
      BY <1>6 DEF TypeOK, RefreshType, TeachType, FailRefresh, Waiting
    <2>2. file' \in Models \cup {Empty, Garbled}
      BY <1>6, CutShortType DEF FailRefresh
    <2> QED BY <1>6, <2>1, <2>2 DEF TypeOK, FailRefresh
  <1>7. ASSUME NEW question \in Questions, NEW answer \in Answers, Teach(question, answer)
         PROVE  TypeOK'
    <2>1. trained.facts \in Facts
      BY DEF TypeOK, Models
    <2>5. /\ Learn(trained.facts, question, answer) \in Facts
          /\ DOMAIN Learn(trained.facts, question, answer) = DOMAIN trained.facts \cup {question}
      BY <2>1, LearnType, Zenon
    <2>2. /\ trained' \in Models
          /\ trained'.facts = Learn(trained.facts, question, answer)
      BY <1>7, <2>5 DEF TypeOK, Teach, Models
    <2>3. question \in DOMAIN trained'.facts
      BY <2>2, <2>5
    <2>4. RefreshType' /\ TeachType'
      BY <1>7, <2>2, <2>3 DEF TypeOK, RefreshType, TeachType, Teach
    <2> QED BY <1>7, <2>2, <2>4 DEF TypeOK, Teach
  <1>8. CASE OpenTaught
    <2>1. RefreshType' /\ TeachType'
      BY <1>8 DEF TypeOK, RefreshType, TeachType, OpenTaught
    <2> QED BY <1>8, <2>1 DEF TypeOK, OpenTaught, Truncate
  <1>9. CASE WriteTaught
    <2>1. RefreshType' /\ TeachType'
      BY <1>9 DEF TypeOK, RefreshType, TeachType, WriteTaught, Prompt
    <2>2. /\ teach.data \in Models /\ teach.data.facts \in Facts
          /\ teach.question \in Questions /\ teach.question \in DOMAIN teach.data.facts
      BY <1>9 DEF TypeOK, TeachType, WriteTaught, Models
    <2>3. file' \in Models \cup {Garbled}
      BY <1>9, <2>2, WriteOverType DEF WriteTaught
    <2>4. saved' \in Facts
      BY <1>9, <2>2, LearnType, FactType DEF TypeOK, WriteTaught
    <2> QED BY <1>9, <2>1, <2>3, <2>4 DEF TypeOK, WriteTaught
  <1>10. CASE Stop
    <2>1. RefreshType' /\ TeachType'
      BY <1>10 DEF TypeOK, RefreshType, TeachType, Stop, Waiting, Prompt
    <2>2. UNCHANGED <<db, docs, trained, lastSig, saved, taught, failures>>
      BY <1>10 DEF Stop
    <2>3. process' = "down" /\ refresh' = Waiting
      BY <1>10 DEF Stop
    <2>4. stops' \in Nat
      BY <1>10 DEF TypeOK, Stop
    <2>5. file' \in Models \cup {Empty, Garbled}
      BY <1>10, CutShortType DEF Stop
    <2> QED BY <2>1, <2>2, <2>3, <2>4, <2>5 DEF TypeOK
  <1>11. CASE Startup
    <2>1. UNCHANGED <<db, docs, file, refresh, teach, saved, counters>> /\ ~up
      BY <1>11 DEF Startup, Start, Restart
    <2>2. RefreshType' /\ TeachType'
      BY <2>1 DEF TypeOK, RefreshType, TeachType
    <2>3. trained' \in {trained, file} /\ (trained' = file => trained' = trained \/ Readable)
      BY <1>11 DEF Startup, Start, Restart
    <2>4. /\ process' \in {"starting", "up"}
          /\ lastSig' \in {lastSig, Unset}
      BY <1>11 DEF Startup, Start, Restart
    <2> QED BY <2>1, <2>2, <2>3, <2>4 DEF TypeOK, Readable
  <1>12. CASE UNCHANGED vars
    BY <1>12 DEF TypeOK, RefreshType, TeachType, vars
  <1> QED
    BY <1>1, <1>2, <1>3, <1>4, <1>5, <1>6, <1>7, <1>8, <1>9, <1>10, <1>11, <1>12
    DEF Next, RefreshStep, SaveStep

(* The variables keep their types. *)
THEOREM TypeCorrect == Spec => []TypeOK
PROOF
  <1> QED BY InitType, StepType, PTL DEF Spec

-----------------------------------------------------------------------------
(* Only Swap and Restart touch the remembered signature or the corpus in   *)
(* memory of a running process: Swap sets both of them together, Restart   *)
(* forgets the signature, and Teach keeps the corpus.                      *)
THEOREM SkipIsSoundAlways == Spec => []SkipIsSound
PROOF
  <1>1. Init => SkipIsSound
    BY DEF Init, SkipIsSound
  <1>2. TypeOK /\ SkipIsSound /\ [Next]_vars => SkipIsSound'
    <2> SUFFICES ASSUME TypeOK, SkipIsSound, [Next]_vars PROVE SkipIsSound'
      OBVIOUS
    <2> USE DEF memory, counters, SkipIsSound, up
    <2>1. CASE UNCHANGED <<process, trained, lastSig>>
      BY <2>1
    <2>2. CASE Swap
      BY <2>2 DEF Swap, Fresh
    <2>3. ASSUME NEW question \in Questions, NEW answer \in Answers, Teach(question, answer)
          PROVE  SkipIsSound'
      <3>1. trained'.corpus = trained.corpus
        BY <2>3 DEF Teach, TypeOK, Models
      <3> QED BY <2>3, <3>1 DEF Teach
    <2>4. CASE Stop
      BY <2>4 DEF Stop
    <2>5. CASE Startup
      BY <2>5 DEF Startup, Start, Restart
    <2>6. World \/ FailRefresh \/ SaveStep \/ UNCHANGED vars =>
              UNCHANGED <<process, trained, lastSig>>
      BY DEF World, Migrate, ChangeKeys, ChangeDocs, FailRefresh, SaveStep, OpenTaught,
             WriteTaught, vars
    <2>7. RefreshStep => Swap \/ UNCHANGED <<process, trained, lastSig>>
      BY DEF RefreshStep, Tick, ReadShape, ReadKeys, Compare, Load, ShareFacts, EncodeFresh,
             OpenFresh, WriteFresh
    <2> QED BY <2>1, <2>2, <2>3, <2>4, <2>5, <2>6, <2>7 DEF Next
  <1> QED BY <1>1, <1>2, TypeCorrect, PTL DEF Spec

-----------------------------------------------------------------------------
(* Why no fact is lost when the first file has one: the map is never nil,  *)
(* neither in memory nor in anything on its way to the file, so that every *)
(* Refresh shares it and its Swap installs the map Teach has written to.   *)
MapIsShared ==
    /\ trained.facts # NoFacts
    /\ (file \in Models => file.facts # NoFacts)
    /\ (refresh.pc \in {"encode", "open", "write", "swap"} => refresh.shared)
    /\ (refresh.pc \in {"open", "write"} => refresh.data.facts # NoFacts)
    /\ (teach.pc # "prompt" => teach.data.facts # NoFacts)

LEMMA UnreadableIsNoModel == Empty \notin Models /\ Garbled \notin Models
PROOF BY TrainerAssumption

LEMMA MapIsSharedInit == InitialFacts # NoFacts /\ Init => MapIsShared
PROOF BY DEF Init, MapIsShared, FirstModel, Waiting, Prompt

LEMMA MapIsSharedStep == TypeOK /\ MapIsShared /\ [Next]_vars => MapIsShared'
PROOF
  <1> SUFFICES ASSUME TypeOK, MapIsShared, [Next]_vars PROVE MapIsShared'
    OBVIOUS
  <1> USE DEF memory, counters
  <1>1. CASE World \/ UNCHANGED vars
    BY <1>1 DEF MapIsShared, World, Migrate, ChangeKeys, ChangeDocs, vars
  <1>2. CASE Tick \/ ReadShape \/ ReadKeys \/ Compare \/ Load
    <2>1. refresh'.pc \notin {"encode", "open", "write", "swap"}
      BY <1>2 DEF TypeOK, RefreshType, Tick, ReadShape, ReadKeys, Compare, Load, Waiting, At, Goto
    <2>2. UNCHANGED <<file, trained, teach>>
      BY <1>2 DEF Tick, ReadShape, ReadKeys, Compare, Load
    <2> QED BY <2>1, <2>2 DEF MapIsShared
  <1>3. CASE ShareFacts
    BY <1>3 DEF MapIsShared, TypeOK, RefreshType, ShareFacts, At
  <1>4. CASE EncodeFresh
    <2>1. Fresh.facts # NoFacts
      BY <1>4 DEF MapIsShared, EncodeFresh, Fresh, At
    <2> QED BY <1>4, <2>1 DEF MapIsShared, TypeOK, RefreshType, EncodeFresh, At
  <1>5. CASE OpenFresh
    BY <1>5, UnreadableIsNoModel
    DEF MapIsShared, TypeOK, RefreshType, OpenFresh, Truncate, At, Goto
  <1>6. CASE WriteFresh
    <2>1. file' \in {refresh.data, Garbled}
      BY <1>6, WriteOverType DEF TypeOK, RefreshType, WriteFresh, At
    <2> QED BY <1>6, <2>1, UnreadableIsNoModel
            DEF MapIsShared, TypeOK, RefreshType, WriteFresh, At, Goto
  <1>7. CASE Swap
    <2>1. Fresh.facts # NoFacts
      BY <1>7 DEF MapIsShared, Swap, Fresh, At
    <2> QED BY <1>7, <2>1 DEF MapIsShared, Swap, Waiting
  <1>8. CASE FailRefresh
    <2>1. file' \in {file, Garbled}
      BY <1>8, CutShortType DEF FailRefresh
    <2> QED BY <1>8, <2>1, UnreadableIsNoModel DEF MapIsShared, FailRefresh, Waiting
  <1>9. ASSUME NEW question \in Questions, NEW answer \in Answers, Teach(question, answer)
        PROVE  MapIsShared'
    <2>1. trained'.facts = Learn(trained.facts, question, answer) /\ trained.facts \in Facts
      BY <1>9 DEF Teach, TypeOK, Models
    <2>2. Learn(trained.facts, question, answer) # NoFacts
      BY <2>1, LearnType, Zenon
    <2> QED BY <1>9, <2>1, <2>2 DEF MapIsShared, Teach
  <1>10. CASE OpenTaught
    BY <1>10, UnreadableIsNoModel DEF MapIsShared, TypeOK, TeachType, OpenTaught, Truncate
  <1>11. CASE WriteTaught
    <2>1. file' \in {teach.data, Garbled}
      BY <1>11, WriteOverType DEF TypeOK, TeachType, WriteTaught
    <2> QED BY <1>11, <2>1, UnreadableIsNoModel DEF MapIsShared, WriteTaught, Prompt
  <1>12. CASE Stop
    <2>1. file' \in {file, Garbled}
      BY <1>12, CutShortType DEF Stop
    <2> QED BY <1>12, <2>1, UnreadableIsNoModel DEF MapIsShared, Stop, Waiting, Prompt
  <1>13. CASE Startup
    <2>1. UNCHANGED <<file, refresh, teach>>
      BY <1>13 DEF Startup, Start, Restart
    <2>2. trained' = trained \/ (trained' = file /\ file \in Models)
      BY <1>13 DEF Startup, Start, Restart, TypeOK, Readable
    <2> QED BY <2>1, <2>2 DEF MapIsShared
  <1> QED
    BY <1>1, <1>2, <1>3, <1>4, <1>5, <1>6, <1>7, <1>8, <1>9, <1>10, <1>11, <1>12, <1>13
    DEF Next, RefreshStep, SaveStep

(* A process that starts with at least one fact in its file never forgets  *)
(* one while it runs, however Teach and Refresh overlap: what              *)
(* selflearn_test.go:37 asks for, under the one condition it needs.        *)
THEOREM FactsStayAlways == InitialFacts # NoFacts /\ Spec => FactsStay
PROOF
  <1>1. TypeOK /\ MapIsShared /\ [Next]_vars =>
        [up /\ up' => DOMAIN trained.facts \subseteq DOMAIN trained'.facts]_vars
    <2> SUFFICES ASSUME TypeOK, MapIsShared, Next, up, up'
                 PROVE  DOMAIN trained.facts \subseteq DOMAIN trained'.facts
      OBVIOUS
    <2> USE DEF memory, counters
    <2>1. CASE Swap
      BY <2>1 DEF Swap, MapIsShared, Fresh, At
    <2>2. ASSUME NEW question \in Questions, NEW answer \in Answers, Teach(question, answer)
          PROVE  DOMAIN trained.facts \subseteq DOMAIN trained'.facts
      <3>1. trained'.facts = Learn(trained.facts, question, answer) /\ trained.facts \in Facts
        BY <2>2 DEF Teach, TypeOK, Models
      <3>2. DOMAIN Learn(trained.facts, question, answer) = DOMAIN trained.facts \cup {question}
        BY <3>1, LearnType, Zenon
      <3> QED BY <3>1, <3>2
    <2>3. ~Stop /\ ~Startup
      BY DEF Stop, Startup, Start, Restart, up
    <2>4. World \/ FailRefresh \/ SaveStep => UNCHANGED trained
      BY DEF World, Migrate, ChangeKeys, ChangeDocs, FailRefresh, SaveStep, OpenTaught,
             WriteTaught
    <2>5. RefreshStep => Swap \/ UNCHANGED trained
      BY DEF RefreshStep, Tick, ReadShape, ReadKeys, Compare, Load, ShareFacts, EncodeFresh,
             OpenFresh, WriteFresh
    <2> QED BY <2>1, <2>2, <2>3, <2>4, <2>5 DEF Next
  <1> QED
    BY <1>1, MapIsSharedInit, MapIsSharedStep, TypeCorrect, PTL DEF Spec, FactsStay

-----------------------------------------------------------------------------
(* Until somebody teaches, Refresh is the only writer: its file is empty   *)
(* between open and write, holds what was encoded after it, and what was   *)
(* encoded is still what the swap is going to install.                     *)
Alone ==
    /\ teach.pc = "prompt"
    /\ (~up => refresh.pc = "waiting")
    /\ (refresh.pc \in {"open", "write", "swap"} => refresh.data = Fresh)
    /\ (refresh.pc = "write" => file = Empty)
    /\ (refresh.pc = "swap" => file = refresh.data)
    /\ (up /\ Readable /\ refresh.pc # "swap" => file = trained)
SoleWriter == taught = 0 => Alone

LEMMA SoleWriterStep == TypeOK /\ SoleWriter /\ [Next]_vars => SoleWriter'
PROOF
  <1> SUFFICES ASSUME TypeOK, taught = 0 => Alone, [Next]_vars, taught' = 0 PROVE Alone'
    BY DEF SoleWriter
  <1> USE DEF memory, counters
  <1>a. ASSUME NEW question \in Questions, NEW answer \in Answers,
               Teach(question, answer)
        PROVE  FALSE
    BY <1>a DEF Teach, TypeOK
  <1>b. taught' = taught
    BY <1>a DEF Next, RefreshStep, SaveStep, World, Migrate, ChangeKeys, ChangeDocs, Tick,
                ReadShape, ReadKeys, Compare, Load, ShareFacts, EncodeFresh, OpenFresh,
                WriteFresh, Swap, FailRefresh, OpenTaught, WriteTaught, Stop, Startup, Start,
                Restart, vars
  <1>c. Alone
    BY <1>b
  <1>1. CASE World \/ UNCHANGED vars
    BY <1>1, <1>c DEF Alone, Readable, Fresh, World, Migrate, ChangeKeys,
                ChangeDocs, up, vars
  <1>2. CASE Tick \/ ReadShape \/ ReadKeys \/ Compare \/ Load \/ ShareFacts
    <2>1. refresh'.pc \notin {"open", "write", "swap"} /\ refresh.pc # "swap"
      BY <1>2, <1>c DEF TypeOK, RefreshType, Tick, ReadShape, ReadKeys, Compare, Load, ShareFacts,
                  Waiting, At, Goto
    <2>2. up /\ UNCHANGED <<file, up, trained, teach>>
      BY <1>2, <1>c DEF Tick, ReadShape, ReadKeys, Compare, Load, ShareFacts, At, up
    <2> QED BY <2>1, <2>2, <1>c DEF Alone, Readable
  <1>3. CASE EncodeFresh
    <2>1. refresh'.pc = "open" /\ refresh'.data = Fresh /\ refresh.pc = "encode" /\ up
      BY <1>3, <1>c DEF TypeOK, RefreshType, EncodeFresh, At
    <2>2. UNCHANGED <<refresh.catalog, refresh.docs, refresh.shared, file, up, trained, teach>>
      BY <1>3, <1>c DEF TypeOK, RefreshType, EncodeFresh, up
    <2>3. Fresh' = Fresh
      BY <2>2 DEF Fresh
    <2> QED BY <2>1, <2>2, <2>3, <1>c DEF Alone, Readable
  <1>4. CASE OpenFresh
    <2>1. refresh' = [refresh EXCEPT !.pc = "write"] /\ refresh'.pc = "write" /\ refresh.pc = "open"
      BY <1>4, <1>c DEF TypeOK, RefreshType, OpenFresh, At, Goto
    <2>2. refresh'.data = refresh.data /\ Fresh' = Fresh /\ teach' = teach /\ up'
      BY <1>4, <1>c, <2>1 DEF TypeOK, RefreshType, OpenFresh, Fresh, At, up
    <2>3. file' = Empty
      BY <1>4, <1>c DEF OpenFresh, Truncate
    <2> QED BY <2>1, <2>2, <2>3, <1>c DEF Alone, Readable
  <1>5. CASE WriteFresh
    <2>1. refresh' = [refresh EXCEPT !.pc = "swap"] /\ refresh'.pc = "swap" /\ refresh.pc = "write"
      BY <1>5, <1>c DEF TypeOK, RefreshType, WriteFresh, At, Goto
    <2>2. refresh'.data = refresh.data /\ Fresh' = Fresh /\ teach' = teach /\ up'
      BY <1>5, <1>c, <2>1 DEF TypeOK, RefreshType, WriteFresh, Fresh, At, up
    <2>3. file' = refresh.data
      BY <1>5, <1>c, <2>1 DEF Alone, WriteFresh, WriteOver
    <2> QED BY <2>1, <2>2, <2>3, <1>c DEF Alone
  <1>6. CASE Swap
    <2>1. refresh.pc = "swap" /\ trained' = Fresh /\ file' = file /\ teach' = teach
      BY <1>6, <1>c DEF Swap, At
    <2>2. file' = trained'
      BY <2>1, <1>c DEF Alone
    <2> QED BY <1>6, <1>c, <2>1, <2>2 DEF Alone, Swap, Waiting
  <1>7. CASE FailRefresh
    <2>1. refresh' = Waiting /\ UNCHANGED <<up, trained, teach>> /\ refresh.pc # "swap"
      BY <1>7 DEF FailRefresh, up
    <2>2. file' = file \/ file' = Garbled
      BY <1>7 DEF FailRefresh, CutShort
    <2>3. Readable' => Readable /\ file' = file
      BY <2>2 DEF Readable
    <2> QED BY <1>c, <2>1, <2>3 DEF Alone, Waiting
  <1>8. ~ \E question \in Questions, answer \in Answers :
              Teach(question, answer)
    BY <1>a
  <1>9. ~SaveStep
    BY <1>c DEF SaveStep, OpenTaught, WriteTaught, Alone
  <1>10. CASE Stop
    BY <1>10, <1>c DEF Alone, Stop, Waiting, Prompt, up
  <1>11. CASE Startup
    <2>1. (up' => trained' = file') /\ UNCHANGED <<refresh, teach, file>>
      BY <1>11 DEF Startup, Start, Restart, up
    <2>2. refresh.pc = "waiting"
      BY <1>11, <1>c DEF Alone, Startup, Start, Restart, up
    <2> QED BY <1>c, <2>1, <2>2 DEF Alone
  <1> QED
    BY <1>1, <1>2, <1>3, <1>4, <1>5, <1>6, <1>7, <1>8, <1>9, <1>10, <1>11
    DEF Next, RefreshStep

(* Until somebody teaches, and in the server nobody does, the file never   *)
(* differs from the model in memory while it can be read, whatever fails   *)
(* and however often the process is stopped in the middle of a save.       *)
THEOREM FileIsMemoryAlways == Spec => []FileIsMemory
PROOF
  <1>1. Init => SoleWriter
    BY DEF Init, SoleWriter, Alone, Waiting, Prompt
  <1>2. SoleWriter => FileIsMemory
    BY DEF SoleWriter, Alone, FileIsMemory
  <1>3. TypeOK /\ SoleWriter /\ [Next]_vars => SoleWriter'
    BY SoleWriterStep
  <1> QED BY <1>1, <1>2, <1>3, TypeCorrect, PTL DEF Spec

-----------------------------------------------------------------------------
(* Without a trainer, a correction is taught to a copy of what the file    *)
(* holds.                                                                  *)
LEMMA NoTrainerType == TypeOK /\ NoTrainer => TypeOK'
PROOF
  <1> SUFFICES ASSUME TypeOK, NoTrainer PROVE TypeOK'
    OBVIOUS
  <1> USE DEF memory, counters, up
  <1>1. CASE RestartAlone
    BY <1>1 DEF TypeOK, RefreshType, TeachType, RestartAlone
  <1>2. ASSUME NEW question \in Questions, NEW answer \in Answers, TeachAlone(question, answer)
         PROVE  TypeOK'
    <2>1. file \in Models /\ file.facts \in Facts
      BY <1>2 DEF TypeOK, TeachAlone, Readable, Models
    <2> DEFINE data == [file EXCEPT !.facts = Learn(@, question, answer)]
    <2>2. /\ Learn(file.facts, question, answer) \in Facts
          /\ question \in DOMAIN Learn(file.facts, question, answer)
      <3>1. /\ Learn(file.facts, question, answer) \in Facts
            /\ DOMAIN Learn(file.facts, question, answer) = DOMAIN file.facts \cup {question}
        BY <2>1, LearnType, Zenon
      <3> QED BY <3>1
    <2>3. data \in Models /\ question \in DOMAIN data.facts
      BY <2>1, <2>2 DEF Models
    <2>4. teach' = [pc |-> "open", question |-> question, data |-> data]
      BY <1>2 DEF TeachAlone
    <2> HIDE DEF data
    <2>5. RefreshType' /\ TeachType'
      BY <1>2, <2>3, <2>4 DEF TypeOK, RefreshType, TeachType, TeachAlone
    <2> QED BY <1>2, <2>5 DEF TypeOK, TeachAlone
  <1> QED BY <1>1, <1>2 DEF NoTrainer

(* What the server does to its own variables is a step of Trainer, if it   *)
(* has one.                                                                *)
LEMMA ServerIsTrainer == Server => [Next]_vars \/ NoTrainer
PROOF
  <1>1. OpenCatalog => RefreshStep
    BY DEF OpenCatalog, RefreshStep
  <1>2. CloseCatalog => UNCHANGED vars
    BY DEF CloseCatalog
  <1>3. FailCatalog => FailRefresh
    BY DEF FailCatalog
  <1> QED BY <1>1, <1>2, <1>3 DEF Server, Next, RefreshStep

(* It leaves the watcher alone, or outdates its fingerprints. *)
LEMMA ServerAndWatch ==
    ASSUME Server
    PROVE  \/ UNCHANGED watch
           \/ watch' = [watch EXCEPT !.seen = Outdated(@), !.previous = Outdated(@)]
PROOF BY DEF Server, OpenCatalog, CloseCatalog, FailCatalog, Rewrite

Prints == [docs : Nat \cup {Unset}, current : BOOLEAN]
Watches == [pc : {"off", "asleep", "load", "open", "write"}, seen : Prints, previous : Prints,
            data : Models \cup {Empty}, trained : Nat \cup {Unset}, starts : Nat]

LEMMA OutdatedType ==
    ASSUME NEW w \in Watches, NEW v,
           v = [w EXCEPT !.seen = Outdated(@), !.previous = Outdated(@)]
    PROVE  /\ v \in Watches
           /\ v.pc = w.pc /\ v.data = w.data /\ v.trained = w.trained
           /\ v.seen.docs = w.seen.docs /\ v.previous.docs = w.previous.docs
PROOF
  <1> DEFINE u == [w EXCEPT !.seen = Outdated(w.seen)]
  <1>1. /\ w.seen \in Prints /\ w.previous \in Prints
    BY DEF Watches
  <1>2. \A p \in Prints : Outdated(p) \in Prints /\ Outdated(p).docs = p.docs
    BY DEF Outdated, Prints
  <1>3. v = [u EXCEPT !.previous = Outdated(w.previous)]
    OBVIOUS
  <1>4. /\ u \in Watches /\ u.seen = Outdated(w.seen) /\ u.previous = w.previous
        /\ u.pc = w.pc /\ u.data = w.data /\ u.trained = w.trained
    BY <1>1, <1>2 DEF Watches
  <1> HIDE DEF u
  <1> QED BY <1>1, <1>2, <1>3, <1>4 DEF Watches

LEMMA DocsGrow ==
    ASSUME TypeOK, [Next]_vars \/ NoTrainer
    PROVE  docs' \in Nat /\ docs' >= docs
PROOF
  <1>1. docs \in Nat
    BY DEF TypeOK
  <1>2. ChangeDocs \/ UNCHANGED docs
    BY DEF Next, World, Migrate, ChangeKeys, RefreshStep, Tick, ReadShape, ReadKeys, Compare, Load,
           ShareFacts, EncodeFresh, OpenFresh, WriteFresh, Swap, FailRefresh, Teach, NoTrainer,
           TeachAlone, RestartAlone, SaveStep, OpenTaught, WriteTaught, Stop, Startup, Start,
           Restart, vars
  <1> QED BY <1>1, <1>2 DEF ChangeDocs

-----------------------------------------------------------------------------
(* The invariant that makes a remembered fingerprint sound: the one that a *)
(* pass of the loop works with was taken before the documents were read,   *)
(* and documents only get newer.                                           *)
PrintInv ==
    /\ WatchTypeOK
    /\ PrintIsSound
    /\ (watch.pc \in {"load", "open", "write"} =>
            watch.seen.docs \in Nat /\ watch.seen.docs <= docs)
    /\ (watch.pc \in {"open", "write"} => watch.data.corpus.docs >= watch.seen.docs)

LEMMA InitPrintInv == WatchInit => PrintInv
PROOF
  <1> SUFFICES ASSUME WatchInit PROVE PrintInv
    OBVIOUS
  <1>1. TypeOK
    BY InitType DEF WatchInit
  <1> QED BY <1>1 DEF WatchInit, Off, NoPrint, PrintInv, WatchTypeOK, PrintIsSound

(* A step of the server. *)
LEMMA ServerPrintInv == PrintInv /\ Server => PrintInv'
PROOF
  <1> SUFFICES ASSUME PrintInv, Server PROVE PrintInv'
    OBVIOUS
  <1>1. TypeOK' /\ docs' \in Nat /\ docs' >= docs /\ docs \in Nat
    BY ServerIsTrainer, StepType, NoTrainerType, DocsGrow DEF PrintInv, WatchTypeOK, TypeOK
  <1>2. live' \in {"absent", "torn", "whole"}
    BY DEF Server, OpenCatalog, CloseCatalog, FailCatalog, Rewrite, PrintInv, WatchTypeOK
  <1>3. watch \in Watches
    BY DEF PrintInv, WatchTypeOK, Watches, Prints
  <1>4. /\ watch' \in Watches
        /\ watch'.pc = watch.pc /\ watch'.data = watch.data /\ watch'.trained = watch.trained
        /\ watch'.seen.docs = watch.seen.docs /\ watch'.previous.docs = watch.previous.docs
    BY <1>3, ServerAndWatch, OutdatedType
  <1>5. WatchTypeOK'
    BY <1>1, <1>2, <1>4 DEF PrintInv, WatchTypeOK, Watches, Prints
  <1>6. PrintIsSound'
    BY <1>4 DEF PrintInv, PrintIsSound
  <1>7. /\ (watch'.pc \in {"load", "open", "write"} =>
                watch'.seen.docs \in Nat /\ watch'.seen.docs <= docs')
        /\ (watch'.pc \in {"open", "write"} => watch'.data.corpus.docs >= watch'.seen.docs)
    BY <1>1, <1>4 DEF PrintInv
  <1> QED BY <1>5, <1>6, <1>7 DEF PrintInv

(* A step of the watcher. *)
LEMMA WatchPrintInv == PrintInv /\ (StartWatch \/ WatchStep \/ FailWatch) => PrintInv'
PROOF
  <1> SUFFICES ASSUME PrintInv, StartWatch \/ WatchStep \/ FailWatch PROVE PrintInv'
    OBVIOUS
  <1>1. TypeOK /\ live \in {"absent", "torn", "whole"} /\ watch \in Watches /\ docs \in Nat
    BY DEF PrintInv, WatchTypeOK, Watches, Prints, TypeOK
  <1> USE DEF Private, memory, counters, Watching
  <1>2. UNCHANGED <<docs, live>>
    BY DEF StartWatch, WatchStep, Wake, LoadWatched, LoadTorn, OpenWatched, WriteWatched,
           FailWatch, vars
  <1>3. TypeOK'
    <2>1. CASE UNCHANGED vars
      BY <1>1, <2>1 DEF vars, up, TypeOK, RefreshType, TeachType
    <2>2. CASE FailWatch
      <3>1. file' \in {file, Garbled}
        BY <2>2 DEF FailWatch, CutShort
      <3> QED BY <1>1, <2>2, <3>1 DEF FailWatch, up, TypeOK, RefreshType, TeachType
    <2>3. CASE OpenWatched
      BY <1>1, <2>3 DEF OpenWatched, Truncate, up, TypeOK, RefreshType, TeachType
    <2>4. CASE WriteWatched
      <3>1. watch.data \in Models
        BY <2>4 DEF WriteWatched, PrintInv, WatchTypeOK
      <3>2. file' \in {watch.data, Garbled}
        BY <1>1, <2>4, <3>1, WriteOverType DEF WriteWatched
      <3> QED BY <1>1, <2>4, <3>1, <3>2 DEF WriteWatched, up, TypeOK, RefreshType, TeachType
    <2> QED BY <2>1, <2>2, <2>3, <2>4 DEF StartWatch, WatchStep, Wake, LoadWatched, LoadTorn
  <1>4. CASE StartWatch
    <2>1. watch' = [Off EXCEPT !.pc = "asleep", !.starts = watch.starts + 1]
      BY <1>4 DEF StartWatch
    <2>2. watch'.pc = "asleep" /\ watch' \in Watches /\ watch'.previous.docs = Unset
      <3>1. watch.starts + 1 \in Nat
        BY <1>1 DEF Watches
      <3>2. Off \in Watches /\ Off.previous.docs = Unset
        BY DEF Off, NoPrint, Watches, Prints
      <3> DEFINE first == [Off EXCEPT !.pc = "asleep"]
      <3>3. first \in Watches /\ first.pc = "asleep" /\ first.previous.docs = Unset
        <4> HIDE DEF Off
        <4> QED BY <3>2 DEF Watches
      <3>4. watch' = [first EXCEPT !.starts = watch.starts + 1]
        BY <2>1
      <3> HIDE DEF first
      <3> QED BY <3>1, <3>3, <3>4 DEF Watches
    <2> QED BY <1>1, <1>2, <1>3, <2>2 DEF PrintInv, WatchTypeOK, PrintIsSound, Watches, Prints
  <1>5. CASE Wake
    <2>1. watch' = [watch EXCEPT !.pc = "load", !.seen = Fingerprint]
      BY <1>5 DEF Wake
    <2>2. /\ watch' \in Watches /\ watch'.pc = "load"
          /\ watch'.seen.docs = docs
          /\ watch'.previous = watch.previous /\ watch'.trained = watch.trained
      BY <1>1, <2>1 DEF Fingerprint, Watches, Prints
    <2> QED BY <1>1, <1>2, <1>3, <2>2 DEF PrintInv, WatchTypeOK, PrintIsSound, Watches, Prints
  <1>6. CASE LoadWatched
    <2> DEFINE data == [corpus |-> [catalog |-> NoCatalog, docs |-> docs], facts |-> NoFacts]
    <2>1. watch' = [watch EXCEPT !.pc = "open", !.data = data]
      BY <1>6 DEF LoadWatched
    <2>2. data \in Models /\ data.corpus.docs = docs
      BY <1>1, NoFactsType DEF Models, Corpora
    <2> HIDE DEF data
    <2>3. /\ watch' \in Watches /\ watch'.pc = "open" /\ watch'.data = data
          /\ watch'.seen = watch.seen
          /\ watch'.previous = watch.previous /\ watch'.trained = watch.trained
      BY <1>1, <2>1, <2>2 DEF Watches
    <2>4. watch.seen.docs \in Nat /\ watch.seen.docs <= docs
      BY <1>6 DEF LoadWatched, PrintInv
    <2> QED BY <1>1, <1>2, <1>3, <2>2, <2>3, <2>4
            DEF PrintInv, WatchTypeOK, PrintIsSound, Watches, Prints
  <1>7. CASE LoadTorn \/ FailWatch
    <2>1. watch' = [watch EXCEPT !.pc = "off"]
      BY <1>7 DEF LoadTorn, FailWatch
    <2>2. /\ watch' \in Watches /\ watch'.pc = "off"
          /\ watch'.previous = watch.previous /\ watch'.trained = watch.trained
      BY <1>1, <2>1 DEF Watches
    <2> QED BY <1>1, <1>2, <1>3, <2>2 DEF PrintInv, WatchTypeOK, PrintIsSound, Watches, Prints
  <1>8. CASE OpenWatched
    <2>1. watch.pc = "open" /\ watch' = [watch EXCEPT !.pc = "write"]
      BY <1>8 DEF OpenWatched
    <2>2. /\ watch' \in Watches /\ watch'.pc = "write"
          /\ watch'.data = watch.data /\ watch'.seen = watch.seen
          /\ watch'.previous = watch.previous /\ watch'.trained = watch.trained
      BY <1>1, <2>1 DEF Watches
    <2> QED BY <1>1, <1>2, <1>3, <2>1, <2>2
            DEF PrintInv, WatchTypeOK, PrintIsSound, Watches, Prints
  <1>9. CASE WriteWatched
    <2>1. /\ watch.pc = "write"
          /\ watch' = [watch EXCEPT !.pc = "asleep", !.previous = watch.seen,
                                    !.trained = watch.data.corpus.docs]
      BY <1>9 DEF WriteWatched
    <2>2. watch.data.corpus.docs \in Nat /\ watch.data.corpus.docs >= watch.seen.docs
      BY <2>1 DEF PrintInv, WatchTypeOK, Models, Corpora
    <2> DEFINE first == [watch EXCEPT !.pc = "asleep"]
               second == [first EXCEPT !.previous = watch.seen]
    <2>3. watch' = [second EXCEPT !.trained = watch.data.corpus.docs]
      BY <2>1
    <2>4. first \in Watches /\ first.pc = "asleep"
      BY <1>1 DEF Watches
    <2>5. second \in Watches /\ second.pc = "asleep" /\ second.previous = watch.seen
      <3> HIDE DEF first
      <3> QED BY <1>1, <2>4 DEF Watches
    <2>6. /\ watch' \in Watches /\ watch'.pc = "asleep" /\ watch'.previous = watch.seen
          /\ watch'.trained = watch.data.corpus.docs
      <3> HIDE DEF first, second
      <3> QED BY <2>2, <2>3, <2>5 DEF Watches
    <2> HIDE DEF first, second
    <2>7. WatchTypeOK'
      BY <1>1, <1>2, <1>3, <2>6 DEF WatchTypeOK, Watches, Prints
    <2>8. PrintIsSound'
      <3>1. Unset \notin Nat
        BY TrainerAssumption
      <3> QED BY <2>2, <2>6, <3>1 DEF PrintIsSound
    <2> QED BY <2>6, <2>7, <2>8 DEF PrintInv
  <1> QED BY <1>4, <1>5, <1>6, <1>7, <1>8, <1>9 DEF WatchStep

LEMMA StepPrintInv == PrintInv /\ [WatchNext]_allvars => PrintInv'
PROOF
  <1>1. PrintInv /\ UNCHANGED allvars => PrintInv'
    BY DEF allvars, vars, up, PrintInv, WatchTypeOK, PrintIsSound, TypeOK, RefreshType, TeachType
  <1> QED BY <1>1, ServerPrintInv, WatchPrintInv DEF WatchNext

(* Both processes keep their types, however they overlap: the trainer's    *)
(* invariant survives a second writer of its file.                         *)
THEOREM WatchTypeCorrect == WatchSpec => []WatchTypeOK
PROOF
  <1>1. PrintInv => WatchTypeOK
    BY DEF PrintInv
  <1> QED BY <1>1, InitPrintInv, StepPrintInv, PTL DEF WatchSpec

(* A remembered fingerprint stands for documents that were saved, whatever *)
(* the other process does and however often `watch` is started.            *)
THEOREM PrintIsSoundAlways == WatchSpec => []PrintIsSound
PROOF
  <1>1. PrintInv => PrintIsSound
    BY DEF PrintInv
  <1> QED BY <1>1, InitPrintInv, StepPrintInv, PTL DEF WatchSpec
=============================================================================
