------------------------------ MODULE Training ------------------------------
(***************************************************************************)
(* The commands `train`, `teach` and `ask` one after the other, over a     *)
(* folder of documents that changes and the model file they share.  Each   *)
(* command is a process of its own; those that answer load the file first. *)
(* What happens while others write the file is in Trainer.tla.             *)
(***************************************************************************)
EXTENDS Retrieval

CONSTANTS
    FirstFolder,            \* the files of the folder, by their places in the walk
    Files,                  \* what may be put at a place: a function to sets of files
    FirstModel,             \* the model file there is at the beginning
    Questions, Answers,     \* what is asked and what is taught
    MaxChanges, MaxTaught   \* bounds on changes of the folder and on corrections

VARIABLES
    folder,
    file,       \* data/model.json: the candidates and the facts
    source,     \* history: the folder of the last training, the empty one before it
    said,       \* history: the facts taught so far
    spoiled,    \* history: whether a training has saved a file that does not load
    asked,      \* the last question and its result
    changes, taught

vars == <<folder, file, source, said, spoiled, asked, changes, taught>>

(* A candidate is its text; its vector is computed when it is trained and  *)
(* saved with it.  LoadTrained refuses a file without candidates, or with  *)
(* one that has an empty vector.                                           *)
TrainTexts(texts) == Nonblank(texts)
Validate(model) ==
    /\ model.candidates # << >>
    /\ \A k \in DOMAIN model.candidates : Embed(FlattenSeq(model.candidates[k])) # {}

ASSUME TrainingAssumption ==
    /\ MaxChanges \in Nat /\ MaxTaught \in Nat
    /\ DOMAIN FirstModel = {"candidates", "facts"} /\ FirstModel.facts = NoFacts
    /\ FirstModel.candidates \in Seq(Texts) /\ Validate(FirstModel)
    /\ Questions \subseteq Seq(STRING)
    /\ DOMAIN FirstFolder \subseteq 1..Places /\ \A place \in DOMAIN FirstFolder : IsFile(FirstFolder[place])
    /\ DOMAIN Files \subseteq 1..Places
    /\ \A place \in DOMAIN Files : \A f \in Files[place] : IsFile(f)

NoQuestion == [question |-> << >>, result |-> Refusal(0)]

Init ==
    /\ folder = FirstFolder
    /\ file = FirstModel
    /\ source = << >>
    /\ said = NoFacts /\ spoiled = FALSE
    /\ asked = NoQuestion
    /\ changes = 0 /\ taught = 0

-----------------------------------------------------------------------------
(* Somebody adds, replaces or removes a file. *)
ChangeFolder ==
    /\ changes < MaxChanges /\ changes' = changes + 1
    /\ folder' \in
            {[place \in DOMAIN folder \cup {p[1]} |-> IF place = p[1] THEN p[2] ELSE folder[place]] :
                p \in UNION {{place} \X Files[place] : place \in DOMAIN Files}}
            \cup {[place \in DOMAIN folder \ {p} |-> folder[place]] : p \in DOMAIN folder}
    /\ UNCHANGED <<file, source, said, spoiled, asked, taught>>

(* train: a failing reader, or nothing to train from, ends it before the   *)
(* file is touched.  The facts of the old file are kept if it loads; an    *)
(* error of that is dropped.  What is saved is not validated.              *)
TrainForgetting ==
    /\ \E texts \in trainFrom(folder) :
           file' = [candidates |-> TrainTexts(texts), facts |-> NoFacts]
    /\ source' = folder
    /\ spoiled' = (spoiled \/ ~Validate(file'))
    /\ UNCHANGED <<folder, said, asked, changes, taught>>
Train ==
    /\ \E texts \in trainFrom(folder) :
           file' = [candidates |-> TrainTexts(texts),
                    facts |-> IF Validate(file) THEN file.facts ELSE NoFacts]
    /\ source' = folder
    /\ spoiled' = (spoiled \/ ~Validate(file'))
    /\ UNCHANGED <<folder, said, asked, changes, taught>>

(* teach: the trainer of that process has loaded the file, and saves it    *)
(* with the correction.                                                    *)
Teach(question, answer) ==
    /\ Validate(file)
    /\ taught < MaxTaught /\ taught' = taught + 1
    /\ file' = [candidates |-> file.candidates, facts |-> TeachFact(file.facts, question, answer)]
    /\ said' = TeachFact(said, question, answer)
    /\ UNCHANGED <<folder, source, spoiled, asked, changes>>

(* ask, without a database; a schema question is answered otherwise. *)
Ask(question) ==
    /\ Validate(file)
    /\ asked' \in {[question |-> question, result |-> result] :
                      result \in AnswerResult(file, question)}
    /\ UNCHANGED <<folder, file, source, said, spoiled, changes, taught>>

Next ==
    \/ ChangeFolder
    \/ Train
    \/ \E question \in Questions, answer \in Answers : Teach(question, answer)
    \/ \E question \in Questions : Ask(question)

Spec == Init /\ [][Next]_vars

-----------------------------------------------------------------------------
TypeOK ==
    /\ DOMAIN file = {"candidates", "facts"}
    /\ \A key \in DOMAIN file.facts : file.facts[key] \in Answers
    /\ \A k \in DOMAIN file.candidates : file.candidates[k] # << >>
    /\ spoiled \in BOOLEAN
    /\ asked.question \in Questions \cup {<< >>}
    /\ asked.result.confidence \in Nat /\ asked.result.grounded \in BOOLEAN
    /\ changes \in 0..MaxChanges /\ taught \in 0..MaxTaught

(* `train` keeps what was taught (main.go:53) through any number of        *)
(* trainings, unless one of them has saved a file that does not load: the  *)
(* next one then drops all facts without a word.                           *)
FactsKept == ~spoiled => Validate(file) /\ file.facts = said

(* Go iterates over the members of an object in another order each time    *)
(* (pipeline.go:221).  The texts differ, what is searched does not: two    *)
(* trainings from one folder give the same vectors in the same places.     *)
Vectors(texts) ==
    LET kept == TrainTexts(texts) IN [k \in DOMAIN kept |-> Embed(FlattenSeq(kept[k]))]
TrainingIsStable ==
    \A texts, again \in trainFrom(folder) : Vectors(texts) = Vectors(again)

(* Nothing of a live catalog is in the trained file (main.go:273), and the *)
(* documents that are not live are all in it: every candidate is one that  *)
(* a reader made of the files, in their order.                             *)
DocumentsOnly ==
    source # << >> =>
        file.candidates \in trainFrom([p \in {q \in DOMAIN source : ~source[q].live} |-> source[p]])

(* "When the question has no sufficiently related evidence" (README.md:50) *)
(* it is refused: what is answered from the documents shares two tokens    *)
(* with the question, or one and has a score of 0.3.  The score that is    *)
(* reported, the text that is shown and the vector that is looked at       *)
(* belong to one candidate, although boosts decide between candidates.     *)
Answered == asked.result.reply.body # << >>
EvidenceIsRelated ==
    Answered =>
        LET shared == Shared(asked.question, asked.result.evidence) IN
        /\ shared >= 2 \/ (shared = 1 /\ asked.result.confidence >= 300)
        /\ asked.result.confidence = candidateScore(asked.question, asked.result.evidence)

(* The answer opens with the sentence that shares most with the question:  *)
(* of the long ones, if there are any, the first of the best               *)
(* (response_test.go:18, "returned unrelated sentence").                   *)
OpensWithTheBest ==
    Answered =>
        LET sentences == Nonblank(asked.result.evidence)
            overlap(k) == Overlap(asked.question, sentences[k])
            long == {k \in DOMAIN sentences : ~Brief(sentences[k])}
            eligible == IF long = {} THEN DOMAIN sentences ELSE long
            best == {k \in eligible : \A j \in eligible : overlap(j) <= overlap(k)}
            first == CHOOSE k \in best : \A j \in best : k <= j
        IN  \E style \in 1..3 : Head(asked.result.reply.body) = paraphrase(sentences[first], style)

(* "The API loads data/model.json, so run `go run . train` once before     *)
(* starting the server" (README.md:34): what `train` saved can be loaded.  *)
TrainedLoads == Validate(file)
=============================================================================
