----------------------------- MODULE ApiServer -----------------------------
(***************************************************************************)
(* The HTTP server of api/api.go as runServer builds it: concurrent calls  *)
(* of ServeHTTP that share the answer cache, the one conversation memory   *)
(* of all clients (conversation/memory.go, no lock), and the model file,   *)
(* which other goroutines and processes retrain at any time.               *)
(*                                                                         *)
(* A question is known by the sets it belongs to, an answer by where its   *)
(* words come from: <<"model", question, context, version>>, the refusal,  *)
(* the redirect of schema questions, live data, or small talk.             *)
(***************************************************************************)
EXTENDS Integers, SequencesExt

CONSTANTS
    Requests,       \* the calls of ServeHTTP
    Questions,
    Repeats,        \* questions with a phrase of Memory.Repeat in them
    Chats,          \* greetings, identity, small talk: a fixed kind of reply
    Tells,          \* questions that tell a name (which stands for itself)
    Recalls,        \* questions that ask for the name
    FollowUps,      \* short questions, or with a reference word
    SchemaQuestions, DataQuestions,
    Known,          \* questions the trained documents answer
    None,           \* no context, no name, no answer
    Connected,      \* whether s.data is there
    Limit,          \* Memory.limit
    Capacity,       \* of the answer cache
    CoarseClock,    \* whether two writes may get the same modification time
    MaxRetrains,    \* bound on truncations and removals of the model file
    MaxBusy         \* bound on requests in progress at a time

ASSUME ServerAssumption ==
    /\ {Repeats, Chats, Tells, Recalls, FollowUps, SchemaQuestions, DataQuestions, Known}
            \subseteq SUBSET Questions
    /\ None \notin Questions
    /\ Connected \in BOOLEAN /\ CoarseClock \in BOOLEAN
    /\ {Limit, Capacity, MaxBusy} \subseteq Nat \ {0} /\ MaxRetrains \in Nat

VARIABLES
    file,           \* data/model.json: state, version of the content, time
    retrains,       \* the bounded counter of its changes
    values, order,  \* the answer cache
    turns, name,    \* the conversation memory
    req,            \* the local state of every request
    log             \* history: the turns in the order they were remembered

vars == <<file, retrains, values, order, turns, name, req, log>>
world == <<file, retrains>>
cache == <<values, order>>
memory == <<turns, name, log>>

Refusal == <<"I do not know that yet.">>
Redirect == <<"Connect a read-only business database">>

(* A response: its words, its flag, and the version of the model used. *)
Response(text, grounded, model) == [text |-> text, grounded |-> grounded, model |-> model]
NoResponse == Response(None, FALSE, 0)
Versions == 0..MaxRetrains
Times == 0..2 * MaxRetrains
Texts ==
    {Refusal, Redirect, None}
        \cup ({"chat", "name"} \X (Questions \cup {None}))
        \cup ({"model", "data"} \X Questions \X (Questions \cup {None}) \X Versions)
Responses == [text : Texts, grounded : BOOLEAN, model : Versions]
Turns == [question : Questions \cup {None}, answer : Texts]
(* A turn whose content is anybody's guess, after a data race. *)
Torn == [question |-> None, answer |-> None]

ASSUME NoneAssumption == None \notin Responses

Idle == [pc |-> "idle", question |-> None, context |-> None, time |-> 0, asked |-> 0,
         model |-> 0, result |-> NoResponse, source |-> "none", seen |-> << >>,
         racing |-> FALSE]

Steps == {"idle", "repeat", "respond", "enrich", "stat", "lookup", "load", "answer", "store",
          "remember", "append", "trim", "cut", "done"}
Sources == {"none", "memory", "hit", "miss", "bypass", "error"}
Locals == [pc : Steps, question : Questions \cup {None}, context : Questions \cup {None},
           time : Times, asked : Versions, model : Versions, result : Responses,
           source : Sources, seen : Seq(Turns), racing : BOOLEAN]

(* cacheKey: the question as it was asked and the time of the file. *)
KeyWithoutTime(question, time) == <<question, 0>>
CacheKey(question, time) == <<question, time>>

Cache == INSTANCE AnswerCache
           WITH Keys <- Questions \X Times, Answers <- Responses, NoAnswer <- None

Init ==
    /\ file = [state |-> "whole", version |-> 0, time |-> 0] /\ retrains = 0
    /\ Cache!Init
    /\ turns = << >> /\ name = None
    /\ req = [r \in Requests |-> Idle]
    /\ log = << >>

-----------------------------------------------------------------------------
(* The model file.  A Save truncates it and writes it in a second step;    *)
(* each sets the modification time.                                        *)
Stamp(new) ==
    \E time \in IF CoarseClock THEN {file.time, file.time + 1} ELSE {file.time + 1} :
        file' = [new EXCEPT !.time = time]

Truncate ==
    /\ retrains < MaxRetrains /\ retrains' = retrains + 1
    /\ file.state # "torn"
    /\ Stamp([file EXCEPT !.state = "torn"])
    /\ UNCHANGED <<cache, memory, req>>

Write ==
    /\ file.state = "torn"
    /\ Stamp([file EXCEPT !.state = "whole", !.version = @ + 1])
    /\ UNCHANGED <<retrains, cache, memory, req>>

RemoveFile ==
    /\ retrains < MaxRetrains /\ retrains' = retrains + 1
    /\ file.state = "whole"
    /\ file' = [file EXCEPT !.state = "missing"]
    /\ UNCHANGED <<cache, memory, req>>

-----------------------------------------------------------------------------
(* The steps of one request.  At(r, step) and a change of its local state. *)
At(r, step) == req[r].pc = step
Move(r, new) == req' = [req EXCEPT ![r] = new]
FailAndGoOn(r) == Move(r, [req[r] EXCEPT !.source = "error"])
Fail(r) == Move(r, [req[r] EXCEPT !.pc = "done", !.source = "error"])

Busy == {r \in Requests : req[r].pc \notin {"idle", "done"}}

(* A well-formed POST /ask comes in. *)
Arrive(r, question) ==
    /\ At(r, "idle") /\ Cardinality(Busy) < MaxBusy
    /\ Move(r, [Idle EXCEPT !.pc = "repeat", !.question = question])
    /\ UNCHANGED <<world, cache, memory>>

(* Another path, method or body: 404, 405 or 400, before any state is read. *)
Reject(r) ==
    /\ At(r, "idle")
    /\ Fail(r)
    /\ UNCHANGED <<world, cache, memory>>

(* What is read as the last turn.  While a request is in Remember, and of  *)
(* what a race left behind, it may be any turn, or blank: the length is    *)
(* stored before the turn is.                                              *)
Remembering == {r \in Requests : req[r].pc \in {"append", "trim", "cut"}}
LastTurns ==
    IF Remembering = {} /\ Last(turns) # Torn THEN {Last(turns)} ELSE Range(log) \cup {Torn}

(* Memory.Repeat: the answer of the last turn, said to be grounded. *)
Repeat(r) ==
    /\ At(r, "repeat")
    /\ IF req[r].question \in Repeats /\ turns # << >>
       THEN \E last \in LastTurns :
                Move(r, [req[r] EXCEPT !.pc = "remember", !.source = "memory",
                                       !.result = Response(last.answer, TRUE, 0)])
       ELSE Move(r, [req[r] EXCEPT !.pc = "respond"])
    /\ UNCHANGED <<world, cache, memory>>

(* Memory.Respond: small talk, a name that is told or asked for. *)
Reply(question) ==
    IF question \in Chats THEN <<"chat", question>>
    ELSE <<"name", IF question \in Tells THEN question ELSE name>>
Respond(r) ==
    /\ At(r, "respond")
    /\ LET question == req[r].question IN
       IF question \in Chats \cup Tells \cup Recalls
       THEN /\ name' = IF question \in Tells \ Chats THEN question ELSE name
            /\ Move(r, [req[r] EXCEPT !.pc = "remember", !.source = "memory",
                                      !.result = Response(Reply(question), TRUE, 0)])
       ELSE Move(r, [req[r] EXCEPT !.pc = "enrich"]) /\ UNCHANGED name
    /\ UNCHANGED <<world, cache, turns, log>>

(* Memory.Enrich: a follow-up question carries the last one as context. *)
EnrichWithAnswer(r) ==
    /\ At(r, "enrich")
    /\ \E context \in IF req[r].question \in FollowUps /\ turns # << >>
                      THEN {last.answer : last \in LastTurns} ELSE {None} :
           Move(r, [req[r] EXCEPT !.pc = "stat", !.context = context])
    /\ UNCHANGED <<world, cache, memory>>
Enrich(r) ==
    /\ At(r, "enrich")
    /\ \E context \in IF req[r].question \in FollowUps /\ turns # << >>
                      THEN {last.question : last \in LastTurns} ELSE {None} :
           Move(r, [req[r] EXCEPT !.pc = "stat", !.context = context])
    /\ UNCHANGED <<world, cache, memory>>

(* os.Stat of the model file gives the second half of the cache key. *)
Stat(r) ==
    /\ At(r, "stat")
    /\ IF file.state = "missing"
       THEN Fail(r)
       ELSE Move(r, [req[r] EXCEPT !.pc = IF Connected THEN "load" ELSE "lookup",
                                   !.time = file.time, !.asked = file.version])
    /\ UNCHANGED <<world, cache, memory>>

(* cache.get: a hit is the result, a miss goes on to the model. *)
Key(r) == CacheKey(req[r].question, req[r].time)
Lookup(r) ==
    /\ At(r, "lookup")
    /\ Cache!Get(Key(r))
    /\ LET found == Cache!Lookup(Key(r)) IN
       Move(r, IF found # None
               THEN [req[r] EXCEPT !.pc = "remember", !.source = "hit", !.result = found]
               ELSE [req[r] EXCEPT !.pc = "load"])
    /\ UNCHANGED <<world, memory>>

(* model.LoadTrained for this request: whatever the file holds by now. *)
Load(r) ==
    /\ At(r, "load")
    /\ IF file.state = "whole"
       THEN Move(r, [req[r] EXCEPT !.pc = "answer", !.model = file.version])
       ELSE Fail(r)
    /\ UNCHANGED <<world, cache, memory>>

(* What the enriched question is about: the question and its context. *)
About(r) == {req[r].question, req[r].context}
Say(kind, r) == <<kind, req[r].question, req[r].context, req[r].model>>

(* The trained model, and the redirect in front of it. *)
FromModel(r) ==
    IF About(r) \cap SchemaQuestions # {} THEN Response(Redirect, FALSE, req[r].model)
    ELSE IF About(r) \cap Known # {} THEN Response(Say("model", r), TRUE, req[r].model)
    ELSE Response(Refusal, FALSE, req[r].model)

(* s.data first, when it is there: its answer, a question it does not      *)
(* support, or a query that fails.                                         *)
Answer(r) ==
    /\ At(r, "answer")
    /\ LET live == Connected /\ About(r) \cap DataQuestions # {} IN
       \/ /\ live
          /\ Fail(r)
       \/ LET response == IF live THEN Response(Say("data", r), TRUE, req[r].model)
                                  ELSE FromModel(r)
          IN  Move(r, [req[r] EXCEPT !.pc = IF Connected THEN "remember" ELSE "store",
                                     !.source = IF Connected THEN "bypass" ELSE "miss",
                                     !.result = response])
    /\ UNCHANGED <<world, cache, memory>>

(* cache.set under the key of the lookup. *)
Store(r) ==
    /\ At(r, "store")
    /\ Cache!Set(Key(r), req[r].result)
    /\ Move(r, [req[r] EXCEPT !.pc = "remember"])
    /\ UNCHANGED <<world, memory>>

(* Memory.Remember has no lock.  The turns are read and written with one   *)
(* more, read again and, if they are too many, written without the oldest; *)
(* then the response goes out.  Requests that are in it together write the *)
(* same slots of one array: the length they leave is that of the last      *)
(* write, the turns are torn.                                              *)
RememberRead(r) ==
    /\ At(r, "remember")
    /\ req' = [q \in Requests |->
                  IF q = r THEN [req[r] EXCEPT !.pc = "append", !.seen = turns,
                                               !.racing = Remembering # {}]
                  ELSE IF q \in Remembering THEN [req[q] EXCEPT !.racing = TRUE]
                  ELSE req[q]]
    /\ UNCHANGED <<world, cache, memory>>

Turn(r) == [question |-> req[r].question, answer |-> req[r].result.text]
Written(r, new) == IF req[r].racing THEN [i \in 1..Len(new) |-> Torn] ELSE new
RememberAppend(r) ==
    /\ At(r, "append")
    /\ turns' = Written(r, Append(req[r].seen, Turn(r)))
    /\ log' = Append(log, Turn(r))
    /\ Move(r, [req[r] EXCEPT !.pc = "trim", !.seen = << >>])
    /\ UNCHANGED <<world, cache, name>>

RememberTrim(r) ==
    /\ At(r, "trim")
    /\ Move(r, IF Len(turns) > Limit
               THEN [req[r] EXCEPT !.pc = "cut", !.seen = turns]
               ELSE [req[r] EXCEPT !.pc = "done", !.racing = FALSE])
    /\ UNCHANGED <<world, cache, memory>>

TrimmedLate(all) == SubSeq(all, Len(all) - Limit, Len(all))
TrimmedKeepingOld(all) == SubSeq(all, 1, Limit)
Trimmed(all) == SubSeq(all, Len(all) - Limit + 1, Len(all))
RememberCut(r) ==
    /\ At(r, "cut")
    /\ turns' = Written(r, Trimmed(req[r].seen))
    /\ Move(r, [req[r] EXCEPT !.pc = "done", !.seen = << >>, !.racing = FALSE])
    /\ UNCHANGED <<world, cache, name, log>>

-----------------------------------------------------------------------------
Handle(r) ==
    \/ Repeat(r) \/ Respond(r) \/ Enrich(r) \/ Stat(r) \/ Lookup(r) \/ Load(r) \/ Answer(r)
    \/ Store(r) \/ RememberRead(r) \/ RememberAppend(r) \/ RememberTrim(r) \/ RememberCut(r)

Next ==
    \/ Truncate \/ Write \/ RemoveFile
    \/ \E r \in Requests :
        \/ \E question \in Questions : Arrive(r, question)
        \/ Reject(r)
        \/ Handle(r)

Spec == Init /\ [][Next]_vars

(* Every request has a goroutine of its own, which the runtime schedules. *)
FairSpec == Spec /\ \A r \in Requests : WF_vars(Handle(r))

-----------------------------------------------------------------------------
TypeOK ==
    /\ file \in [state : {"whole", "torn", "missing"}, version : Versions, time : Times]
    /\ retrains \in Nat
    /\ turns \in Seq(Turns) /\ log \in Seq(Turns)
    /\ name \in Questions \cup {None}
    /\ req \in [Requests -> Locals]

(* "Retraining changes the model file timestamp, automatically bypassing   *)
(* old cached answers" (README.md:152): no answer, cached or not, is       *)
(* computed from a model older than the one in the file when the request   *)
(* looked at it, however lookups, loads and stores interleave.             *)
NeverStale ==
    \A r \in Requests :
        req[r].pc = "done" /\ req[r].source \in {"hit", "miss", "bypass"}
            => req[r].result.model >= req[r].asked

(* The memory is the end of the history (memory_test.go:51, "latest turn   *)
(* missing"), counted from its end: a turn that was remembered while no    *)
(* other request was in Remember is at its place, also after others raced. *)
(* Once no torn turn is left, no turn of the last Limit is missing.        *)
MemoryIsHistory ==
    /\ Len(turns) <= Len(log)
    /\ \A i \in DOMAIN turns :
           turns[i] # Torn => turns[i] = log[Len(log) - Len(turns) + i]
    /\ Remembering = {} /\ Torn \notin Range(turns) =>
           Len(turns) = IF Len(log) < Limit THEN Len(log) ELSE Limit

(* Although append and trim are apart and nothing locks them, the memory   *)
(* does not grow beyond its limit (memory.go:179) for good: it does so     *)
(* only while some request is still about to trim it, however requests     *)
(* overlap and overwrite each other's lengths.                             *)
MemoryIsBounded ==
    Len(turns) > Limit => \E r \in Requests : req[r].pc \in {"trim", "cut"}

(* A request that came in is answered, with an answer or an error. *)
EveryRequestEnds == \A r \in Requests : req[r].pc = "repeat" ~> req[r].pc = "done"

(* A follow-up is answered with the context Enrich gave it                 *)
(* (memory_test.go:21, "want last question appended"), also when the       *)
(* answer comes from the cache.                                            *)
AnswersTheContext ==
    \A r \in Requests :
        LET text == req[r].result.text IN
        req[r].source \in {"hit", "miss", "bypass"} /\ Len(text) = 4 => text[3] = req[r].context
=============================================================================
