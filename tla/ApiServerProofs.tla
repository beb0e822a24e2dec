-------------------------- MODULE ApiServerProofs --------------------------
(***************************************************************************)
(* Proofs about api/api.go for any number of concurrent requests, any      *)
(* questions and any number of retrainings of the model file.              *)
(***************************************************************************)
EXTENDS ApiServer, SequenceTheorems, FiniteSetTheorems, TLAPS

(* What is proved of the answer cache on its own.  The history variables   *)
(* that its refinement adds are of no use here: none of the facts that are *)
(* cited below names them.                                                 *)
Theory == INSTANCE AnswerCacheProofs
            WITH Keys <- Questions \X Times, Answers <- Responses, NoAnswer <- None,
                 reply <- None, evicted <- << >>

-----------------------------------------------------------------------------
(* The cache of the server and the cache of the theory are the same one.   *)
LEMMA TheoryApplies == Theory!CacheAssumption
PROOF BY ServerAssumption, NoneAssumption DEF Theory!CacheAssumption

LEMMA SameTouch ==
    ASSUME NEW key
    PROVE  Theory!Touch(key) = Cache!Touch(key)
PROOF
  <1>1. Theory!RemoveFirst(order, key) = Cache!RemoveFirst(order, key)
    BY DEF Theory!RemoveFirst, Cache!RemoveFirst, Theory!RemoveAt, Cache!RemoveAt,
           Theory!SelectInSeq, Cache!SelectInSeq, Theory!Min, Cache!Min
  <1> QED BY <1>1 DEF Theory!Touch, Cache!Touch

LEMMA SameCardinality == Theory!Cardinality(DOMAIN values) = Cache!Cardinality(DOMAIN values)
PROOF BY DEF Theory!Cardinality, Cache!Cardinality

LEMMA SameCache ==
    /\ Cache!Init => Theory!Init
    /\ [Cache!Next]_<<values, order>> => [Theory!Next]_<<values, order>>
    /\ Theory!Bounded => Cache!Bounded
    /\ Theory!OrderTracksValues => Cache!OrderTracksValues
PROOF
  <1>1. ASSUME NEW key PROVE Cache!Get(key) => Theory!Get(key)
    BY SameTouch DEF Cache!Get, Theory!Get
  <1>2. ASSUME NEW key, NEW value PROVE Cache!Set(key, value) => Theory!Set(key, value)
    <2>1. Cache!Overwrite(key, value) => Theory!Overwrite(key, value)
      BY SameTouch DEF Cache!Overwrite, Theory!Overwrite
    <2>2. Cache!Insert(key, value) => Theory!Insert(key, value)
      BY SameCardinality DEF Cache!Insert, Theory!Insert, Cache!Store, Theory!Store
    <2> QED BY <2>1, <2>2 DEF Cache!Set, Theory!Set
  <1>3. Cache!Next => Theory!Next
    BY <1>1, <1>2 DEF Cache!Next, Theory!Next
  <1>4. Theory!OrderTracksValues => Cache!OrderTracksValues
    BY DEF Theory!OrderTracksValues, Cache!OrderTracksValues, Theory!ToSet, Cache!ToSet,
           Theory!IsInjective, Cache!IsInjective
  <1>5. Theory!Bounded => Cache!Bounded
    BY SameCardinality DEF Theory!Bounded, Cache!Bounded
  <1>6. Cache!Init => Theory!Init
    BY DEF Cache!Init, Theory!Init
  <1> QED BY <1>3, <1>4, <1>5, <1>6

-----------------------------------------------------------------------------
(* The inductive invariant behind the types.  The file gets two times for  *)
(* every retraining, a request in progress has a question, and what the    *)
(* cache holds are responses.                                              *)
Half == IF file.state = "torn" THEN 1 ELSE 0
FileInv ==
    /\ file.version + Half <= retrains /\ retrains <= MaxRetrains
    /\ file.time <= 2 * file.version + Half
    /\ (~CoarseClock => file.time = 2 * file.version + Half)
Asking == \A r \in Requests : req[r].pc \notin {"idle", "done"} => req[r].question \in Questions
Cutting == \A r \in Requests : req[r].pc = "cut" => Len(req[r].seen) > Limit
ServerInv == TypeOK /\ FileInv /\ Asking /\ Cutting /\ Theory!CacheInv

LEMMA Ranges == Versions \subseteq Nat /\ Times \subseteq Nat
PROOF BY ServerAssumption DEF Versions, Times

(* A change of one request by a well-formed new local state. *)
LEMMA MoveType ==
    ASSUME ServerInv, NEW r \in Requests, NEW new \in Locals, Move(r, new),
           new.pc \notin {"idle", "done"} => new.question \in Questions
    PROVE  req' \in [Requests -> Locals] /\ Asking'
PROOF
  <1>1. req \in [Requests -> Locals]
    BY DEF ServerInv, TypeOK
  <1>2. /\ req' \in [Requests -> Locals]
        /\ \A x \in Requests : req'[x] = IF x = r THEN new ELSE req[x]
    BY <1>1 DEF Move
  <1> QED BY <1>2 DEF ServerInv, Asking

(* The cache is left alone, or used by one of its methods. *)
LEMMA CacheStep ==
    ASSUME ServerInv, [Cache!Next]_<<values, order>>
    PROVE  Theory!CacheInv'
PROOF
  <1>1. [Theory!Next]_<<values, order>>
    BY SameCache
  <1> QED BY <1>1, TheoryApplies, Theory!StepInv DEF Theory!vars, ServerInv

(* What a change of the model file does to its version and its time.       *)
LEMMA FileStep ==
    ASSUME ServerInv, Truncate \/ Write \/ RemoveFile
    PROVE  /\ FileInv'
           /\ file' \in [state : {"whole", "torn", "missing"}, version : Versions, time : Times]
           /\ retrains' \in Nat
           /\ file'.time >= file.time
PROOF
  <1> DEFINE Files == [state : {"whole", "torn", "missing"}, version : Nat, time : Nat]
  <1>1. /\ file \in Files /\ retrains \in Nat /\ MaxRetrains \in Nat
        /\ FileInv
    BY Ranges, ServerAssumption DEF ServerInv, TypeOK
  <1>2. ASSUME file' \in Files, FileInv', retrains' \in Nat
        PROVE  file' \in [state : {"whole", "torn", "missing"}, version : Versions, time : Times]
    <2>1. /\ file'.version \in Nat /\ file'.time \in Nat
          /\ file'.state \in {"whole", "torn", "missing"}
      BY <1>2
    <2>2. file'.version <= MaxRetrains /\ file'.time <= 2 * MaxRetrains
      BY <1>1, <1>2, <2>1 DEF FileInv, Half
    <2>3. file'.version \in Versions /\ file'.time \in Times
      BY <1>1, <2>1, <2>2 DEF Versions, Times
    <2> QED BY <1>2, <2>3
  <1>3. CASE Truncate
    <2> DEFINE mid == [file EXCEPT !.state = "torn"]
    <2>1. PICK time \in {file.time, file.time + 1} :
            /\ file' = [mid EXCEPT !.time = time]
            /\ ~CoarseClock => time = file.time + 1
      BY <1>3 DEF Truncate, Stamp
    <2>2. time \in Nat /\ time >= file.time /\ time <= file.time + 1
      BY <1>1, <2>1
    <2>3. mid \in Files /\ mid.state = "torn" /\ mid.version = file.version
      BY <1>1
    <2> HIDE DEF mid
    <2>4. file' \in Files /\ file'.state = mid.state /\ file'.version = mid.version /\ file'.time = time
      BY <2>1, <2>2, <2>3
    <2>5. file.state # "torn" /\ retrains < MaxRetrains /\ retrains' = retrains + 1
      BY <1>3 DEF Truncate
    <2>6. FileInv' /\ retrains' \in Nat /\ file'.time >= file.time
      BY <1>1, <2>1, <2>2, <2>3, <2>4, <2>5 DEF FileInv, Half
    <2> QED BY <2>4, <2>6, <1>2
  <1>4. CASE Write
    <2> DEFINE mid == [file EXCEPT !.state = "whole", !.version = @ + 1]
    <2>1. PICK time \in {file.time, file.time + 1} :
            /\ file' = [mid EXCEPT !.time = time]
            /\ ~CoarseClock => time = file.time + 1
      BY <1>4 DEF Write, Stamp
    <2>2. time \in Nat /\ time >= file.time /\ time <= file.time + 1
      BY <1>1, <2>1
    <2>3. mid \in Files /\ mid.state = "whole" /\ mid.version = file.version + 1
      <3> DEFINE whole == [file EXCEPT !.state = "whole"]
      <3>1. mid = [whole EXCEPT !.version = file.version + 1]
        OBVIOUS
      <3>2. whole \in Files /\ whole.state = "whole" /\ whole.version = file.version
        BY <1>1
      <3>3. file.version + 1 \in Nat
        BY <1>1
      <3> HIDE DEF whole, mid
      <3> QED BY <3>1, <3>2, <3>3
    <2> HIDE DEF mid
    <2>4. file' \in Files /\ file'.state = mid.state /\ file'.version = mid.version /\ file'.time = time
      BY <2>1, <2>2, <2>3
    <2>5. file.state = "torn" /\ retrains' = retrains
      BY <1>4 DEF Write
    <2>6. FileInv' /\ retrains' \in Nat /\ file'.time >= file.time
      BY <1>1, <2>1, <2>2, <2>3, <2>4, <2>5 DEF FileInv, Half
    <2> QED BY <2>4, <2>6, <1>2
  <1>5. CASE RemoveFile
    <2>1. /\ file' \in Files
          /\ file'.state = "missing" /\ file'.version = file.version /\ file'.time = file.time
      BY <1>1, <1>5 DEF RemoveFile
    <2>2. file.state = "whole" /\ retrains < MaxRetrains /\ retrains' = retrains + 1
      BY <1>5 DEF RemoveFile
    <2>3. FileInv' /\ retrains' \in Nat /\ file'.time >= file.time
      BY <1>1, <2>1, <2>2 DEF FileInv, Half
    <2> QED BY <2>1, <2>3, <1>2
  <1> QED BY <1>3, <1>4, <1>5

(* Fields of a local state change one after the other. *)
LEMMA SetField ==
    ASSUME NEW l \in Locals
    PROVE  /\ \A x \in Steps : [l EXCEPT !.pc = x] \in Locals
           /\ \A x \in Questions \cup {None} : [l EXCEPT !.question = x] \in Locals
           /\ \A x \in Questions \cup {None} : [l EXCEPT !.context = x] \in Locals
           /\ \A x \in Times : [l EXCEPT !.time = x] \in Locals
           /\ \A x \in Versions : [l EXCEPT !.asked = x] \in Locals
           /\ \A x \in Versions : [l EXCEPT !.model = x] \in Locals
           /\ \A x \in Responses : [l EXCEPT !.result = x] \in Locals
           /\ \A x \in Sources : [l EXCEPT !.source = x] \in Locals
           /\ \A x \in Seq(Turns) : [l EXCEPT !.seen = x] \in Locals
           /\ \A x \in BOOLEAN : [l EXCEPT !.racing = x] \in Locals
PROOF BY DEF Locals

(* The changes that the steps of a request make are well-formed, and leave *)
(* the question alone.                                                     *)
Keeps(l, new) == new \in Locals /\ new.question = l.question
LEMMA Changes ==
    ASSUME NEW l \in Locals, NEW s \in Steps
    PROVE  /\ Keeps(l, [l EXCEPT !.pc = s])
           /\ \A x \in Sources : Keeps(l, [l EXCEPT !.pc = s, !.source = x])
           /\ \A x \in Sources, y \in Responses :
                 Keeps(l, [l EXCEPT !.pc = s, !.source = x, !.result = y])
           /\ \A x \in Questions \cup {None} : Keeps(l, [l EXCEPT !.pc = s, !.context = x])
           /\ \A x \in Times, y \in Versions :
                 Keeps(l, [l EXCEPT !.pc = s, !.time = x, !.asked = y])
           /\ \A x \in Versions : Keeps(l, [l EXCEPT !.pc = s, !.model = x])
           /\ \A x \in Seq(Turns) : Keeps(l, [l EXCEPT !.pc = s, !.seen = x])
           /\ \A x \in BOOLEAN : Keeps(l, [l EXCEPT !.pc = s, !.racing = x])
           /\ \A x \in Seq(Turns), y \in BOOLEAN :
                 Keeps(l, [l EXCEPT !.pc = s, !.seen = x, !.racing = y])
PROOF
  <1> DEFINE m == [l EXCEPT !.pc = s]
  <1>1. m \in Locals /\ m.question = l.question
    BY SetField DEF Locals
  <1>2. /\ \A x : [l EXCEPT !.pc = s, !.source = x] = [m EXCEPT !.source = x]
        /\ \A x, y : [l EXCEPT !.pc = s, !.source = x, !.result = y]
                        = [[m EXCEPT !.source = x] EXCEPT !.result = y]
        /\ \A x : [l EXCEPT !.pc = s, !.context = x] = [m EXCEPT !.context = x]
        /\ \A x, y : [l EXCEPT !.pc = s, !.time = x, !.asked = y]
                        = [[m EXCEPT !.time = x] EXCEPT !.asked = y]
        /\ \A x : [l EXCEPT !.pc = s, !.model = x] = [m EXCEPT !.model = x]
        /\ \A x : [l EXCEPT !.pc = s, !.seen = x] = [m EXCEPT !.seen = x]
        /\ \A x : [l EXCEPT !.pc = s, !.racing = x] = [m EXCEPT !.racing = x]
        /\ \A x, y : [l EXCEPT !.pc = s, !.seen = x, !.racing = y]
                        = [[m EXCEPT !.seen = x] EXCEPT !.racing = y]
    OBVIOUS
  <1> HIDE DEF m
  <1>3. \A x \in Sources : Keeps(l, [m EXCEPT !.source = x])
    BY <1>1, SetField DEF Keeps, Locals
  <1>4. \A x \in Sources, y \in Responses :
            Keeps(l, [[m EXCEPT !.source = x] EXCEPT !.result = y])
    <2> TAKE x \in Sources, y \in Responses
    <2> DEFINE n == [m EXCEPT !.source = x]
    <2>1. n \in Locals /\ n.question = l.question
      BY <1>3 DEF Keeps
    <2> HIDE DEF n
    <2>2. Keeps(l, [n EXCEPT !.result = y])
      BY <2>1, SetField DEF Keeps, Locals
    <2> QED BY <2>2 DEF n
  <1>5. \A x \in Questions \cup {None} : Keeps(l, [m EXCEPT !.context = x])
    BY <1>1, SetField DEF Keeps, Locals
  <1>6. \A x \in Times, y \in Versions : Keeps(l, [[m EXCEPT !.time = x] EXCEPT !.asked = y])
    <2> TAKE x \in Times, y \in Versions
    <2> DEFINE n == [m EXCEPT !.time = x]
    <2>1. n \in Locals /\ n.question = l.question
      BY <1>1, SetField DEF Locals
    <2> HIDE DEF n
    <2>2. Keeps(l, [n EXCEPT !.asked = y])
      BY <2>1, SetField DEF Keeps, Locals
    <2> QED BY <2>2 DEF n
  <1>7. \A x \in Versions : Keeps(l, [m EXCEPT !.model = x])
    BY <1>1, SetField DEF Keeps, Locals
  <1>8. \A x \in Seq(Turns) : Keeps(l, [m EXCEPT !.seen = x])
    BY <1>1, SetField DEF Keeps, Locals
  <1>9. Keeps(l, [l EXCEPT !.pc = s])
    BY <1>1 DEF Keeps, m
  <1>10. /\ \A x \in Sources : Keeps(l, [l EXCEPT !.pc = s, !.source = x])
         /\ \A x \in Sources, y \in Responses :
               Keeps(l, [l EXCEPT !.pc = s, !.source = x, !.result = y])
    BY <1>2, <1>3, <1>4, Zenon
  <1>11. /\ \A x \in Questions \cup {None} : Keeps(l, [l EXCEPT !.pc = s, !.context = x])
         /\ \A x \in Times, y \in Versions :
               Keeps(l, [l EXCEPT !.pc = s, !.time = x, !.asked = y])
    <2>1. \A x \in Questions \cup {None} : Keeps(l, [l EXCEPT !.pc = s, !.context = x])
      <3> TAKE x \in Questions \cup {None}
      <3>1. Keeps(l, [m EXCEPT !.context = x])
        BY <1>5, Zenon
      <3>2. [l EXCEPT !.pc = s, !.context = x] = [m EXCEPT !.context = x]
        BY <1>2
      <3> QED BY <3>1, <3>2, Zenon
    <2>2. \A x \in Times, y \in Versions : Keeps(l, [l EXCEPT !.pc = s, !.time = x, !.asked = y])
      <3> TAKE x \in Times, y \in Versions
      <3>1. Keeps(l, [[m EXCEPT !.time = x] EXCEPT !.asked = y])
        BY <1>6, Zenon
      <3>2. [l EXCEPT !.pc = s, !.time = x, !.asked = y] = [[m EXCEPT !.time = x] EXCEPT !.asked = y]
        BY <1>2
      <3> QED BY <3>1, <3>2, Zenon
    <2> QED BY <2>1, <2>2, Zenon
  <1>12. /\ \A x \in Versions : Keeps(l, [l EXCEPT !.pc = s, !.model = x])
         /\ \A x \in Seq(Turns) : Keeps(l, [l EXCEPT !.pc = s, !.seen = x])
    BY <1>2, <1>7, <1>8, Zenon
  <1>13. \A x \in BOOLEAN : Keeps(l, [m EXCEPT !.racing = x])
    BY <1>1, SetField DEF Keeps, Locals
  <1>14. \A x \in Seq(Turns), y \in BOOLEAN :
            Keeps(l, [[m EXCEPT !.seen = x] EXCEPT !.racing = y])
    <2> TAKE x \in Seq(Turns), y \in BOOLEAN
    <2> DEFINE n == [m EXCEPT !.seen = x]
    <2>1. n \in Locals /\ n.question = l.question
      BY <1>8 DEF Keeps
    <2> HIDE DEF n
    <2>2. Keeps(l, [n EXCEPT !.racing = y])
      BY <2>1, SetField DEF Keeps, Locals
    <2> QED BY <2>2 DEF n
  <1>15. /\ \A x \in BOOLEAN : Keeps(l, [l EXCEPT !.pc = s, !.racing = x])
         /\ \A x \in Seq(Turns), y \in BOOLEAN :
               Keeps(l, [l EXCEPT !.pc = s, !.seen = x, !.racing = y])
    BY <1>2, <1>13, <1>14, Zenon
  <1> QED BY <1>9, <1>10, <1>11, <1>12, <1>15, Zenon

LEMMA ResponseType ==
    ASSUME NEW text \in Texts, NEW grounded \in BOOLEAN, NEW model \in Versions
    PROVE  Response(text, grounded, model) \in Responses
PROOF BY DEF Response, Responses

LEMMA ZeroVersion == 0 \in Versions /\ 0 \in Times
PROOF BY ServerAssumption DEF Versions, Times

(* What a request in progress says is a text. *)
LEMMA SayType ==
    ASSUME ServerInv, NEW r \in Requests, req[r].pc \notin {"idle", "done"}, NEW kind \in {"model", "data"}
    PROVE  Say(kind, r) \in Texts
PROOF
  <1>1. req[r] \in Locals /\ req[r].question \in Questions
    BY DEF ServerInv, TypeOK, Asking
  <1>2. /\ req[r].context \in Questions \cup {None}
        /\ req[r].model \in Versions
    BY <1>1 DEF Locals
  <1>3. Say(kind, r) \in {"model", "data"} \X Questions \X (Questions \cup {None}) \X Versions
    BY <1>1, <1>2 DEF Say
  <1> QED BY <1>3 DEF Texts

LEMMA ReplyType ==
    ASSUME ServerInv, NEW question \in Questions
    PROVE  Reply(question) \in Texts
PROOF
  <1>1. name \in Questions \cup {None}
    BY DEF ServerInv, TypeOK
  <1>2. Reply(question) \in {"chat", "name"} \X (Questions \cup {None})
    BY <1>1 DEF Reply
  <1> QED BY <1>2 DEF Texts

LEMMA FromModelType ==
    ASSUME ServerInv, NEW r \in Requests, req[r].pc \notin {"idle", "done"}
    PROVE  FromModel(r) \in Responses /\ FromModel(r).model = req[r].model
PROOF
  <1>1. req[r].model \in Versions
    BY DEF ServerInv, TypeOK, Locals
  <1>2. {Refusal, Redirect, Say("model", r)} \subseteq Texts
    BY SayType DEF Texts
  <1>3. \A text \in {Refusal, Redirect, Say("model", r)}, grounded \in BOOLEAN :
            /\ Response(text, grounded, req[r].model) \in Responses
            /\ Response(text, grounded, req[r].model).model = req[r].model
    BY <1>1, <1>2, ResponseType DEF Response
  <1> QED BY <1>3 DEF FromModel

LEMMA TornType == Torn \in Turns
PROOF BY DEF Torn, Turns, Texts

(* What may be read as the last turn of a memory that is not empty. *)
LEMMA LastTurn ==
    ASSUME ServerInv, turns # << >>, NEW last \in LastTurns
    PROVE  last.question \in Questions \cup {None} /\ last.answer \in Texts
PROOF
  <1>1. /\ turns \in Seq(Turns) /\ Len(turns) \in DOMAIN turns
        /\ log \in Seq(Turns)
    BY DEF ServerInv, TypeOK
  <1>2. Last(turns) \in Turns
    BY <1>1 DEF Last
  <1>3. Range(log) \subseteq Turns
    BY <1>1 DEF Range
  <1>4. last \in Turns
    BY <1>2, <1>3, TornType DEF LastTurns
  <1> QED BY <1>4 DEF Turns

(* What the cache finds is a response that was stored. *)
LEMMA FoundType ==
    ASSUME ServerInv, NEW key, Cache!Lookup(key) # None
    PROVE  /\ key \in DOMAIN values /\ Cache!Lookup(key) = values[key]
           /\ values[key] \in Responses
PROOF BY DEF ServerInv, Theory!CacheInv, Theory!TypeOK, Cache!Lookup

LEMMA TurnType ==
    ASSUME ServerInv, NEW r \in Requests, req[r].pc \notin {"idle", "done"}
    PROVE  Turn(r) \in Turns
PROOF
  <1>1. req[r] \in Locals /\ req[r].question \in Questions
    BY DEF ServerInv, TypeOK, Asking
  <1>2. req[r].result.text \in Texts
    BY <1>1 DEF Locals, Responses
  <1> QED BY <1>1, <1>2 DEF Turn, Turns

(* The end of a sequence that the memory keeps. *)
LEMMA TrimmedType ==
    ASSUME NEW all \in Seq(Turns), Len(all) > Limit
    PROVE  /\ Trimmed(all) \in Seq(Turns)
           /\ Len(Trimmed(all)) = Limit
           /\ \A i \in 1..Limit : Trimmed(all)[i] = all[Len(all) - Limit + i]
PROOF
  <1> DEFINE from == Len(all) - Limit + 1
  <1>1. Limit \in Nat \ {0} /\ Len(all) \in Nat
    BY ServerAssumption
  <1>2. /\ from \in 1..Len(all) /\ Len(all) - from + 1 = Limit
        /\ \A i \in 1..Limit : from + i - 1 = Len(all) - Limit + i
    BY <1>1
  <1>3. Trimmed(all) = SubSeq(all, from, Len(all))
    BY DEF Trimmed
  <1> HIDE DEF from
  <1>4. /\ Trimmed(all) \in Seq(Turns)
        /\ Len(Trimmed(all)) = Len(all) - from + 1
        /\ \A i \in 1..Len(all) - from + 1 : Trimmed(all)[i] = all[from + i - 1]
    BY <1>1, <1>2, <1>3, SubSeqProperties
  <1> QED BY <1>1, <1>2, <1>4

(* What a request in Remember writes has the length it meant to write, and *)
(* is torn if it raced.                                                    *)
LEMMA WrittenType ==
    ASSUME NEW r \in Requests, NEW new \in Seq(Turns)
    PROVE  /\ Written(r, new) \in Seq(Turns) /\ Len(Written(r, new)) = Len(new)
           /\ (req[r].racing => \A i \in 1..Len(new) : Written(r, new)[i] = Torn)
           /\ (~req[r].racing => Written(r, new) = new)
PROOF
  <1>1. CASE req[r].racing
    <2>1. Written(r, new) = [i \in 1..Len(new) |-> Torn] /\ Len(new) \in Nat
      BY <1>1 DEF Written
    <2>2. [i \in 1..Len(new) |-> Torn] \in Seq(Turns)
      BY <2>1, TornType
    <2> QED BY <1>1, <2>1, <2>2
  <1>2. CASE ~req[r].racing
    BY <1>2 DEF Written
  <1> QED BY <1>1, <1>2

(* Reading the turns in Remember: who is in it now raced, as does r.       *)
LEMMA ReadEffect ==
    ASSUME ServerInv, NEW r \in Requests, RememberRead(r)
    PROVE  /\ req' \in [Requests -> Locals]
           /\ UNCHANGED <<turns, log>>
           /\ req[r].pc = "remember" /\ req'[r].pc = "append" /\ req'[r].seen = turns
           /\ req'[r].racing = (Remembering # {})
           /\ \A x \in Requests \ {r} :
                /\ req'[x].pc = req[x].pc /\ req'[x].seen = req[x].seen
                /\ req'[x].racing = (req[x].racing \/ x \in Remembering)
           /\ \A x \in Requests :
                /\ req'[x].question = req[x].question /\ req'[x].time = req[x].time
                /\ req'[x].asked = req[x].asked /\ req'[x].model = req[x].model
                /\ req'[x].result = req[x].result /\ req'[x].source = req[x].source
PROOF
  <1>1. /\ req \in [Requests -> Locals] /\ turns \in Seq(Turns)
        /\ \A x \in Requests : req[x] \in Locals
    BY DEF ServerInv, TypeOK
  <1>2. UNCHANGED <<turns, log>> /\ req[r].pc = "remember"
    BY DEF RememberRead, memory, At
  <1> DEFINE mine == [req[r] EXCEPT !.pc = "append", !.seen = turns, !.racing = Remembering # {}]
  <1>3. /\ mine \in Locals /\ mine.pc = "append" /\ mine.seen = turns
        /\ mine.racing = (Remembering # {})
        /\ mine.question = req[r].question /\ mine.time = req[r].time
        /\ mine.asked = req[r].asked /\ mine.model = req[r].model
        /\ mine.result = req[r].result /\ mine.source = req[r].source
    <2> DEFINE l == req[r]
               b == Remembering # {}
    <2>1. l \in Locals /\ b \in BOOLEAN /\ "append" \in Steps
      BY <1>1 DEF Steps
    <2>2. mine = [l EXCEPT !.pc = "append", !.seen = turns, !.racing = b]
      OBVIOUS
    <2> HIDE DEF l, b, mine
    <2>3. Keeps(l, mine)
      BY <1>1, <2>1, <2>2, Changes
    <2>4. /\ mine.pc = "append" /\ mine.seen = turns /\ mine.racing = b
          /\ mine.question = l.question /\ mine.time = l.time
          /\ mine.asked = l.asked /\ mine.model = l.model
          /\ mine.result = l.result /\ mine.source = l.source
      BY <2>1, <2>2 DEF Locals
    <2> QED BY <2>3, <2>4 DEF Keeps, l, b
  <1>4. \A x \in Requests : req'[x] =
            IF x = r THEN mine ELSE IF x \in Remembering THEN [req[x] EXCEPT !.racing = TRUE]
                                                         ELSE req[x]
    BY DEF RememberRead
  <1> HIDE DEF mine
  <1>5. ASSUME NEW x \in Requests \ {r}
        PROVE  /\ req'[x] \in Locals
               /\ req'[x].pc = req[x].pc /\ req'[x].seen = req[x].seen
               /\ req'[x].racing = (req[x].racing \/ x \in Remembering)
               /\ req'[x].question = req[x].question /\ req'[x].time = req[x].time
               /\ req'[x].asked = req[x].asked /\ req'[x].model = req[x].model
               /\ req'[x].result = req[x].result /\ req'[x].source = req[x].source
    <2>1. CASE x \in Remembering
      <3>1. req'[x] = [req[x] EXCEPT !.racing = TRUE]
        BY <1>4, <2>1
      <3>2. req'[x] \in Locals
        BY <1>1, <3>1, SetField
      <3>3. /\ req'[x].pc = req[x].pc /\ req'[x].seen = req[x].seen
            /\ req'[x].question = req[x].question /\ req'[x].time = req[x].time
            /\ req'[x].asked = req[x].asked /\ req'[x].model = req[x].model
            /\ req'[x].result = req[x].result /\ req'[x].source = req[x].source
        BY <1>1, <3>1 DEF Locals
      <3>4. req'[x].racing = TRUE
        BY <1>1, <3>1 DEF Locals
      <3>5. req'[x].racing = (req[x].racing \/ x \in Remembering)
        BY <2>1, <3>4, Zenon
      <3> QED BY <3>2, <3>3, <3>5
    <2>2. CASE x \notin Remembering
      <3>1. req'[x] = req[x]
        BY <1>4, <2>2
      <3>2. req[x].racing \in BOOLEAN
        BY <1>1 DEF Locals
      <3> QED BY <1>1, <2>2, <3>1, <3>2
    <2> QED BY <2>1, <2>2
  <1>6. req' \in [Requests -> Locals]
    <2>1. \A x \in Requests : req'[x] \in Locals
      BY <1>3, <1>4, <1>5
    <2>2. req' = [x \in Requests |-> req'[x]]
      BY DEF RememberRead
    <2> QED BY <2>1, <2>2
  <1>7. req'[r] = mine
    BY <1>4
  <1> QED BY <1>2, <1>3, <1>5, <1>6, <1>7

-----------------------------------------------------------------------------
(* Every step of a request keeps the types. *)
LEMMA Progress ==
    ASSUME ServerInv, NEW r \in Requests, req[r].pc \notin {"idle", "done"},
           NEW new, Keeps(req[r], new), Move(r, new)
    PROVE  req' \in [Requests -> Locals] /\ Asking'
PROOF
  <1>1. req[r].question \in Questions
    BY DEF ServerInv, Asking
  <1> QED BY <1>1, MoveType DEF Keeps

LEMMA InitServerInv == Init => ServerInv
PROOF
  <1> SUFFICES ASSUME Init PROVE ServerInv
    OBVIOUS
  <1>1. Theory!CacheInv
    BY SameCache, TheoryApplies, Theory!InitInv DEF Init
  <1>2. NoResponse \in Responses
    BY ZeroVersion DEF NoResponse, Response, Responses, Texts
  <1>3. Idle \in Locals
    BY <1>2, ZeroVersion, EmptySeq DEF Idle, Locals, Steps, Sources
  <1>4. TypeOK
    BY <1>3, ZeroVersion, EmptySeq DEF Init, TypeOK
  <1>5. FileInv /\ Asking /\ Cutting
    BY ServerAssumption DEF Init, FileInv, Half, Asking, Cutting, Idle
  <1> QED BY <1>1, <1>4, <1>5 DEF ServerInv

(* All that a step of a request may change, with its type. *)
RequestTypes ==
    /\ req' \in [Requests -> Locals] /\ Asking'
    /\ turns' \in Seq(Turns) /\ log' \in Seq(Turns)
    /\ name' \in Questions \cup {None}
    /\ UNCHANGED world

LEMMA RequestType ==
    ASSUME ServerInv, NEW r \in Requests,
           \/ \E question \in Questions : Arrive(r, question)
           \/ Reject(r)
           \/ Handle(r)
    PROVE  RequestTypes
PROOF
  <1> DEFINE l == req[r]
  <1>1. /\ l \in Locals
        /\ turns \in Seq(Turns) /\ log \in Seq(Turns) /\ name \in Questions \cup {None}
    BY DEF ServerInv, TypeOK
  <1>2. /\ l.result \in Responses /\ l.seen \in Seq(Turns)
        /\ l.pc \notin {"idle", "done"} => l.question \in Questions
    BY <1>1 DEF Locals, ServerInv, Asking
  <1>3. \A s \in {"repeat", "respond", "enrich", "stat", "lookup", "load", "answer", "store",
                  "remember", "append", "trim", "cut", "done"} : s \in Steps
    BY DEF Steps
  <1>4. \A s \in {"none", "memory", "hit", "miss", "bypass", "error"} : s \in Sources
    BY DEF Sources
  <1> USE DEF RequestTypes, memory, world, cache, At
  <1>5. ASSUME NEW question \in Questions, Arrive(r, question)
        PROVE  RequestTypes
    <2>1. Idle \in Locals
      <3>1. NoResponse \in Responses
        BY ZeroVersion DEF NoResponse, Response, Responses, Texts
      <3> QED BY <3>1, ZeroVersion, EmptySeq DEF Idle, Locals, Steps, Sources
    <2> DEFINE first == [Idle EXCEPT !.pc = "repeat"]
    <2>2. first \in Locals
      BY <1>3, <2>1, SetField
    <2>3. [Idle EXCEPT !.pc = "repeat", !.question = question] = [first EXCEPT !.question = question]
      OBVIOUS
    <2> HIDE DEF first
    <2>4. [first EXCEPT !.question = question] \in Locals
      BY <2>2, SetField
    <2>5. [first EXCEPT !.question = question].question = question
      BY <2>2 DEF Locals
    <2> QED BY <1>1, <1>5, <2>3, <2>4, <2>5, MoveType DEF Arrive
  <1>6. CASE Reject(r)
    <2>1. Keeps(l, [l EXCEPT !.pc = "done", !.source = "error"])
      BY <1>1, <1>3, <1>4, Changes
    <2>2. [l EXCEPT !.pc = "done", !.source = "error"].pc = "done"
      BY <1>1 DEF Locals
    <2> QED BY <1>1, <1>6, <2>1, <2>2, MoveType DEF Keeps, Reject, Fail
  <1>7. CASE Repeat(r)
    <2>1. Keeps(l, [l EXCEPT !.pc = "respond"])
      BY <1>1, <1>3, Changes
    <2>2. ASSUME turns # << >>, NEW last \in LastTurns
          PROVE  Keeps(l, [l EXCEPT !.pc = "remember", !.source = "memory",
                                    !.result = Response(last.answer, TRUE, 0)])
      <3>1. Response(last.answer, TRUE, 0) \in Responses
        BY <2>2, LastTurn, ResponseType, ZeroVersion
      <3> HIDE DEF l
      <3> QED BY <1>1, <1>3, <1>4, <3>1, Changes
    <2> QED BY <1>1, <1>7, <2>1, <2>2, Progress DEF Repeat
  <1>8. CASE Respond(r)
    <2>1. l.question \in Questions
      BY <1>2, <1>8 DEF Respond
    <2>2. Keeps(l, [l EXCEPT !.pc = "enrich"])
      BY <1>1, <1>3, Changes
    <2>3. Keeps(l, [l EXCEPT !.pc = "remember", !.source = "memory",
                             !.result = Response(Reply(l.question), TRUE, 0)])
      <3>1. Response(Reply(l.question), TRUE, 0) \in Responses
        BY <2>1, ReplyType, ResponseType, ZeroVersion
      <3> HIDE DEF l
      <3> QED BY <1>1, <1>3, <1>4, <3>1, Changes
    <2>4. name' \in Questions \cup {None}
      BY <1>1, <1>8, <2>1 DEF Respond
    <2> QED BY <1>1, <1>8, <2>2, <2>3, <2>4, Progress DEF Respond
  <1>9. CASE Enrich(r)
    <2>1. turns # << >> => \A last \in LastTurns : last.question \in Questions \cup {None}
      BY LastTurn
    <2>2. \A c \in Questions \cup {None} : Keeps(l, [l EXCEPT !.pc = "stat", !.context = c])
      BY <1>1, <1>3, Changes
    <2>3. PICK context \in Questions \cup {None} : Move(r, [l EXCEPT !.pc = "stat", !.context = context])
      BY <1>9, <2>1 DEF Enrich
    <2> QED BY <1>1, <1>9, <2>2, <2>3, Progress DEF Enrich
  <1>10. CASE Stat(r)
    <2>1. file.time \in Times /\ file.version \in Versions
      BY DEF ServerInv, TypeOK
    <2>2. \A s \in {"load", "lookup"} :
             Keeps(l, [l EXCEPT !.pc = s, !.time = file.time, !.asked = file.version])
      BY <1>1, <1>3, <2>1, Changes
    <2>3. Keeps(l, [l EXCEPT !.pc = "done", !.source = "error"])
      BY <1>1, <1>3, <1>4, Changes
    <2> QED BY <1>1, <1>10, <2>2, <2>3, Progress DEF Stat, Fail
  <1>11. CASE Lookup(r)
    <2> DEFINE found == Cache!Lookup(Key(r))
    <2>1. Keeps(l, [l EXCEPT !.pc = "load"])
      BY <1>1, <1>3, Changes
    <2>2. found # None =>
            Keeps(l, [l EXCEPT !.pc = "remember", !.source = "hit", !.result = found])
      BY <1>1, <1>3, <1>4, FoundType, Changes
    <2> QED BY <1>1, <1>11, <2>1, <2>2, Progress DEF Lookup
  <1>12. CASE Load(r)
    <2>1. Keeps(l, [l EXCEPT !.pc = "done", !.source = "error"])
      BY <1>1, <1>3, <1>4, Changes
    <2>2. Keeps(l, [l EXCEPT !.pc = "answer", !.model = file.version])
      BY <1>1, <1>3, Changes DEF ServerInv, TypeOK
    <2> QED BY <1>1, <1>12, <2>1, <2>2, Progress DEF Load, Fail
  <1>13. CASE Answer(r)
    <2>1. Keeps(l, [l EXCEPT !.pc = "done", !.source = "error"])
      BY <1>1, <1>3, <1>4, Changes
    <2>2. \A response \in Responses, s \in {"remember", "store"}, x \in {"bypass", "miss"} :
             Keeps(l, [l EXCEPT !.pc = s, !.source = x, !.result = response])
      BY <1>1, <1>3, <1>4, Changes
    <2>3. /\ FromModel(r) \in Responses
          /\ Response(Say("data", r), TRUE, l.model) \in Responses
      BY <1>1, <1>13, FromModelType, SayType, ResponseType DEF Answer, Locals
    <2> QED BY <1>1, <1>13, <2>1, <2>2, <2>3, Progress DEF Answer, Fail
  <1>14. CASE Store(r)
    <2>1. Keeps(l, [l EXCEPT !.pc = "remember"])
      BY <1>1, <1>2, <1>3, <1>4, Changes
    <2> QED BY <1>1, <1>14, <2>1, Progress DEF Store
  <1>15. CASE RememberRead(r)
    <2>1. Asking'
      BY <1>15, ReadEffect DEF ServerInv, Asking
    <2> QED BY <1>1, <1>15, <2>1, ReadEffect DEF RememberRead
  <1>16. CASE RememberAppend(r)
    <2>1. Keeps(l, [l EXCEPT !.pc = "trim", !.seen = << >>])
      BY <1>1, <1>3, EmptySeq, Changes
    <2>2. Turn(r) \in Turns
      BY <1>16, TurnType DEF RememberAppend
    <2>3. Append(l.seen, Turn(r)) \in Seq(Turns) /\ Append(log, Turn(r)) \in Seq(Turns)
      BY <1>1, <1>2, <2>2
    <2>4. turns' \in Seq(Turns)
      BY <1>16, <2>3, WrittenType DEF RememberAppend
    <2> QED BY <1>1, <1>16, <2>1, <2>3, <2>4, Progress DEF RememberAppend
  <1>17. CASE RememberTrim(r)
    <2>1. Keeps(l, [l EXCEPT !.pc = "cut", !.seen = turns])
      BY <1>1, <1>3, Changes
    <2>2. Keeps(l, [l EXCEPT !.pc = "done", !.racing = FALSE])
      BY <1>1, <1>3, Changes
    <2> QED BY <1>1, <1>17, <2>1, <2>2, Progress DEF RememberTrim
  <1>18. CASE RememberCut(r)
    <2>1. Keeps(l, [l EXCEPT !.pc = "done", !.seen = << >>, !.racing = FALSE])
      BY <1>1, <1>3, EmptySeq, Changes
    <2>2. l.seen \in Seq(Turns) /\ Len(l.seen) > Limit
      BY <1>2, <1>18 DEF RememberCut, ServerInv, Cutting
    <2>3. turns' \in Seq(Turns)
      BY <1>18, <2>2, TrimmedType, WrittenType DEF RememberCut
    <2> QED BY <1>1, <1>18, <2>1, <2>3, Progress DEF RememberCut
  <1> HIDE DEF l
  <1> QED
    BY <1>5, <1>6, <1>7, <1>8, <1>9, <1>10, <1>11, <1>12, <1>13, <1>14, <1>15, <1>16, <1>17,
       <1>18
    DEF Handle

-----------------------------------------------------------------------------
(* The cache is touched by Lookup and Store alone, which call its methods. *)
LEMMA CacheUse ==
    ASSUME ServerInv, [Next]_vars
    PROVE  [Cache!Next]_<<values, order>>
PROOF
  <1> USE DEF cache, memory, world, At
  <1>1. ASSUME NEW r \in Requests, Lookup(r)
        PROVE  [Cache!Next]_<<values, order>>
    <2>1. Key(r) \in Questions \X Times
      BY <1>1 DEF Lookup, ServerInv, TypeOK, Locals, Asking, Key, CacheKey
    <2>2. Cache!Get(Key(r))
      BY <1>1 DEF Lookup
    <2> QED BY <2>1, <2>2 DEF Cache!Next
  <1>2. ASSUME NEW r \in Requests, Store(r)
        PROVE  [Cache!Next]_<<values, order>>
    <2>1. Key(r) \in Questions \X Times /\ req[r].result \in Responses
      BY <1>2 DEF Store, ServerInv, TypeOK, Locals, Asking, Key, CacheKey
    <2>2. Cache!Set(Key(r), req[r].result)
      BY <1>2 DEF Store
    <2> QED BY <2>1, <2>2 DEF Cache!Next
  <1>3. ASSUME NEW r \in Requests, Handle(r), ~Lookup(r), ~Store(r)
        PROVE  UNCHANGED <<values, order>>
    BY <1>3 DEF Handle, Repeat, Respond, Enrich, Stat, Load, Answer, RememberRead,
                RememberAppend, RememberTrim, RememberCut
  <1>4. ASSUME NEW r \in Requests, Reject(r) \/ \E question \in Questions : Arrive(r, question)
        PROVE  UNCHANGED <<values, order>>
    BY <1>4 DEF Reject, Arrive
  <1>5. Truncate \/ Write \/ RemoveFile \/ UNCHANGED vars => UNCHANGED <<values, order>>
    BY DEF Truncate, Write, RemoveFile, vars
  <1> QED BY <1>1, <1>2, <1>3, <1>4, <1>5 DEF Next

(* What the other three steps of Remember do. *)
LEMMA AppendEffect ==
    ASSUME ServerInv, NEW r \in Requests, RememberAppend(r)
    PROVE  /\ \A x \in Requests \ {r} : req'[x] = req[x]
           /\ req[r].pc = "append" /\ req'[r].pc = "trim" /\ req'[r].racing = req[r].racing
           /\ req[r].seen \in Seq(Turns) /\ Turn(r) \in Turns
           /\ turns' \in Seq(Turns) /\ Len(turns') = Len(req[r].seen) + 1
           /\ (req[r].racing => \A i \in 1..Len(turns') : turns'[i] = Torn)
           /\ (~req[r].racing => turns' = Append(req[r].seen, Turn(r)))
           /\ log' = Append(log, Turn(r))
PROOF
  <1>1. req \in [Requests -> Locals] /\ req[r] \in Locals
    BY DEF ServerInv, TypeOK
  <1>2. /\ \A x \in Requests \ {r} : req'[x] = req[x]
        /\ req[r].pc = "append" /\ req'[r].pc = "trim" /\ req'[r].racing = req[r].racing
    BY <1>1 DEF RememberAppend, Move, At, Locals
  <1>3. req[r].seen \in Seq(Turns) /\ Turn(r) \in Turns
    BY <1>1, <1>2, TurnType DEF Locals
  <1> DEFINE new == Append(req[r].seen, Turn(r))
  <1>4. new \in Seq(Turns) /\ Len(new) = Len(req[r].seen) + 1
    BY <1>3
  <1>5. turns' = Written(r, new) /\ log' = Append(log, Turn(r))
    BY DEF RememberAppend
  <1> HIDE DEF new
  <1>6. /\ turns' \in Seq(Turns) /\ Len(turns') = Len(new)
        /\ (req[r].racing => \A i \in 1..Len(new) : turns'[i] = Torn)
        /\ (~req[r].racing => turns' = new)
    BY <1>4, <1>5, WrittenType
  <1> QED BY <1>2, <1>3, <1>4, <1>5, <1>6 DEF new

LEMMA TrimEffect ==
    ASSUME ServerInv, NEW r \in Requests, RememberTrim(r)
    PROVE  /\ \A x \in Requests \ {r} : req'[x] = req[x]
           /\ req[r].pc = "trim" /\ UNCHANGED <<turns, log>>
           /\ (Len(turns) > Limit => /\ req'[r].pc = "cut" /\ req'[r].seen = turns
                                     /\ req'[r].racing = req[r].racing)
           /\ (~(Len(turns) > Limit) => req'[r].pc = "done")
PROOF BY DEF ServerInv, TypeOK, RememberTrim, Move, At, Locals, memory

LEMMA CutEffect ==
    ASSUME ServerInv, NEW r \in Requests, RememberCut(r)
    PROVE  /\ \A x \in Requests \ {r} : req'[x] = req[x]
           /\ req[r].pc = "cut" /\ req'[r].pc = "done"
           /\ req[r].seen \in Seq(Turns) /\ Len(req[r].seen) > Limit
           /\ turns' \in Seq(Turns) /\ Len(turns') = Limit
           /\ (req[r].racing => \A i \in 1..Len(turns') : turns'[i] = Torn)
           /\ (~req[r].racing =>
                 \A i \in 1..Limit : turns'[i] = req[r].seen[Len(req[r].seen) - Limit + i])
           /\ log' = log
PROOF
  <1>1. req \in [Requests -> Locals] /\ req[r] \in Locals
    BY DEF ServerInv, TypeOK
  <1>2. /\ \A x \in Requests \ {r} : req'[x] = req[x]
        /\ req[r].pc = "cut" /\ req'[r].pc = "done"
    BY <1>1 DEF RememberCut, Move, At, Locals
  <1>3. req[r].seen \in Seq(Turns) /\ Len(req[r].seen) > Limit
    BY <1>1, <1>2 DEF Locals, ServerInv, Cutting
  <1> DEFINE new == Trimmed(req[r].seen)
  <1>4. /\ new \in Seq(Turns) /\ Len(new) = Limit
        /\ \A i \in 1..Limit : new[i] = req[r].seen[Len(req[r].seen) - Limit + i]
    BY <1>3, TrimmedType
  <1>5. turns' = Written(r, new) /\ log' = log
    BY DEF RememberCut
  <1> HIDE DEF new
  <1>6. /\ turns' \in Seq(Turns) /\ Len(turns') = Len(new)
        /\ (req[r].racing => \A i \in 1..Len(new) : turns'[i] = Torn)
        /\ (~req[r].racing => turns' = new)
    BY <1>4, <1>5, WrittenType
  <1> QED BY <1>2, <1>3, <1>4, <1>5, <1>6

(* All other steps leave the memory and every request in Remember alone. *)
InRemember == {"append", "trim", "cut"}
LEMMA OtherSteps ==
    ASSUME ServerInv, [Next]_vars,
           ~\E r \in Requests :
               RememberRead(r) \/ RememberAppend(r) \/ RememberTrim(r) \/ RememberCut(r)
    PROVE  /\ UNCHANGED <<turns, log>>
           /\ \A x \in Requests :
                \/ req'[x] = req[x]
                \/ req[x].pc \notin InRemember /\ req'[x].pc \notin InRemember
PROOF
  <1> USE DEF cache, memory, world, At
  <1>1. CASE Truncate \/ Write \/ RemoveFile \/ UNCHANGED vars
    BY <1>1 DEF Truncate, Write, RemoveFile, vars
  <1>2. ASSUME NEW r \in Requests,
               \/ \E question \in Questions : Arrive(r, question)
               \/ Reject(r)
               \/ Handle(r)
        PROVE  /\ UNCHANGED <<turns, log>>
               /\ \A x \in Requests :
                    \/ req'[x] = req[x]
                    \/ req[x].pc \notin InRemember /\ req'[x].pc \notin InRemember
    <2>1. UNCHANGED <<turns, log>>
      BY <1>2 DEF Arrive, Reject, Handle, Repeat, Respond, Enrich, Stat, Lookup, Load, Answer,
                  Store
    <2>2. \A x \in Requests \ {r} : req'[x] = req[x]
      BY <1>2 DEF Arrive, Reject, Handle, Repeat, Respond, Enrich, Stat, Lookup, Load, Answer,
                  Store, Move, Fail, ServerInv, TypeOK
    <2>3. req[r].pc \notin InRemember
      BY <1>2 DEF Reject, Arrive, Handle, Repeat, Respond, Enrich, Stat, Lookup, Load, Answer,
                  Store, InRemember
    <2>4. \E s \in Steps \ InRemember : req'[r].pc = s
      <3> DEFINE l == req[r]
                 Leads(new) == \E s \in Steps \ InRemember : new.pc = s
      <3>1. l \in Locals /\ r \in DOMAIN req
        BY DEF ServerInv, TypeOK
      <3>2. {"repeat", "respond", "enrich", "stat", "lookup", "load", "answer", "store",
             "remember", "done"} \subseteq Steps \ InRemember
        BY DEF Steps, InRemember
      <3>3. ASSUME NEW new, Move(r, new), Leads(new)
            PROVE  \E s \in Steps \ InRemember : req'[r].pc = s
        BY <3>1, <3>3 DEF Move
      <3>4. ASSUME NEW s \in Steps \ InRemember
            PROVE  /\ Leads([l EXCEPT !.pc = s])
                   /\ \A x : Leads([l EXCEPT !.pc = s, !.source = x])
                   /\ \A x, y : Leads([l EXCEPT !.pc = s, !.source = x, !.result = y])
                   /\ \A x : Leads([l EXCEPT !.pc = s, !.context = x])
                   /\ \A x, y : Leads([l EXCEPT !.pc = s, !.time = x, !.asked = y])
                   /\ \A x : Leads([l EXCEPT !.pc = s, !.model = x])
        BY <3>1, <3>4 DEF Locals
      <3>5. ASSUME NEW question, NEW s \in Steps \ InRemember
            PROVE  Leads([Idle EXCEPT !.pc = s, !.question = question])
        BY <3>5 DEF Idle
      <3> HIDE DEF l, Leads
      <3>6. CASE Reject(r) \/ \E question \in Questions : Arrive(r, question)
        BY <3>2, <3>3, <3>4, <3>5, <3>6 DEF Reject, Arrive, Fail, l
      <3>7. CASE Repeat(r)
        BY <3>2, <3>3, <3>4, <3>7 DEF Repeat, l
      <3>8. CASE Respond(r)
        BY <3>2, <3>3, <3>4, <3>8 DEF Respond, l
      <3>9. CASE Enrich(r)
        BY <3>2, <3>3, <3>4, <3>9 DEF Enrich, l
      <3>10. CASE Stat(r)
        BY <3>2, <3>3, <3>4, <3>10 DEF Stat, Fail, l
      <3>11. CASE Lookup(r)
        BY <3>2, <3>3, <3>4, <3>11 DEF Lookup, l
      <3>12. CASE Load(r)
        BY <3>2, <3>3, <3>4, <3>12 DEF Load, Fail, l
      <3>13. CASE Answer(r)
        BY <3>2, <3>3, <3>4, <3>13 DEF Answer, Fail, l
      <3>14. CASE Store(r)
        BY <3>2, <3>3, <3>4, <3>14 DEF Store, l
      <3> QED
        BY <1>2, <3>6, <3>7, <3>8, <3>9, <3>10, <3>11, <3>12, <3>13, <3>14 DEF Handle
    <2> QED BY <2>1, <2>2, <2>3, <2>4
  <1> QED BY <1>1, <1>2 DEF Next

(* What a request is about to cut is too long. *)
LEMMA StepCutting ==
    ASSUME ServerInv, [Next]_vars
    PROVE  Cutting'
PROOF
  <1>1. Cutting /\ turns \in Seq(Turns)
    BY DEF ServerInv, TypeOK
  <1>2. CASE ~\E r \in Requests :
                 RememberRead(r) \/ RememberAppend(r) \/ RememberTrim(r) \/ RememberCut(r)
    BY <1>1, <1>2, OtherSteps DEF Cutting, InRemember
  <1>3. ASSUME NEW r \in Requests, RememberRead(r) PROVE Cutting'
    BY <1>1, <1>3, ReadEffect DEF Cutting
  <1>4. ASSUME NEW r \in Requests, RememberAppend(r) PROVE Cutting'
    BY <1>1, <1>4, AppendEffect DEF Cutting
  <1>5. ASSUME NEW r \in Requests, RememberTrim(r) PROVE Cutting'
    BY <1>1, <1>5, TrimEffect DEF Cutting
  <1>6. ASSUME NEW r \in Requests, RememberCut(r) PROVE Cutting'
    BY <1>1, <1>6, CutEffect DEF Cutting
  <1> QED BY <1>2, <1>3, <1>4, <1>5, <1>6

LEMMA StepServerInv == ServerInv /\ [Next]_vars => ServerInv'
PROOF
  <1> SUFFICES ASSUME ServerInv, [Next]_vars PROVE ServerInv'
    OBVIOUS
  <1>1. Theory!CacheInv' /\ Cutting'
    BY CacheUse, CacheStep, StepCutting
  <1>2. CASE Truncate \/ Write \/ RemoveFile
    <2>1. UNCHANGED <<turns, name, req, log>>
      BY <1>2 DEF Truncate, Write, RemoveFile, memory
    <2>2. TypeOK' /\ Asking'
      BY <1>2, <2>1, FileStep DEF ServerInv, TypeOK, Asking
    <2> QED BY <1>1, <1>2, <2>2, FileStep DEF ServerInv
  <1>3. ASSUME NEW r \in Requests,
               \/ \E question \in Questions : Arrive(r, question)
               \/ Reject(r)
               \/ Handle(r)
        PROVE  ServerInv'
    <2>1. RequestTypes
      BY <1>3, RequestType
    <2>2. TypeOK' /\ Asking' /\ FileInv'
      BY <2>1 DEF RequestTypes, world, ServerInv, TypeOK, FileInv, Half
    <2> QED BY <1>1, <2>2 DEF ServerInv
  <1>4. CASE UNCHANGED vars
    BY <1>1, <1>4 DEF vars, ServerInv, TypeOK, FileInv, Half, Asking
  <1> QED BY <1>2, <1>3, <1>4 DEF Next

(* The variables keep their types, however requests and retrainings        *)
(* overlap: no request goes on without a question, and the version and the *)
(* time of the file stay in step.                                          *)
THEOREM ServerTypeCorrect == Spec => []TypeOK
PROOF
  <1>1. ServerInv => TypeOK
    BY DEF ServerInv
  <1> QED BY <1>1, InitServerInv, StepServerInv, PTL DEF Spec

(* Inside the server, too, the cache keeps its map and list in step and    *)
(* does not outgrow its capacity.                                          *)
THEOREM CacheInServer == Spec => [](Cache!OrderTracksValues /\ Cache!Bounded)
PROOF
  <1>1. ServerInv => Cache!OrderTracksValues /\ Cache!Bounded
    BY SameCache DEF ServerInv, Theory!CacheInv
  <1> QED BY <1>1, InitServerInv, StepServerInv, PTL DEF Spec

-----------------------------------------------------------------------------
(* Why nothing stale is answered.  Every write gives the file a new time,  *)
(* twice the version (and one more while it is torn); so a version at hand *)
(* and a time at hand can be compared, in a request and in the cache.      *)
BeforeAnswer == {"repeat", "respond", "enrich", "stat", "lookup", "load", "answer"}
AfterStat == {"lookup", "load", "answer", "store"}
Current(l) ==
    /\ (l.pc \in BeforeAnswer => l.source = "none")
    /\ (l.pc \in AfterStat => 2 * l.asked <= l.time /\ l.time <= file.time)
    /\ (l.pc \in {"answer", "store"} => l.time <= 2 * l.model)
    /\ (l.pc = "store" => l.time <= 2 * l.result.model)
    /\ (l.source \in {"hit", "miss", "bypass"} => l.asked <= l.result.model)
CacheCurrent == \A key \in DOMAIN values : key[2] <= 2 * values[key].model
FreshInv == CacheCurrent /\ \A r \in Requests : Current(req[r])

(* The numbers that are compared. *)
LEMMA Numbers ==
    ASSUME ServerInv
    PROVE  /\ file.time \in Nat /\ file.version \in Nat
           /\ \A r \in Requests :
                /\ req[r].time \in Nat /\ req[r].asked \in Nat /\ req[r].model \in Nat
                /\ req[r].result.model \in Nat
PROOF BY Ranges DEF ServerInv, TypeOK, Locals, Responses

(* A step of one request: the others are as current as before. *)
LEMMA MoveCurrent ==
    ASSUME ServerInv, FreshInv, NEW r \in Requests, NEW new, Move(r, new),
           UNCHANGED file, Current(new)
    PROVE  \A x \in Requests : Current(req[x])'
PROOF
  <1> SUFFICES ASSUME NEW x \in Requests PROVE Current(req[x])'
    OBVIOUS
  <1>1. req'[x] = IF x = r THEN new ELSE req[x]
    BY DEF ServerInv, TypeOK, Move
  <1>2. Current(req[x])
    BY DEF FreshInv
  <1> QED BY <1>1, <1>2 DEF Current

LEMMA StepFresh == ~CoarseClock /\ ServerInv /\ FreshInv /\ [Next]_vars => FreshInv'
PROOF
  <1> SUFFICES ASSUME ~CoarseClock, ServerInv, FreshInv, [Next]_vars PROVE FreshInv'
    OBVIOUS
  <1> USE DEF cache, memory, world, At
  <1>1. CASE Truncate \/ Write \/ RemoveFile
    <2>1. UNCHANGED <<values, req>>
      BY <1>1 DEF Truncate, Write, RemoveFile
    <2>2. file'.time >= file.time /\ file'.time \in Nat
      BY <1>1, FileStep, Ranges
    <2>3. ASSUME NEW r \in Requests PROVE Current(req[r])'
      BY <2>1, <2>2, Numbers DEF FreshInv, Current
    <2> QED BY <2>1, <2>3 DEF FreshInv, CacheCurrent
  <1>2. CASE UNCHANGED vars
    BY <1>2 DEF vars, FreshInv, CacheCurrent, Current
  <1>3. ASSUME NEW r \in Requests, NEW question \in Questions, Arrive(r, question)
        PROVE  FreshInv'
    <2>1. Current([Idle EXCEPT !.pc = "repeat", !.question = question])
      BY DEF Current, Idle, BeforeAnswer, AfterStat
    <2> QED BY <1>3, <2>1, MoveCurrent DEF Arrive, FreshInv, CacheCurrent
  <1>4. ASSUME NEW r \in Requests, Reject(r) \/ Handle(r)
        PROVE  FreshInv'
    <2> DEFINE l == req[r]
    <2>1. /\ l \in Locals /\ Current(l)
          /\ l.time \in Nat /\ l.asked \in Nat /\ l.model \in Nat /\ l.result.model \in Nat
          /\ file.time \in Nat /\ file.version \in Nat
      BY Numbers DEF ServerInv, TypeOK, FreshInv
    <2>2. Current([l EXCEPT !.pc = "done", !.source = "error"])
      BY <2>1 DEF Current, BeforeAnswer, AfterStat, Locals
    <2>3. CASE Reject(r)
      BY <1>4, <2>2, <2>3, MoveCurrent DEF Reject, Fail, FreshInv, CacheCurrent
    <2>4. CASE Repeat(r)
      <3>1. ASSUME NEW x
            PROVE  Current([l EXCEPT !.pc = "remember", !.source = "memory", !.result = x])
        BY <2>1 DEF Current, BeforeAnswer, AfterStat, Locals
      <3>2. Current([l EXCEPT !.pc = "respond"])
        BY <2>1, <2>4 DEF Repeat, Current, BeforeAnswer, AfterStat, Locals
      <3> QED BY <2>4, <3>1, <3>2, MoveCurrent DEF Repeat, FreshInv, CacheCurrent
    <2>5. CASE Respond(r)
      <3>1. ASSUME NEW x
            PROVE  Current([l EXCEPT !.pc = "remember", !.source = "memory", !.result = x])
        BY <2>1 DEF Current, BeforeAnswer, AfterStat, Locals
      <3>2. Current([l EXCEPT !.pc = "enrich"])
        BY <2>1, <2>5 DEF Respond, Current, BeforeAnswer, AfterStat, Locals
      <3> QED BY <2>5, <3>1, <3>2, MoveCurrent DEF Respond, FreshInv, CacheCurrent
    <2>6. CASE Enrich(r)
      <3>1. ASSUME NEW x PROVE Current([l EXCEPT !.pc = "stat", !.context = x])
        BY <2>1, <2>6 DEF Enrich, Current, BeforeAnswer, AfterStat, Locals
      <3>2. PICK x : Move(r, [l EXCEPT !.pc = "stat", !.context = x])
        BY <2>6 DEF Enrich
      <3> QED BY <2>6, <3>1, <3>2, MoveCurrent DEF Enrich, FreshInv, CacheCurrent
    <2>7. CASE Stat(r)
      <3>1. file.time >= 2 * file.version
        BY <2>1 DEF ServerInv, FileInv, Half
      <3>2. Current([l EXCEPT !.pc = "load", !.time = file.time, !.asked = file.version])
        BY <2>1, <2>7, <3>1 DEF Stat, Current, BeforeAnswer, AfterStat, Locals
      <3>3. Current([l EXCEPT !.pc = "lookup", !.time = file.time, !.asked = file.version])
        BY <2>1, <2>7, <3>1 DEF Stat, Current, BeforeAnswer, AfterStat, Locals
      <3> QED BY <2>2, <2>7, <3>2, <3>3, MoveCurrent DEF Stat, Fail, FreshInv, CacheCurrent
    <2>8. CASE Lookup(r)
      <3> DEFINE found == Cache!Lookup(Key(r))
      <3>1. Current([l EXCEPT !.pc = "load"])
        BY <2>1, <2>8 DEF Lookup, Current, BeforeAnswer, AfterStat, Locals
      <3>2. ASSUME found # None
            PROVE  Current([l EXCEPT !.pc = "remember", !.source = "hit", !.result = found])
        <4>1. /\ Key(r) \in DOMAIN values /\ found = values[Key(r)]
              /\ found.model \in Nat
          BY <3>2, FoundType, Ranges DEF Responses
        <4>2. l.time <= 2 * found.model
          BY <4>1 DEF FreshInv, CacheCurrent, Key, CacheKey
        <4>3. l.asked <= found.model
          BY <2>1, <2>8, <4>1, <4>2 DEF Lookup, Current, AfterStat
        <4> HIDE DEF found
        <4> QED BY <2>1, <4>1, <4>3 DEF Current, BeforeAnswer, AfterStat, Locals
      <3>3. values' = values
        BY <2>8 DEF Lookup, Cache!Get
      <3> QED BY <2>8, <3>1, <3>2, <3>3, MoveCurrent DEF Lookup, FreshInv, CacheCurrent
    <2>9. CASE Load(r)
      <3>1. CASE file.state = "whole"
        <4>1. file.time = 2 * file.version
          <5>1. file.time = 2 * file.version + Half
            BY Zenon DEF ServerInv, FileInv
          <5> QED BY <2>1, <3>1, <5>1 DEF Half
        <4>2. Current([l EXCEPT !.pc = "answer", !.model = file.version])
          BY <2>1, <2>9, <4>1 DEF Load, Current, BeforeAnswer, AfterStat, Locals
        <4> QED BY <2>9, <3>1, <4>2, MoveCurrent DEF Load, FreshInv, CacheCurrent
      <3>2. CASE file.state # "whole"
        BY <2>2, <2>9, <3>2, MoveCurrent DEF Load, Fail, FreshInv, CacheCurrent
      <3> QED BY <3>1, <3>2
    <2>10. CASE Answer(r)
      <3>1. ASSUME NEW response, response.model = l.model
            PROVE  /\ Current([l EXCEPT !.pc = "remember", !.source = "bypass", !.result = response])
                   /\ Current([l EXCEPT !.pc = "store", !.source = "miss", !.result = response])
        <4>1. l.time <= 2 * l.model /\ 2 * l.asked <= l.time /\ l.time <= file.time
          BY <2>10 DEF FreshInv, Current, Answer, AfterStat
        <4>2. l.asked <= l.model
          BY <2>1, <4>1
        <4> QED BY <2>1, <3>1, <4>1, <4>2 DEF Current, BeforeAnswer, AfterStat, Locals
      <3>2. FromModel(r).model = l.model /\ Response(Say("data", r), TRUE, l.model).model = l.model
        BY <2>10, FromModelType DEF Answer, Response
      <3> QED BY <2>2, <2>10, <3>1, <3>2, MoveCurrent DEF Answer, Fail, FreshInv, CacheCurrent
    <2>11. CASE Store(r)
      <3>1. Current([l EXCEPT !.pc = "remember"])
        BY <2>1, <2>11 DEF Store, Current, BeforeAnswer, AfterStat, Locals
      <3>2. l.time <= 2 * l.result.model
        BY <2>1, <2>11 DEF Store, Current
      <3>3. ASSUME NEW key \in DOMAIN values'
            PROVE  \/ values'[key] = l.result /\ key = Key(r)
                   \/ key \in DOMAIN values /\ values'[key] = values[key]
        <4>1. CASE Cache!Overwrite(Key(r), l.result)
          <5>1. values' = [values EXCEPT ![Key(r)] = l.result] /\ Key(r) \in DOMAIN values
            BY <4>1 DEF Cache!Overwrite
          <5> HIDE DEF l
          <5> QED BY <5>1
        <4>2. CASE Cache!Insert(Key(r), l.result)
          <5>1. PICK S : values' = Cache!Store(S, Key(r), l.result)
            BY <4>2 DEF Cache!Insert
          <5> HIDE DEF l
          <5> QED BY <5>1 DEF Cache!Store
        <4> QED BY <2>11, <4>1, <4>2 DEF Store, Cache!Set
      <3>4. CacheCurrent'
        BY <3>2, <3>3 DEF FreshInv, CacheCurrent, Key, CacheKey
      <3> QED BY <2>11, <3>1, <3>4, MoveCurrent DEF Store, FreshInv
    <2>12. CASE RememberRead(r)
      <3>1. UNCHANGED <<file, values>>
        BY <2>12 DEF RememberRead
      <3>2. ASSUME NEW x \in Requests PROVE Current(req[x])'
        <4>1. Current(req[x])
          BY DEF FreshInv
        <4> QED BY <2>12, <3>1, <4>1, ReadEffect DEF Current, BeforeAnswer, AfterStat
      <3> QED BY <3>1, <3>2 DEF FreshInv, CacheCurrent
    <2>13. CASE RememberAppend(r)
      <3>1. Current([l EXCEPT !.pc = "trim", !.seen = << >>])
        BY <2>1 DEF Current, BeforeAnswer, AfterStat, Locals
      <3> QED BY <2>13, <3>1, MoveCurrent DEF RememberAppend, FreshInv, CacheCurrent
    <2>14. CASE RememberTrim(r)
      <3>1. Current([l EXCEPT !.pc = "cut", !.seen = turns])
        BY <2>1 DEF Current, BeforeAnswer, AfterStat, Locals
      <3>2. Current([l EXCEPT !.pc = "done", !.racing = FALSE])
        BY <2>1 DEF Current, BeforeAnswer, AfterStat, Locals
      <3> QED BY <2>14, <3>1, <3>2, MoveCurrent DEF RememberTrim, FreshInv, CacheCurrent
    <2>15. CASE RememberCut(r)
      <3>1. Current([l EXCEPT !.pc = "done", !.seen = << >>, !.racing = FALSE])
        BY <2>1 DEF Current, BeforeAnswer, AfterStat, Locals
      <3> QED BY <2>15, <3>1, MoveCurrent DEF RememberCut, FreshInv, CacheCurrent
    <2> QED
      BY <1>4, <2>3, <2>4, <2>5, <2>6, <2>7, <2>8, <2>9, <2>10, <2>11, <2>12, <2>13, <2>14,
         <2>15
      DEF Handle
  <1> QED BY <1>1, <1>2, <1>3, <1>4 DEF Next

(* "Retraining changes the model file timestamp, automatically bypassing   *)
(* old cached answers" (README.md:152): true for any number of requests    *)
(* and retrainings, if every write gets a time of its own.                 *)
THEOREM NeverStaleAlways == ~CoarseClock /\ Spec => []NeverStale
PROOF
  <1> SUFFICES ASSUME ~CoarseClock PROVE Spec => []NeverStale
    OBVIOUS
  <1>1. Init => FreshInv
    BY DEF Init, FreshInv, CacheCurrent, Current, Idle, BeforeAnswer, AfterStat, Cache!Init
  <1>2. ServerInv /\ FreshInv /\ [Next]_vars => FreshInv'
    BY StepFresh
  <1>3. ServerInv /\ FreshInv => NeverStale
    BY Numbers DEF FreshInv, Current, NeverStale
  <1> QED BY <1>1, <1>2, <1>3, InitServerInv, StepServerInv, PTL DEF Spec

-----------------------------------------------------------------------------
(* The memory outgrows its limit only while somebody is about to trim it:  *)
(* each append is followed by a trim of its own, and what a trim writes is *)
(* as long as the limit, whatever was written in between.                  *)
THEOREM MemoryIsBoundedAlways == Spec => []MemoryIsBounded
PROOF
  <1>1. Init => MemoryIsBounded
    BY ServerAssumption DEF Init, MemoryIsBounded
  <1>2. ServerInv /\ MemoryIsBounded /\ [Next]_vars => MemoryIsBounded'
    <2> SUFFICES ASSUME ServerInv, MemoryIsBounded, [Next]_vars, Len(turns') > Limit
                 PROVE  \E x \in Requests : req'[x].pc \in {"trim", "cut"}
      BY DEF MemoryIsBounded
    <2>1. Limit \in Nat
      BY ServerAssumption
    <2>2. CASE ~\E r \in Requests :
                   RememberRead(r) \/ RememberAppend(r) \/ RememberTrim(r) \/ RememberCut(r)
      <3>1. PICK x \in Requests : req[x].pc \in {"trim", "cut"}
        BY <2>2, OtherSteps DEF MemoryIsBounded
      <3>2. req'[x] = req[x]
        BY <2>2, <3>1, OtherSteps DEF InRemember
      <3> QED BY <3>1, <3>2
    <2>3. ASSUME NEW r \in Requests, RememberRead(r)
          PROVE  \E x \in Requests : req'[x].pc \in {"trim", "cut"}
      <3>1. PICK x \in Requests : req[x].pc \in {"trim", "cut"}
        BY <2>3, ReadEffect DEF MemoryIsBounded
      <3>2. req'[x].pc = req[x].pc
        BY <2>3, <3>1, ReadEffect
      <3> QED BY <3>1, <3>2
    <2>4. ASSUME NEW r \in Requests, RememberAppend(r)
          PROVE  \E x \in Requests : req'[x].pc \in {"trim", "cut"}
      BY <2>4, AppendEffect
    <2>5. ASSUME NEW r \in Requests, RememberTrim(r)
          PROVE  \E x \in Requests : req'[x].pc \in {"trim", "cut"}
      BY <2>5, TrimEffect
    <2>6. ASSUME NEW r \in Requests, RememberCut(r)
          PROVE  \E x \in Requests : req'[x].pc \in {"trim", "cut"}
      BY <2>1, <2>6, CutEffect
    <2> QED BY <2>2, <2>3, <2>4, <2>5, <2>6
  <1> QED BY <1>1, <1>2, InitServerInv, StepServerInv, PTL DEF Spec

-----------------------------------------------------------------------------
(* Why the memory is the end of the history.  A request that is alone in   *)
(* Remember finds the turns it has read unchanged when it writes; requests *)
(* that meet there all know it as races, and while one of them has yet to  *)
(* append, or has appended, there are torn turns or will be.               *)
Racing(r) == r \in Remembering /\ req[r].racing
Whole == \A i \in 1..Len(turns) : turns[i] # Torn
Aligned == \A i \in 1..Len(turns) : turns[i] # Torn => turns[i] = log[Len(log) - Len(turns) + i]
Kept(n) == IF n < Limit THEN n ELSE Limit

MeetAndRace == \A x, y \in Remembering : x # y => req[x].racing
Undisturbed ==
    \A r \in Requests :
        req[r].pc \in {"append", "cut"} /\ ~req[r].racing => req[r].seen = turns
SeenFits == \A r \in Requests : req[r].pc \in {"append", "cut"} => Len(req[r].seen) <= Len(log)
TearsLater ==
    Whole /\ (\E r \in Requests : Racing(r)) =>
        \E r \in Requests : req[r].pc = "append" /\ req[r].racing
Complete ==
    Whole /\ (\A r \in Requests : ~Racing(r)) =>
        \/ Len(turns) = Kept(Len(log))
        \/ /\ Len(turns) = Limit + 1
           /\ \E r \in Requests : req[r].pc \in {"trim", "cut"}
HistoryInv ==
    /\ Len(turns) <= Len(log)
    /\ MeetAndRace /\ Undisturbed /\ SeenFits
    /\ Aligned /\ TearsLater /\ Complete

LEMMA Lengths ==
    ASSUME ServerInv
    PROVE  /\ turns \in Seq(Turns) /\ log \in Seq(Turns)
           /\ Len(turns) \in Nat /\ Len(log) \in Nat /\ Limit \in Nat \ {0}
           /\ \A r \in Requests : req[r].seen \in Seq(Turns) /\ Len(req[r].seen) \in Nat
           /\ \A r \in Requests : req[r].racing \in BOOLEAN
PROOF BY ServerAssumption DEF ServerInv, TypeOK, Locals

(* The turns a request reads. *)
LEMMA ReadHistory ==
    ASSUME ServerInv, HistoryInv, NEW r \in Requests, RememberRead(r)
    PROVE  HistoryInv'
PROOF
  <1> USE DEF HistoryInv
  <1>1. UNCHANGED <<turns, log>>
    BY ReadEffect
  <1>2. Len(turns') <= Len(log') /\ Aligned' /\ Whole' = Whole
    BY <1>1 DEF Aligned, Whole
  <1>3. /\ Remembering' = Remembering \cup {r} /\ r \notin Remembering
        /\ \A x \in Remembering : x # r /\ req'[x].racing
        /\ (Remembering # {} => req'[r].racing)
    <2>1. /\ req[r].pc = "remember" /\ req'[r].pc = "append"
          /\ req'[r].racing = (Remembering # {})
          /\ \A x \in Requests \ {r} : req'[x].pc = req[x].pc
          /\ \A x \in Requests \ {r} : req'[x].racing = (req[x].racing \/ x \in Remembering)
      BY ReadEffect
    <2>2. r \notin Remembering /\ Remembering \subseteq Requests
      BY <2>1 DEF Remembering
    <2>3. Remembering' = Remembering \cup {r}
      BY <2>1 DEF Remembering
    <2>4. \A x \in Remembering : x # r /\ req'[x].racing
      BY <2>1, <2>2
    <2> QED BY <2>1, <2>2, <2>3, <2>4
  <1>4. MeetAndRace'
    BY <1>3 DEF MeetAndRace
  <1>5. Undisturbed' /\ SeenFits'
    <2>1. req'[r].seen = turns
      BY ReadEffect
    <2>2. \A x \in Requests \ {r} : req'[x].pc = req[x].pc /\ req'[x].seen = req[x].seen
      BY ReadEffect
    <2>3. \A x \in Requests \ {r} : req'[x].pc \in {"append", "cut"} => req'[x].racing
      BY <1>3, <2>2 DEF Remembering
    <2> QED BY <1>1, <2>1, <2>2, <2>3 DEF Undisturbed, SeenFits
  <1>6. TearsLater'
    <2>1. CASE Remembering = {}
      <3>1. \A x \in Requests : ~Racing(x)'
        BY <1>3, <2>1, ReadEffect DEF Racing
      <3> QED BY <3>1 DEF TearsLater
    <2>2. CASE Remembering # {}
      BY <1>3, <2>2, ReadEffect DEF TearsLater
    <2> QED BY <2>1, <2>2
  <1>7. Complete'
    <2>1. CASE Remembering = {}
      <3>1. \A x \in Requests : ~Racing(x) /\ req[x].pc \notin {"trim", "cut"}
        BY <2>1 DEF Racing, Remembering
      <3>2. Whole => Len(turns) = Kept(Len(log))
        BY <3>1 DEF Complete
      <3> QED BY <1>1, <1>2, <3>2 DEF Complete, Kept
    <2>2. CASE Remembering # {}
      <3>1. Racing(r)'
        BY <1>3, <2>2 DEF Racing
      <3> QED BY <3>1 DEF Complete
    <2> QED BY <2>1, <2>2
  <1> QED BY <1>2, <1>4, <1>5, <1>6, <1>7

(* The append. *)
LEMMA AppendHistory ==
    ASSUME ServerInv, HistoryInv, NEW r \in Requests, RememberAppend(r)
    PROVE  HistoryInv'
PROOF
  <1> USE DEF HistoryInv
  <1> DEFINE s == req[r].seen
  <1>1. /\ s \in Seq(Turns) /\ Len(s) \in Nat /\ Len(s) <= Len(log) /\ Turn(r) \in Turns
        /\ Len(log) \in Nat /\ log \in Seq(Turns) /\ Limit \in Nat \ {0}
        /\ turns' \in Seq(Turns) /\ Len(turns') = Len(s) + 1 /\ log' = Append(log, Turn(r))
        /\ req[r].pc = "append" /\ req'[r].pc = "trim" /\ req'[r].racing = req[r].racing
        /\ \A x \in Requests \ {r} : req'[x] = req[x]
        /\ req[r].racing \in BOOLEAN
    BY AppendEffect, Lengths DEF SeenFits
  <1>2. /\ Len(log') = Len(log) + 1 /\ log'[Len(log) + 1] = Turn(r)
        /\ \A i \in 1..Len(log) : log'[i] = log[i]
    BY <1>1
  <1>3. /\ Remembering' = Remembering /\ r \in Remembering
        /\ \A x \in Remembering : req'[x].racing = req[x].racing
    BY <1>1 DEF Remembering
  <1>4. MeetAndRace'
    BY <1>3 DEF MeetAndRace
  <1>5. SeenFits'
    <2> SUFFICES ASSUME NEW x \in Requests, req'[x].pc \in {"append", "cut"}
                 PROVE  Len(req'[x].seen) <= Len(log')
      BY DEF SeenFits
    <2>1. req'[x] = req[x] /\ Len(req[x].seen) <= Len(log) /\ Len(req[x].seen) \in Nat
      BY <1>1, Lengths DEF SeenFits
    <2> HIDE DEF s
    <2> QED BY <1>1, <1>2, <2>1
  <1>6. Undisturbed'
    <2> SUFFICES ASSUME NEW x \in Requests, req'[x].pc \in {"append", "cut"}, ~req'[x].racing
                 PROVE  FALSE
      BY DEF Undisturbed
    <2>1. x # r /\ req'[x] = req[x] /\ x \in Remembering
      BY <1>1 DEF Remembering
    <2> QED BY <1>3, <2>1 DEF MeetAndRace
  <1>7. CASE req[r].racing
    <2>1. \A i \in 1..Len(turns') : turns'[i] = Torn
      BY <1>7, AppendEffect
    <2>2. Aligned'
      BY <2>1 DEF Aligned
    <2>3. ~Whole'
      BY <1>1, <2>1 DEF Whole
    <2> QED BY <1>1, <1>2, <1>4, <1>5, <1>6, <2>2, <2>3 DEF TearsLater, Complete
  <1>8. CASE ~req[r].racing
    <2>1. s = turns /\ turns' = Append(turns, Turn(r))
      BY <1>1, <1>8, AppendEffect DEF Undisturbed
    <2>2. /\ Len(turns) = Len(s) /\ turns'[Len(s) + 1] = Turn(r)
          /\ \A i \in 1..Len(s) : turns'[i] = turns[i]
      BY <1>1, <2>1
    <2>3. Aligned'
      <3> SUFFICES ASSUME NEW i \in 1..Len(turns'), turns'[i] # Torn
                   PROVE  turns'[i] = log'[Len(log') - Len(turns') + i]
        BY DEF Aligned
      <3> HIDE DEF s
      <3>1. Len(log') - Len(turns') + i = Len(log) - Len(s) + i
        <4>1. Len(log') = Len(log) + 1 /\ Len(turns') = Len(s) + 1
          BY <1>1, <1>2
        <4>2. Len(log) \in Nat /\ Len(s) \in Nat /\ i \in Nat
          BY <1>1
        <4> QED BY <4>1, <4>2
      <3>2. CASE i = Len(s) + 1
        <4>1. Len(log) - Len(s) + i = Len(log) + 1
          BY <1>1, <3>2
        <4> QED BY <1>2, <2>2, <3>1, <3>2, <4>1
      <3>3. CASE i \in 1..Len(s)
        <4>1. turns'[i] = log[Len(log) - Len(s) + i]
          BY <2>2, <3>3 DEF Aligned
        <4>2. Len(log) - Len(s) + i \in 1..Len(log)
          BY <1>1, <3>3
        <4> QED BY <1>2, <3>1, <4>1, <4>2
      <3>4. i = Len(s) + 1 \/ i \in 1..Len(s)
        <4>1. i \in 1..Len(s) + 1 /\ Len(s) \in Nat
          BY <1>1
        <4> QED BY <4>1
      <3> QED BY <3>2, <3>3, <3>4
    <2>4. \A x \in Requests : ~Racing(x) /\ ~Racing(x)' /\ (x # r => x \notin Remembering)
      BY <1>1, <1>3, <1>8 DEF Racing, MeetAndRace
    <2>5. TearsLater'
      BY <2>4 DEF TearsLater
    <2>6. Whole' => Whole
      <3> SUFFICES ASSUME Whole', NEW i \in 1..Len(turns) PROVE turns[i] # Torn
        BY DEF Whole
      <3> HIDE DEF s
      <3>1. i \in 1..Len(s) /\ Len(s) \in Nat /\ Len(turns') = Len(s) + 1
        BY <1>1, <2>2
      <3>2. i \in 1..Len(turns') /\ turns'[i] = turns[i]
        BY <2>2, <3>1
      <3> QED BY <3>2 DEF Whole
    <2>7. Whole => Len(turns) = Kept(Len(log))
      <3>1. \A x \in Requests : req[x].pc \notin {"trim", "cut"}
        BY <1>1, <2>4 DEF Remembering
      <3> QED BY <2>4, <3>1 DEF Complete
    <2>8. Whole' => Len(turns') = Kept(Len(log')) \/ Len(turns') = Limit + 1
      BY <1>1, <1>2, <2>2, <2>6, <2>7 DEF Kept
    <2>9. Complete'
      BY <1>1, <2>8 DEF Complete
    <2> QED BY <1>1, <1>2, <1>4, <1>5, <1>6, <2>3, <2>5, <2>9
  <1> QED BY <1>1, <1>7, <1>8

(* The test of the length. *)
LEMMA TrimHistory ==
    ASSUME ServerInv, HistoryInv, NEW r \in Requests, RememberTrim(r)
    PROVE  HistoryInv'
PROOF
  <1> USE DEF HistoryInv
  <1>1. /\ \A x \in Requests \ {r} : req'[x] = req[x]
        /\ req[r].pc = "trim" /\ UNCHANGED <<turns, log>>
        /\ Len(turns) \in Nat /\ Len(log) \in Nat /\ Limit \in Nat \ {0}
    BY TrimEffect, Lengths
  <1>2. Len(turns') <= Len(log') /\ Aligned' /\ Whole' = Whole
    BY <1>1 DEF Aligned, Whole
  <1>3. /\ Remembering' \subseteq Remembering
        /\ \A x \in Remembering' : req'[x].racing = req[x].racing
    BY <1>1, TrimEffect DEF Remembering
  <1>4. MeetAndRace'
    BY <1>3 DEF MeetAndRace
  <1>5. Undisturbed' /\ SeenFits'
    BY <1>1, TrimEffect DEF Undisturbed, SeenFits
  <1>6. TearsLater'
    <2> SUFFICES ASSUME Whole, NEW x \in Requests, Racing(x)'
                 PROVE  \E y \in Requests : req'[y].pc = "append" /\ req'[y].racing
      BY <1>2 DEF TearsLater
    <2>1. Racing(x)
      BY <1>3 DEF Racing
    <2>2. PICK y \in Requests : req[y].pc = "append" /\ req[y].racing
      BY <2>1 DEF TearsLater
    <2> QED BY <1>1, <2>2
  <1>7. Complete'
    <2> SUFFICES ASSUME Whole, \A x \in Requests : ~Racing(x)'
                 PROVE  \/ Len(turns) = Kept(Len(log))
                        \/ /\ Len(turns) = Limit + 1
                           /\ \E x \in Requests : req'[x].pc \in {"trim", "cut"}
      BY <1>1, <1>2 DEF Complete, Kept
    <2>1. \A x \in Requests : ~Racing(x)
      <3> SUFFICES ASSUME NEW x \in Requests, Racing(x) PROVE FALSE
        OBVIOUS
      <3>1. PICK y \in Requests : req[y].pc = "append" /\ req[y].racing
        BY DEF TearsLater
      <3>2. y # r /\ Racing(y)'
        BY <1>1, <3>1 DEF Racing, Remembering
      <3> QED BY <3>2
    <2>2. Len(turns) = Kept(Len(log)) \/ Len(turns) = Limit + 1
      BY <2>1 DEF Complete
    <2>3. Len(turns) = Limit + 1 => req'[r].pc = "cut"
      BY <1>1, TrimEffect
    <2> QED BY <2>2, <2>3
  <1> QED BY <1>2, <1>4, <1>5, <1>6, <1>7

(* The cut. *)
LEMMA CutHistory ==
    ASSUME ServerInv, HistoryInv, NEW r \in Requests, RememberCut(r)
    PROVE  HistoryInv'
PROOF
  <1> USE DEF HistoryInv
  <1> DEFINE s == req[r].seen
  <1>1. /\ s \in Seq(Turns) /\ Len(s) \in Nat /\ Len(s) <= Len(log) /\ Len(s) > Limit
        /\ Len(log) \in Nat /\ Limit \in Nat \ {0} /\ log' = log
        /\ Len(turns') = Limit
        /\ req[r].pc = "cut" /\ req'[r].pc = "done"
        /\ \A x \in Requests \ {r} : req'[x] = req[x]
        /\ req[r].racing \in BOOLEAN
    BY CutEffect, Lengths DEF SeenFits
  <1>2. Len(turns') <= Len(log') /\ Len(turns') = Kept(Len(log'))
    BY <1>1 DEF Kept
  <1>3. /\ Remembering' = Remembering \ {r} /\ r \in Remembering
        /\ \A x \in Remembering \ {r} : req'[x].racing = req[x].racing
    BY <1>1 DEF Remembering
  <1>4. MeetAndRace' /\ SeenFits'
    <2>1. MeetAndRace'
      BY <1>3 DEF MeetAndRace
    <2>2. SeenFits'
      <3> SUFFICES ASSUME NEW x \in Requests, req'[x].pc \in {"append", "cut"}
                   PROVE  Len(req'[x].seen) <= Len(log')
        BY DEF SeenFits
      <3>1. req'[x] = req[x] /\ Len(req[x].seen) <= Len(log)
        BY <1>1 DEF SeenFits
      <3> QED BY <1>1, <3>1
    <2> QED BY <2>1, <2>2
  <1>5. Undisturbed'
    <2> SUFFICES ASSUME NEW x \in Requests, req'[x].pc \in {"append", "cut"}, ~req'[x].racing
                 PROVE  FALSE
      BY DEF Undisturbed
    <2>1. x # r /\ req'[x] = req[x] /\ x \in Remembering
      BY <1>1 DEF Remembering
    <2> QED BY <1>3, <2>1 DEF MeetAndRace
  <1>6. Complete'
    BY <1>2 DEF Complete, Kept
  <1>7. CASE req[r].racing
    <2>1. \A i \in 1..Len(turns') : turns'[i] = Torn
      BY <1>7, CutEffect
    <2>2. Aligned' /\ ~Whole'
      BY <1>1, <2>1 DEF Aligned, Whole
    <2> QED BY <1>2, <1>4, <1>5, <1>6, <2>2 DEF TearsLater
  <1>8. CASE ~req[r].racing
    <2>1. s = turns /\ \A i \in 1..Limit : turns'[i] = s[Len(s) - Limit + i]
      BY <1>1, <1>8, CutEffect DEF Undisturbed
    <2>2. Aligned'
      <3> SUFFICES ASSUME NEW i \in 1..Limit, turns'[i] # Torn
                   PROVE  turns'[i] = log'[Len(log') - Limit + i]
        BY <1>1 DEF Aligned
      <3> DEFINE j == Len(s) - Limit + i
      <3>1. j \in 1..Len(turns) /\ Len(log) - Len(turns) + j = Len(log) - Limit + i
        BY <1>1, <2>1
      <3>2. turns'[i] = turns[j]
        BY <2>1
      <3> HIDE DEF j
      <3>3. turns[j] = log[Len(log) - Len(turns) + j]
        BY <3>1, <3>2 DEF Aligned
      <3> QED BY <1>1, <3>1, <3>2, <3>3
    <2>3. \A x \in Requests : ~Racing(x)'
      BY <1>1, <1>3, <1>8 DEF Racing, MeetAndRace
    <2> QED BY <1>2, <1>4, <1>5, <1>6, <2>2, <2>3 DEF TearsLater
  <1> QED BY <1>1, <1>7, <1>8

LEMMA StepHistory == ServerInv /\ HistoryInv /\ [Next]_vars => HistoryInv'
PROOF
  <1> SUFFICES ASSUME ServerInv, HistoryInv, [Next]_vars PROVE HistoryInv'
    OBVIOUS
  <1>1. CASE ~\E r \in Requests :
                 RememberRead(r) \/ RememberAppend(r) \/ RememberTrim(r) \/ RememberCut(r)
    <2>1. /\ UNCHANGED <<turns, log>>
          /\ \A x \in Requests :
                \/ req'[x] = req[x]
                \/ req[x].pc \notin InRemember /\ req'[x].pc \notin InRemember
      BY <1>1, OtherSteps
    <2>2. /\ Remembering' = Remembering
          /\ \A x \in Requests : Racing(x)' = Racing(x)
          /\ Whole' = Whole
      BY <2>1 DEF Remembering, Racing, Whole, InRemember
    <2>3. MeetAndRace'
      BY <2>1, <2>2 DEF HistoryInv, MeetAndRace, Remembering, InRemember
    <2>4. Undisturbed' /\ SeenFits'
      BY <2>1 DEF HistoryInv, Undisturbed, SeenFits, InRemember
    <2>5. Len(turns') <= Len(log') /\ Aligned'
      BY <2>1 DEF HistoryInv, Aligned
    <2>6. \A x \in Requests : req[x].pc \in InRemember => req'[x] = req[x]
      BY <2>1
    <2>7. TearsLater'
      <3> SUFFICES ASSUME Whole, NEW x \in Requests, Racing(x)
                   PROVE  \E y \in Requests : req'[y].pc = "append" /\ req'[y].racing
        BY <2>2 DEF TearsLater
      <3>1. PICK y \in Requests : req[y].pc = "append" /\ req[y].racing
        BY DEF HistoryInv, TearsLater
      <3> QED BY <2>6, <3>1 DEF InRemember
    <2>8. Complete'
      <3> SUFFICES ASSUME Whole, \A x \in Requests : ~Racing(x)
                   PROVE  \/ Len(turns) = Kept(Len(log))
                          \/ /\ Len(turns) = Limit + 1
                             /\ \E x \in Requests : req'[x].pc \in {"trim", "cut"}
        BY <2>1, <2>2 DEF Complete, Kept
      <3>1. CASE Len(turns) = Kept(Len(log))
        BY <3>1
      <3>2. CASE Len(turns) # Kept(Len(log))
        <4>1. Len(turns) = Limit + 1 /\ \E x \in Requests : req[x].pc \in {"trim", "cut"}
          BY <3>2 DEF HistoryInv, Complete
        <4>2. PICK x \in Requests : req[x].pc \in {"trim", "cut"}
          BY <4>1
        <4>3. req'[x] = req[x]
          BY <2>6, <4>2 DEF InRemember
        <4> QED BY <4>1, <4>2, <4>3
      <3> QED BY <3>1, <3>2
    <2> QED BY <2>3, <2>4, <2>5, <2>7, <2>8 DEF HistoryInv
  <1> QED BY <1>1, ReadHistory, AppendHistory, TrimHistory, CutHistory

(* For any number of requests, however they overlap, and every mixture of  *)
(* small talk, cached answers and failures in between, the memory is the   *)
(* end of the history but for what a race has torn; and once what is torn  *)
(* is trimmed away, none of the last Limit turns is missing.               *)
THEOREM MemoryIsHistoryAlways == Spec => []MemoryIsHistory
PROOF
  <1>1. Init => HistoryInv
    <2> SUFFICES ASSUME Init PROVE HistoryInv
      OBVIOUS
    <2>1. /\ turns = << >> /\ log = << >> /\ Limit \in Nat \ {0}
          /\ \A r \in Requests : req[r].pc = "idle"
      BY ServerAssumption DEF Init, Idle
    <2>2. Remembering = {}
      BY <2>1 DEF Remembering
    <2> QED BY <2>1, <2>2 DEF HistoryInv, MeetAndRace, Undisturbed, SeenFits, Aligned, TearsLater,
                              Racing, Complete, Kept
  <1>2. ServerInv /\ HistoryInv => MemoryIsHistory
    <2> SUFFICES ASSUME ServerInv, HistoryInv PROVE MemoryIsHistory
      OBVIOUS
    <2>1. turns \in Seq(Turns) /\ DOMAIN turns = 1..Len(turns)
      BY Lengths
    <2>2. ASSUME Remembering = {}, Torn \notin Range(turns)
          PROVE  Len(turns) = IF Len(log) < Limit THEN Len(log) ELSE Limit
      <3>1. Whole
        BY <2>1, <2>2 DEF Whole, Range
      <3>2. \A r \in Requests : ~Racing(r) /\ req[r].pc \notin {"trim", "cut"}
        BY <2>2 DEF Racing, Remembering
      <3> QED BY <3>1, <3>2 DEF HistoryInv, Complete, Kept
    <2> QED BY <2>1, <2>2 DEF MemoryIsHistory, HistoryInv, Aligned
  <1>3. ServerInv /\ HistoryInv /\ [Next]_vars => HistoryInv'
    BY StepHistory
  <1> QED BY <1>1, <1>2, <1>3, InitServerInv, StepServerInv, PTL DEF Spec
=============================================================================
