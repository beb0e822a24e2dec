----------------------------- MODULE Retrieval -----------------------------
(***************************************************************************)
(* How a trained model answers from its documents: embedding.go,           *)
(* AnswerResult of model/trained.go and Format of response.go.  Facts come *)
(* first, as in FactStore.tla; the knowledge record is left out, for it is *)
(* empty in every file the program writes.                                 *)
(*                                                                         *)
(* Scores are counted in thousandths, rounded down.  A wording of which    *)
(* only the tokens matter is a set of them.                                *)
(***************************************************************************)
EXTENDS Documents, FactStore

CONSTANTS
    Long(_),    \* a token of more than two letters
    Stop,       \* embedding.stopWords
    Parts(_),   \* the search terms that occur in a token
    Versions    \* paraphrase: the sentences it knows, each with three versions

(* The tokens are numbered among their likes, as in a key; so many are the *)
(* pairs of likes as the products of their counts add up to.               *)
Embed(words) == {token \in factKey(words) : Long(token[1]) /\ token[1] \notin Stop}
Words(vector) == {token[1] : token \in vector}
Dot(left, right) == Cardinality({p \in left \X right : p[1][1] = p[2][1]})
Cosine(left, right) ==
    LET dot == Dot(left, right)
        magnitude == Dot(left, left) * Dot(right, right)
    IN  IF dot = 0 THEN 0
        ELSE CHOOSE c \in 0..1000 : /\ c * c * magnitude <= 1000000 * dot * dot
                                    /\ \/ c = 1000
                                       \/ (c + 1) * (c + 1) * magnitude > 1000000 * dot * dot

(* strings.Contains, for a phrase of one token or more. *)
Occurs(phrase, words) ==
    \E k \in 0..(Len(words) - Len(phrase)) :
        \A i \in DOMAIN phrase : phrase[i] \in Parts(words[k + i])
OccursIn(phrase, text) == \E k \in DOMAIN text : Occurs(phrase, text[k])

Phrases ==
    {<<"information", "schema">>, <<"window", "function">>, <<"primary", "key">>,
     <<"foreign", "key">>, <<"inner", "join">>, <<"left", "join">>,
     <<"common", "table", "expression">>, <<"query", "plan">>, <<"join">>, <<"joins">>}

(* " table" and " column" do not begin the question.  The boosts for       *)
(* columns and relationships are given once for each token that is asked.  *)
Later(phrase, words) == words # << >> /\ Occurs(phrase, Tail(words))
candidateScore(question, text) ==
    LET query == Embed(question)
        shared == {p \in Phrases : Occurs(p, question) /\ OccursIn(p, text)}
        begun == {w \in Words(query) : IsPrefix(<<"table", w>>, Head(text))}
        listed == Later(<<"column">>, question) /\ OccursIn(<<"columns">>, text)
        linked == Occurs(<<"related">>, question) /\ OccursIn(<<"relationships">>, text)
    IN  Cosine(query, Embed(FlattenSeq(text)))
            + 1000 * Cardinality(shared)
            + (IF Later(<<"table">>, question) THEN 1000 * Cardinality(begun) ELSE 0)
            + Cardinality(Words(query)) * ((IF listed THEN 250 ELSE 0) + (IF linked THEN 250 ELSE 0))

(* The loop over the candidates: the first of those with the highest score;*)
(* its place is kept beside it, 1 (0 in Go) if no score is positive.       *)
NoCandidate == [text |-> << >>, place |-> 1, score |-> 0]
bestWithoutPlace(question, candidates) ==
    LET best[n \in 0..Len(candidates)] ==
            IF n = 0 THEN NoCandidate
            ELSE LET score == candidateScore(question, candidates[n])
                     last == best[n - 1]
                 IN  IF score > last.score
                     THEN [text |-> candidates[n], place |-> last.place, score |-> score] ELSE last
    IN  best[Len(candidates)]
bestCandidate(question, candidates) ==
    LET best[n \in 0..Len(candidates)] ==
            IF n = 0 THEN NoCandidate
            ELSE LET score == candidateScore(question, candidates[n])
                     last == best[n - 1]
                 IN  IF score > last.score
                     THEN [text |-> candidates[n], place |-> n, score |-> score] ELSE last
    IN  best[Len(candidates)]

-----------------------------------------------------------------------------
(* response.Format. *)
Overlap(question, sentence) ==
    Cardinality({k \in DOMAIN question : Long(question[k]) /\ question[k] \in Range(sentence)})
Brief(sentence) == Len(sentence) <= 3

(* bestSentences: a heading of three words or fewer is passed over if there*)
(* is anything longer; the next sentence is added if it is related.        *)
relatedSentences(primary, next) ==
    \/ Cosine(Embed(primary), Embed(next)) >= 200
    \/ Occurs(<<"photosynthesis">>, primary) /\ Occurs(<<"chlorophyll">>, next)

bestFromFirst(question, sentences) ==
    LET skip == \E k \in DOMAIN sentences : ~Brief(sentences[k])
        best[n \in 0..Len(sentences) - 1] ==
            IF n = 0 THEN 1
            ELSE LET last == best[n - 1] IN
                 IF /\ ~(skip /\ Brief(sentences[n + 1]))
                    /\ Overlap(question, sentences[n + 1]) > Overlap(question, sentences[last])
                 THEN n + 1 ELSE last
    IN  best[Len(sentences) - 1]
bestIndex(question, sentences) ==
    LET long == {k \in DOMAIN sentences : ~Brief(sentences[k])}
        skip == long # {}
        start == IF Brief(sentences[1]) /\ skip THEN CHOOSE k \in long : \A j \in long : k <= j
                 ELSE 1
        best[n \in 0..Len(sentences) - 1] ==
            IF n = 0 THEN start
            ELSE LET last == best[n - 1] IN
                 IF /\ ~(skip /\ Brief(sentences[n + 1]))
                    /\ Overlap(question, sentences[n + 1]) > Overlap(question, sentences[last])
                 THEN n + 1 ELSE last
    IN  best[Len(sentences) - 1]

bestSentences(question, sentences) ==
    LET best == bestIndex(question, sentences) IN
    IF /\ Overlap(question, sentences[best]) > 0 /\ best < Len(sentences)
       /\ relatedSentences(sentences[best], sentences[best + 1])
    THEN <<sentences[best], sentences[best + 1]>> ELSE <<sentences[best]>>

paraphrase(sentence, style) ==
    IF sentence \in DOMAIN Versions THEN Versions[sentence][style] ELSE sentence

(* The wordings, by the tokens that are embedded. *)
Templates ==
    [why |-> <<{"reason", "together", "these", "details", "explain", "process", "matters"},
               {"matters", "because", "taken", "together", "evidence", "shows", "role", "process"},
               {"important", "because", "these", "facts", "connect", "process", "its", "result"}>>,
     how |-> <<{"process", "works", "evidence", "describes", "key", "action"},
               {"works", "following", "way", "evidence", "describes"},
               {"step", "key", "idea", "these", "facts", "show", "process", "works"}>>,
     what |-> <<{"simple", "terms"}, {"put", "simply"}, {"its", "core"}>>,
     other |-> <<{"key", "idea"}, {"one", "useful", "way", "see"}, {"short"}>>,
     bare |-> <<{}, {}, {}>>]

Format(question, text) ==
    LET relevant == bestSentences(question, Nonblank(text))
        asks(intent) == Occurs(<<intent>>, question)
        form(body) ==
            IF Len(body) = 1 /\ Len(body[1]) <= 8 /\ ~asks("why") THEN "bare"
            ELSE IF asks("why") THEN "why"
            ELSE IF asks("how") THEN "how"
            ELSE IF asks("what") THEN "what" ELSE "other"
        reply(body, style) ==
            [body |-> body, tokens |-> Words(Embed(FlattenSeq(body))) \cup Templates[form(body)][style]]
    IN  {reply([k \in DOMAIN relevant |-> paraphrase(relevant[k], style)], style) : style \in 1..3}

-----------------------------------------------------------------------------
(* The evidence is verified by the tokens of question, evidence, answer. *)
verifyEvidence(question, evidence, reply) ==
    LET known == Words(Embed(FlattenSeq(evidence))) IN
    \/ reply.body = evidence
    \/ Words(Embed(question)) \cap known # {} /\ reply.tokens \cap known # {}

NoReply == [body |-> << >>, tokens |-> {}]
Refusal(score) ==
    [fact |-> "", reply |-> NoReply, evidence |-> << >>, confidence |-> score, grounded |-> FALSE]

Shared(question, text) ==
    Cardinality(Words(Embed(question)) \cap Words(Embed(FlattenSeq(text))))
Retrieved(question, candidates) ==
    LET best == bestCandidate(question, candidates)
        shared == Shared(question, candidates[best.place])
    IN  IF best.score < 50 \/ shared = 0 \/ (shared = 1 /\ best.score < 300)
        THEN {Refusal(best.score)}
        ELSE {[fact |-> "", reply |-> reply, evidence |-> best.text, confidence |-> best.score,
               grounded |-> verifyEvidence(question, best.text, reply)] :
                  reply \in Format(question, best.text)}

(* AnswerResult: a fact, if the map gives one; else from the documents. *)
AnswerResult(model, question) ==
    UNION {IF fact = "" THEN Retrieved(question, model.candidates)
           ELSE {[fact |-> fact, reply |-> NoReply, evidence |-> << >>, confidence |-> 1000,
                  grounded |-> TRUE]} : fact \in Fact(model.facts, question)}
=============================================================================
