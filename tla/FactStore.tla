----------------------------- MODULE FactStore -----------------------------
(***************************************************************************)
(* The taught facts of model/trained.go: how Teach files an answer and how *)
(* Fact finds one for a question asked in other words.                     *)
(*                                                                         *)
(* A question is the sequence of its tokens.  factKey sorts them: of a key *)
(* it only matters how often each token is in it.  A key is the set of its *)
(* tokens, each numbered among its likes: <<"very", 1>>, <<"very", 2>>.    *)
(***************************************************************************)
EXTENDS Integers, SequencesExt

CONSTANTS Content(_)    \* a number, or three letters or more and no stop word

factKey(words) ==
    {<<words[i], Cardinality({j \in 1..i : words[j] = words[i]})>> : i \in DOMAIN words}
NoFacts == [key \in {} |-> key]

(* TrainedModel.Teach: an answer given earlier for the same key is         *)
(* replaced.  The prompt hands over no blank question and no blank answer, *)
(* so that its early return is never taken.                                *)
TeachBlank(facts, words, answer) ==
    [key \in DOMAIN facts \cup {factKey(words)} |-> IF key \in DOMAIN facts THEN facts[key] ELSE ""]
TeachOnce(facts, words, answer) ==
    [key \in DOMAIN facts \cup {factKey(words)} |->
        IF key \in DOMAIN facts THEN facts[key] ELSE answer]
TeachFact(facts, words, answer) ==
    [key \in DOMAIN facts \cup {factKey(words)} |->
        IF key = factKey(words) THEN answer ELSE facts[key]]

factContentTokens(key) == {token \in key : Content(token[1])}

(* tokensCoverage: how many tokens that were asked are used up by the fact *)
(* (the share of them, but for the division by their number).              *)
Matched(asked, required) == Cardinality(asked \cap required)

Nothing == [answer |-> "", matched |-> 0, specificity |-> 0, found |-> FALSE]

(* The loop over the map: more coverage wins, then fewer required tokens.  *)
KeepNarrowest(asked, facts, best, key) ==
    LET required == factContentTokens(key)
        specificity == Cardinality(required)
    IN  IF required # {} /\ (~best.found \/ specificity < best.specificity)
        THEN [answer |-> facts[key], matched |-> Matched(asked, required),
              specificity |-> specificity, found |-> TRUE]
        ELSE best
KeepNarrow(asked, facts, best, key) ==
    LET required == factContentTokens(key)
        matched == Matched(asked, required)
        specificity == Cardinality(required)
    IN  IF required # {} /\ (\/ ~best.found
                             \/ matched >= best.matched /\ specificity <= best.specificity)
        THEN [answer |-> facts[key], matched |-> matched, specificity |-> specificity,
              found |-> TRUE]
        ELSE best
KeepBetter(asked, facts, best, key) ==
    LET required == factContentTokens(key)
        matched == Matched(asked, required)
        specificity == Cardinality(required)
    IN  IF required # {} /\ (\/ ~best.found \/ matched > best.matched
                             \/ matched = best.matched /\ specificity < best.specificity)
        THEN [answer |-> facts[key], matched |-> matched, specificity |-> specificity,
              found |-> TRUE]
        ELSE best

(* TrainedModel.Fact: the exact key first; else the best fact that covers  *)
(* 0.6 of what was asked.  Go iterates over the map in any order: every    *)
(* order gives an outcome, "" where there is no fact.                      *)
Fuzzy(facts, words) ==
    LET asked == factContentTokens(factKey(words))
        Outcome(order) ==
            LET best[n \in 0..Len(order)] ==
                    IF n = 0 THEN Nothing ELSE KeepBetter(asked, facts, best[n - 1], order[n])
                last == best[Len(order)]
            IN  IF 10 * last.matched >= 6 * Cardinality(asked) THEN last.answer ELSE ""
    IN  IF asked = {} THEN {""} ELSE {Outcome(order) : order \in SetToSeqs(DOMAIN facts)}

Fact(facts, words) ==
    IF factKey(words) \in DOMAIN facts THEN {facts[factKey(words)]} ELSE Fuzzy(facts, words)
=============================================================================
