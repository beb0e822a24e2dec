--------------------------- MODULE MCAnswerCache ---------------------------
(* The cache of api/cache.go with two places for four keys. *)
EXTENDS AnswerCacheHistory

CONSTANTS k1, k2, k3, k4, a1, a2

MCKeys == {k1, k2, k3, k4}
MCAnswers == {a1, a2}
MCSymmetry == Permutations(MCKeys) \cup Permutations(MCAnswers)
=============================================================================
