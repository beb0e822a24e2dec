----------------------------- MODULE MCWatcher -----------------------------
(* The two processes with one question and a file with a fact for it. *)
EXTENDS Watcher, TLC

CONSTANTS q1, a1

MCQuestions == {q1}
MCAnswers == {a1}
WithFact == q1 :> a1
=============================================================================
