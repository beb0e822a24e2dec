----------------------------- MODULE MCTrainer -----------------------------
(* The trainer with two questions, and a file that starts with a fact.     *)
EXTENDS Trainer, TLC

CONSTANTS q1, q2, a1

MCQuestions == {q1, q2}
MCAnswer == {a1}
WithFact == q1 :> a1
=============================================================================
