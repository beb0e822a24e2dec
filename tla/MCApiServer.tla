---------------------------- MODULE MCApiServer ----------------------------
(* The server with a few requests in flight and one question of each kind. *)
EXTENDS ApiServer

CONSTANTS r1, r2, r3, plain, unknown, short, again, hello, ama, myname, revenue, which

ThreeRequests == {r1, r2, r3}
FewQuestions == {plain, short}
TalkQuestions == {unknown, short, again, hello, ama, myname, revenue, which}
SomeKnown == {plain} \cap Questions
SomeRepeats == {again} \cap Questions
SomeChats == {hello} \cap Questions
SomeTells == {ama} \cap Questions
SomeRecalls == {myname} \cap Questions
SomeFollowUps == {short, again} \cap Questions
SomeSchema == {which} \cap Questions
SomeData == {revenue} \cap Questions
NoQuestions == {}
MCSymmetry == Permutations(Requests)
=============================================================================
