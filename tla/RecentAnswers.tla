--------------------------- MODULE RecentAnswers ---------------------------
(***************************************************************************)
(* What the answer cache promises, without saying how: of all answers that *)
(* were ever stored, the ones of the `Capacity` most recently used keys    *)
(* are found again, with the value stored last, and no other one is.       *)
(***************************************************************************)
EXTENDS Integers, SequencesExt

CONSTANTS Keys, Answers, NoAnswer, Capacity

VARIABLES
    recent,     \* all keys ever stored with their answers, the latest use last
    reply       \* what the last operation returned

vars == <<recent, reply>>

Entries == [key : Keys, value : Answers]

(* The entries that are still promised. *)
Kept == {recent[i] : i \in {j \in DOMAIN recent : j > Len(recent) - Capacity}}

(* Every key occurs at most once. *)
Without(entries, key) == RemoveFirstMatch(entries, LAMBDA entry : entry.key = key)
Others(key) == Without(recent, key)

Init == recent = << >> /\ reply = NoAnswer

Find(key) ==
    \E entry \in Kept :
        /\ entry.key = key
        /\ reply' = entry.value
        /\ recent' = Append(Others(key), entry)

Miss(key) ==
    /\ \A entry \in Kept : entry.key # key
    /\ reply' = NoAnswer
    /\ UNCHANGED recent

Put(key, value) ==
    /\ reply' = NoAnswer
    /\ recent' = Append(Others(key), [key |-> key, value |-> value])

Next ==
    \E key \in Keys :
        \/ Find(key)
        \/ Miss(key)
        \/ \E value \in Answers : Put(key, value)

Spec == Init /\ [][Next]_vars
=============================================================================
