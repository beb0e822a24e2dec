---------------------------- MODULE AnswerCache ----------------------------
(***************************************************************************)
(* api/cache.go: the answer cache of the HTTP server.  `values` is the map *)
(* of the struct and `order` its list of keys, the least recently used     *)
(* first.  Both methods hold the mutex from their first line to their last *)
(* one, so that each of them is one action.                                *)
(***************************************************************************)
EXTENDS Integers, SequencesExt

CONSTANTS
    Keys,       \* the cache keys: a question and a model file time
    Answers,    \* the answerResponse values
    NoAnswer,   \* the zero answerResponse that a miss returns
    Capacity    \* defaultCacheCapacity

ASSUME CacheAssumption ==
    /\ Capacity \in Nat \ {0}
    /\ NoAnswer \notin Answers

VARIABLES values, order
vars == <<values, order>>

Init == values = << >> /\ order = << >>

-----------------------------------------------------------------------------
(* What get returns; NoAnswer is its `false`. *)
Lookup(key) == IF key \in DOMAIN values THEN values[key] ELSE NoAnswer

(* touch: the first occurrence of the key goes to the end of the order. *)
TouchWithoutRemoving(key) == Append(order, key)
Touch(key) == Append(RemoveFirst(order, key), key)

(* The values without those of the keys in S, and with a value for key. *)
Store(S, key, value) ==
    [k \in (DOMAIN values \ S) \cup {key} |-> IF k = key THEN value ELSE values[k]]

(* get: a hit makes the key the most recent one, a miss changes nothing. *)
GetStoringMiss(key) ==
    /\ values' = Store({}, key, Lookup(key))
    /\ order' = Touch(key)
GetWithoutTouch(key) == UNCHANGED vars
Get(key) ==
    /\ order' = IF key \in DOMAIN values THEN Touch(key) ELSE order
    /\ UNCHANGED values

(* set of a key that is there: the value is replaced, the key touched. *)
Overwrite(key, value) ==
    /\ key \in DOMAIN values
    /\ values' = [values EXCEPT ![key] = value]
    /\ order' = Touch(key)

(* set of a new key: a full cache first drops the head of the order. *)
InsertLate(key, value) ==
    /\ key \notin DOMAIN values
    /\ IF Cardinality(DOMAIN values) > Capacity
       THEN values' = Store({Head(order)}, key, value) /\ order' = Append(Tail(order), key)
       ELSE values' = Store({}, key, value) /\ order' = Append(order, key)
Insert(key, value) ==
    /\ key \notin DOMAIN values
    /\ IF Cardinality(DOMAIN values) >= Capacity
       THEN values' = Store({Head(order)}, key, value) /\ order' = Append(Tail(order), key)
       ELSE values' = Store({}, key, value) /\ order' = Append(order, key)

Set(key, value) == Overwrite(key, value) \/ Insert(key, value)

Next ==
    \/ \E key \in Keys : Get(key)
    \/ \E key \in Keys, value \in Answers : Set(key, value)

Spec == Init /\ [][Next]_vars

-----------------------------------------------------------------------------
(* Every stored value is an answer, never the zero value of a miss. *)
TypeOK ==
    /\ DOMAIN values \subseteq Keys
    /\ \A key \in DOMAIN values : values[key] \in Answers
    /\ order \in Seq(Keys)

(* The map and the list of keys, which get and set change separately, stay *)
(* in step: every stored key is in the list exactly once, and nothing else *)
(* is.  A key left in the list would make a later eviction delete nothing  *)
(* and let the map grow; a key that is not in it could never be evicted.   *)
OrderTracksValues ==
    /\ ToSet(order) = DOMAIN values
    /\ IsInjective(order)

(* The cache never holds more than `capacity` answers. *)
Bounded == Cardinality(DOMAIN values) <= Capacity
=============================================================================
