------------------------- MODULE AnswerCacheHistory -------------------------
(***************************************************************************)
(* The answer cache with two more variables: `reply`, what its caller got, *)
(* and the history variable `evicted`, the entries that were dropped and   *)
(* not stored again, the latest drop last.  With them the cache implements *)
(* RecentAnswers.                                                          *)
(***************************************************************************)
EXTENDS AnswerCache

VARIABLES reply, evicted
historyVars == <<values, order, reply, evicted>>

HInit == Init /\ reply = NoAnswer /\ evicted = << >>

Entry(key) == [key |-> key, value |-> values[key]]
ListedEntries == [i \in DOMAIN order |-> Entry(order[i])]

Recent == INSTANCE RecentAnswers WITH recent <- evicted \o ListedEntries

HGet(key) ==
    /\ Get(key)
    /\ reply' = Lookup(key)
    /\ UNCHANGED evicted

HSet(key, value) ==
    /\ Set(key, value)
    /\ reply' = NoAnswer
    /\ evicted' = IF DOMAIN values \subseteq DOMAIN values'
                  THEN Recent!Without(evicted, key)
                  ELSE Recent!Without(Append(evicted, Entry(Head(order))), key)

HNext ==
    \/ \E key \in Keys : HGet(key)
    \/ \E key \in Keys, value \in Answers : HSet(key, value)

HSpec == HInit /\ [][HNext]_historyVars

(* The mutex-protected pair of map and list is a least-recently-used cache *)
(* (api/cache.go:21-59): every get answers what the abstract one answers.  *)
LeastRecentlyUsed == Recent!Spec
=============================================================================
