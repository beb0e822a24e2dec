----------------------------- MODULE MCRouting -----------------------------
(* Two tables whose columns come and go, a question of each kind, facts    *)
(* that share words.                                                       *)
EXTENDS Routing

Plurals == [payments |-> "payment", orders |-> "order", does |-> "doe"]
MCSingular(term) == IF term \in DOMAIN Plurals THEN Plurals[term] ELSE term
MCContent(word) ==
    word \notin {"do", "how", "of", "in", "is", "the", "we", "what", "which", "have", "was"}

HowManyStaff == [phrases |-> {"how many"},
                 words |-> <<"how", "many", "staff", "do", "we", "have">>]
HowMuch == [phrases |-> {"how much", "money"}, words |-> <<"how", "much", "money">>]
WhoWasAbsent == [phrases |-> {"absent"}, words |-> <<"which", "staff", "was", "absent">>]
WhatIsAKey == [phrases |-> {"primary key"}, words |-> <<"what", "is", "primary", "key">>]
Plain(words) == [phrases |-> {}, words |-> words]
OfGhana == Plain(<<"capital", "of", "ghana">>)
GhanaOf == Plain(<<"ghana", "of", "capital">>)
OfTogo == Plain(<<"capital", "of", "togo">>)
City == Plain(<<"city">>)
TheCity == Plain(<<"capital", "city", "of", "ghana">>)
Capital == Plain(<<"the", "capital">>)

MCTeachable == {OfGhana, GhanaOf, OfTogo, City}
MCDocumented == {Capital}
MCQuestions == MCTeachable \cup {HowManyStaff, HowMuch, WhoWasAbsent, WhatIsAKey, TheCity, Capital}
MCCorrections == {"accra", "lome"}

MCTables ==
    <<[name |-> "attendance", words |-> {"attendance"}],
      [name |-> "vendors", words |-> {"do"}]>>
MCColumns ==
    {[name |-> "absence_date", type |-> {"temporal"}, words |-> {"absence", "date"}, ends |-> ""],
     [name |-> "staff_id", type |-> {"numeric"}, words |-> {"staff"}, ends |-> "_id"],
     [name |-> "rating", type |-> {"numeric"}, words |-> {}, ends |-> ""],
     [name |-> "paid_at", type |-> {"text"}, words |-> {"_at"}, ends |-> "_at"],
     [name |-> "amount", type |-> {"numeric"}, words |-> {"amount"}, ends |-> ""],
     [name |-> "status", type |-> {"text"}, words |-> {"status"}, ends |-> ""]}
=============================================================================
