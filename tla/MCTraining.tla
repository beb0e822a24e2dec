----------------------------- MODULE MCTraining -----------------------------
(* A text with a heading, JSON of each shape, tables of both kinds and a   *)
(* live catalog; questions that reach the boosts, and some that do not.    *)
EXTENDS Training

MCStop == {"the", "what", "how", "has", "are", "which", "who", "why"}
MCLong(w) == w \notin {"is", "of", "in", "a", "id", "no", "to"}
MCContent(w) == MCLong(w) /\ w \notin MCStop
MCParts(w) ==
    CASE w = "columns" -> {"column", "columns"}
      [] w = "joins" -> {"join", "joins"}
      [] w = "show" -> {"show", "how"}
      [] OTHER -> {w}

Heading == <<"staff", "records">>
Known == <<"the", "staff", "records", "hold", "absence", "dates">>
Next1 == <<"absence", "dates", "count", "the", "days", "of", "leave">>
Trivia == <<"what", "are", "the", "records", "of", "the", "office">>
Join == <<"inner", "join", "of", "payments">>
MCVersions ==
    [s \in {Known} |-> <<Known, <<"absence", "dates", "are", "in", "staff", "records">>,
                         <<"staff", "records", "tell", "the", "absence">>>>]

Notes == <<Heading, Known, Next1>>
Text(text) == [kind |-> "string", text |-> text]
Array(items) == [kind |-> "array", items |-> items]
Object(entries) == [kind |-> "object", entries |-> entries]
Subject == Text(<<<<"payments">>>>)
Lesson == Object([subject |-> Subject, title |-> Text(<<<<"ignored">>>>),
                  first |-> Text(<<Trivia>>), second |-> Text(<<Join>>), third |-> Text(<< >>)])
List == Array(<<Text(<<Join>>), Lesson, Text(<< >>)>>)
Column == Object([name |-> Text(<<<<"staff">>>>), type |-> Text(<<<<"bigint">>>>)])
Keys == Array(<<Object([column |-> Text(<<<<"staff">>>>), table |-> Text(<<<<"office">>>>)])>>)
Table == Object([name |-> Text(<<<<"absence">>>>), columns |-> Array(<<Column>>),
                 foreign_keys |-> Keys])
Catalog == Object([tables |-> Array(<<Table, Text(<<Join>>)>>)])

Parted == {Subject, Lesson, List, Column, Keys, Table, Catalog}
Children(v) ==
    CASE v.kind = "array" -> Range(v.items)
      [] v.kind = "object" -> {v.entries[key] : key \in DOMAIN v.entries}
      [] OTHER -> {}
MCValues ==
    LET one == Parted \cup UNION {Children(v) : v \in Parted} IN
    one \cup UNION {Children(v) : v \in one}

MCDepth[v \in MCValues] ==
    IF Children(v) = {} THEN 0 ELSE 1 + Max({MCDepth[child] : child \in Children(v)})

Cell(word) == <<<<word>>>>
Row == <<Cell("columns"), Cell("days")>>
File(format, content) == [format |-> format, live |-> FALSE, content |-> content]
MCFiles ==
    <<{File("json", Lesson), File("json", List), File("json", Catalog), File("broken", << >>)},
      {[format |-> "json", live |-> TRUE, content |-> Catalog]},
      {File("text", Notes), File("other", << >>)},
      {File("csv", <<<<Cell("topic"), Cell("explanation")>>, <<Cell("leave"), <<Next1>>>>>>),
       File("csv", <<Row, <<Cell("leave"), << >>>>>>), File("csv", <<Row, << << >>, << >> >>>>),
       File("csv", <<Row, <<Cell("days")>>>>)}>>
MCFolder == [p \in {3} |-> File("text", Notes)]
MCModel == [candidates |-> <<Notes>>, facts |-> NoFacts]

MCQuestions ==
    {<<"what", "are", "the", "staff", "records">>,
     <<"show", "the", "column", "of", "table", "absence">>,
     <<"how", "are", "payments", "related", "to", "joins">>,
     <<"why", "leave", "the", "office">>}
MCAnswers == {"yes"}
=============================================================================
