----------------------------- MODULE Documents -----------------------------
(***************************************************************************)
(* pipeline/pipeline.go, and trainFrom and TrainTexts, which use it: from  *)
(* the files of a folder to the texts a model is trained from.             *)
(*                                                                         *)
(* A text is the sequence of its sentences, a sentence the sequence of its *)
(* tokens; << >> is the blank text, Marks one with signs but no tokens.    *)
(* Texts joined by ". " stay sentences of their own.  The keys of JSON are *)
(* in lower case.  Go iterates over the members of an object in any order: *)
(* a reader gives the set of what may come out, the empty set for an error.*)
(***************************************************************************)
EXTENDS Integers, SequencesExt

CONSTANTS
    Values,     \* the JSON values in the files, with the values in them
    Depth,      \* how deep each of them is nested
    Places      \* how many places for files a folder has, in the order of the walk

Texts == Seq(Seq(STRING))

(* A JSON text is finite: what is in a value is nested less deep. *)
ASSUME DocumentsAssumption ==
    /\ Places \in Nat /\ Depth \in [Values -> Nat]
    /\ \A value \in Values :
        /\ value.kind = "string" => value.text \in Texts
        /\ value.kind = "array" =>
            /\ value.items \in Seq(Values)
            /\ \A item \in Range(value.items) : Depth[item] < Depth[value]
        /\ value.kind = "object" =>
            /\ IsFiniteSet(DOMAIN value.entries) /\ DOMAIN value.entries \subseteq STRING
            /\ value.entries \in [DOMAIN value.entries -> Values]
            /\ \A entry \in Range(value.entries) : Depth[entry] < Depth[value]

(* What there is of a file, by its extension; `live` is that of the catalog*)
(* of a database.                                                          *)
IsFile(file) ==
    /\ file.live \in BOOLEAN
    /\ file.format = "text" => file.content \in Texts
    /\ file.format = "json" => file.content \in Values
    /\ file.format = "csv" => file.content \in Seq(Seq(Texts))

-----------------------------------------------------------------------------
(* The loop that appends those elements of s that are in S. *)
Only(s, S) ==
    LET kept[n \in 0..Len(s)] ==
            IF n = 0 THEN << >>
            ELSE IF s[n] \in S THEN Append(kept[n - 1], s[n]) ELSE kept[n - 1]
    IN  kept[Len(s)]

Marks == << << >> >>
Nonblank(texts) == Only(texts, Range(texts) \ {<< >>})
UntilBlank(texts) ==
    LET blank == {k \in DOMAIN texts : texts[k] = << >>} IN
    IF blank = {} THEN texts
    ELSE SubSeq(texts, 1, (CHOOSE k \in blank : \A j \in blank : k <= j) - 1)

(* Outcomes of one after the other, and of a set in any order. *)
InTurn(outcomes) ==
    LET done[n \in 0..Len(outcomes)] ==
            IF n = 0 THEN {<< >>} ELSE {d \o e : d \in done[n - 1], e \in outcomes[n]}
    IN  done[Len(outcomes)]
InAnyOrder(outcomes) ==
    UNION {InTurn([k \in DOMAIN order |-> outcomes[order[k]]]) :
              order \in SetToSeqs(DOMAIN outcomes)}

-----------------------------------------------------------------------------
(* JSON: the strings in a value, those of a subject first, labels left out.*)
Labels == {"subject", "name", "title", "topic"}
collectStrings[value \in Values] ==
    IF value.kind = "string" THEN {<<value.text>>}
    ELSE IF value.kind = "array"
         THEN InTurn([k \in DOMAIN value.items |-> collectStrings[value.items[k]]])
    ELSE IF value.kind = "object"
         THEN LET of(keys) == [key \in DOMAIN value.entries \cap keys |->
                                  collectStrings[value.entries[key]]]
              IN  InTurn(<<InAnyOrder(of({"subject"})),
                           InAnyOrder(of(DOMAIN value.entries \ Labels))>>)
    ELSE {<< >>}

(* The texts of foreign keys, each after its key, as words. *)
collectLabeledStrings[value \in Values] ==
    IF value.kind = "string" THEN {FlattenSeq(value.text)}
    ELSE IF value.kind = "array"
         THEN InTurn([k \in DOMAIN value.items |-> collectLabeledStrings[value.items[k]]])
    ELSE IF value.kind = "object"
         THEN InAnyOrder([key \in DOMAIN value.entries |->
                  LET nested == value.entries[key] IN
                  IF nested.kind = "string" THEN {<<key>> \o FlattenSeq(nested.text)}
                  ELSE collectLabeledStrings[nested]])
    ELSE {<< >>}

mapString(item, keys) ==
    LET texts == {key \in DOMAIN item.entries : item.entries[key].kind = "string"}
        found == Only(keys, texts)
    IN  IF found = << >> THEN << >> ELSE FlattenSeq(item.entries[Head(found)].text)

ArrayAt(item, key) ==
    IF key \in DOMAIN item.entries /\ item.entries[key].kind = "array"
    THEN <<item.entries[key]>> ELSE << >>

Named(label, words) == IF words = << >> THEN << >> ELSE <<label>> \o words

(* A table or a collection: one sentence, or no document. *)
columnWords(field) ==
    LET name == IF field.kind = "object" THEN mapString(field, <<"name", "path">>) ELSE << >> IN
    IF name = << >> THEN << >> ELSE name \o mapString(field, <<"type">>)
catalogItemDocument(item, label) ==
    IF item.kind # "object" THEN {<< >>}
    ELSE LET columns(entries) ==
                 <<"columns">> \o FlattenSeq([k \in DOMAIN entries.items |->
                                                 columnWords(entries.items[k])])
             listed == ArrayAt(item, "columns") \o ArrayAt(item, "fields")
             keys == ArrayAt(item, "foreign_keys")
             head == Named(label, mapString(item, <<"name">>))
                       \o Named("schema", mapString(item, <<"schema">>))
                       \o FlattenSeq([k \in DOMAIN listed |-> columns(listed[k])])
             words == InTurn(<<{head}>> \o [k \in DOMAIN keys |->
                          {<<"relationships">> \o w : w \in collectLabeledStrings[keys[k]]}])
         IN  {IF w = << >> THEN << >> ELSE <<<<w>>>> : w \in words}

readCatalogJSON(value) ==
    IF value.kind # "object" THEN {<< >>}
    ELSE LET documents(key, label) ==
                 LET lists == ArrayAt(value, key) IN
                 IF lists = << >> THEN {<< >>}
                 ELSE InTurn([k \in DOMAIN lists[1].items |->
                                 catalogItemDocument(lists[1].items[k], label)])
         IN  InTurn(<<documents("tables", "table"), documents("collections", "collection")>>)

(* One document for each item of an array, one for anything else. *)
One(text) == IF text = << >> THEN << >> ELSE <<text>>
itemText(texts) ==
    IF Len(texts) >= 2 /\ Nonblank(texts) = << >> THEN Marks ELSE FlattenSeq(texts)
JoinedUntilBlank(texts) == FlattenSeq(UntilBlank(texts))
Joined(texts) == FlattenSeq(Nonblank(texts))
readJSON(value) ==
    IF readCatalogJSON(value) # {<< >>} THEN readCatalogJSON(value)
    ELSE IF value.kind = "array" THEN
        InTurn([k \in DOMAIN value.items |->
                   {One(itemText(texts)) : texts \in collectStrings[value.items[k]]}])
    ELSE {One(Joined(texts)) : texts \in collectStrings[value]}

-----------------------------------------------------------------------------
(* CSV: a row is joined by ": ", of which a row of empty cells keeps the   *)
(* colons; of topic and explanation the explanation is kept alone.  Rows   *)
(* of different length are an error.                                       *)
Beside(text, cell) ==
    Front(text) \o <<Last(text) \o Head(cell)>> \o Tail(cell)
rowText(row) ==
    LET full == Nonblank(row)
        beside[n \in 0..Len(full)] ==
            IF n = 0 THEN Marks ELSE Beside(beside[n - 1], full[n])
    IN  IF full = << >> /\ Len(row) < 2 THEN << >> ELSE beside[Len(full)]
Explains(rows) ==
    /\ rows # << >> /\ Len(rows[1]) >= 2
    /\ rows[1][1] = <<<<"topic">>>> /\ rows[1][2] = <<<<"explanation">>>>
readCSV(rows) ==
    IF \E k \in DOMAIN rows : Len(rows[k]) # Len(rows[1]) THEN {}
    ELSE {Nonblank(IF Explains(rows) THEN [k \in DOMAIN Tail(rows) |-> rows[k + 1][2]]
                   ELSE [k \in DOMAIN rows |-> rowText(rows[k])])}

Read(file) ==
    CASE file.format = "text" -> {One(file.content)}
      [] file.format = "json" -> readJSON(file.content)
      [] file.format = "csv" -> readCSV(file.content)
      [] file.format = "broken" -> {}
      [] OTHER -> {<< >>}

(* Pipeline.Load: the files by their places in the order of the walk; one  *)
(* that cannot be read, or no document at all, is an error.                *)
Load(folder) ==
    LET documents(file) == {[k \in DOMAIN texts |-> [live |-> file.live, text |-> texts[k]]] :
                               texts \in Read(file)}
    IN  InTurn([place \in 1..Places |->
                   IF place \in DOMAIN folder THEN documents(folder[place]) ELSE {<< >>}])
            \ {<< >>}

(* trainFrom: without the live catalogs, of which nothing may be left. *)
trainFromAll(folder) ==
    {[k \in DOMAIN documents |-> documents[k].text] : documents \in Load(folder)}
trainFrom(folder) ==
    LET texts(documents) ==
            LET kept == Only(documents, {d \in Range(documents) : ~d.live}) IN
            [k \in DOMAIN kept |-> kept[k].text]
    IN  {texts(documents) : documents \in Load(folder)} \ {<< >>}
=============================================================================
