---------------------------- MODULE MCAssistant ----------------------------
(* Two business tables and one of the system, three questions, and the     *)
(* settings that decide about a connection.                                *)
EXTENDS Assistant, TLC

Staff == [name |-> "staff_id", type |-> {"numeric"}, words |-> {"staff", "id"}, ends |-> "_id"]
Day == [name |-> "absence_date", type |-> {"temporal"}, words |-> {"absence", "date"}, ends |-> ""]
Status == [name |-> "status", type |-> {"text"}, words |-> {"status"}, ends |-> ""]
PaidAt == [name |-> "paid_at", type |-> {"temporal"}, words |-> {"paid", "id", "_at"}, ends |-> "_at"]
Amount == [name |-> "amount", type |-> {"numeric"}, words |-> {"amount"}, ends |-> ""]

MCTables ==
    <<[words |-> {"attendance"}, system |-> FALSE],
      [words |-> {"payment"}, system |-> FALSE],
      [words |-> {}, system |-> TRUE]>>
MCSchema == <<<<Staff, Day>>, <<PaidAt, Amount>>, << >>>>
MCColumns == {Staff, Day, Status, PaidAt, Amount}
MCExtra == {Status}

Plurals == [payments |-> "payment"]
MCSingular(term) == IF term \in DOMAIN Plurals THEN Plurals[term] ELSE term
MCQuestions ==
    {[phrases |-> {"how many", "absent"}, words |-> <<"how", "many", "staff", "absent">>],
     [phrases |-> {"how many", "payment"}, words |-> <<"how", "many", "payments">>],
     [phrases |-> {"how much", "money"}, words |-> <<"how", "much", "money">>]}

MCNumbers == "0" :> 0 @@ "65535" :> 65535 @@ "65536" :> 65536
NoSettings == [key \in {} |-> ""]
Setting(key, values) == {NoSettings} \cup {key :> value : value \in values}
MCEnvironments ==
    {provider @@ mode @@ port @@ place :
        provider \in Setting("PROVIDER", {"", "mysql", "postgres", "mongodb", "cassandra", "oracle"}),
        mode \in Setting("READ_ONLY", {"", "true", "0", "maybe"}),
        port \in Setting("PORT", DOMAIN MCNumbers),
        place \in {NoSettings, "URL" :> "u", "HOST" :> "h" @@ "DATABASE" :> "d"}}
Entry(key, value) == [key |-> key, value |-> value]
MCDotEnvs ==
    SeqOf({Malformed, Entry("PROVIDER", "postgres"), Entry("READ_ONLY", "false"),
           Entry("READ_ONLY", "1"), Entry("PORT", "65535")}, 2)
=============================================================================
