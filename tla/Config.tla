------------------------------- MODULE Config -------------------------------
(***************************************************************************)
(* database/config.go and connection.go: from the environment and the file *)
(* .env to a Config, and from a Config to what a driver is given.  Pure    *)
(* operators; Assistant.tla uses them.                                     *)
(*                                                                         *)
(* An environment is a function from the names that are set to texts.  The *)
(* prefix NYANSAPO_DB_ is left out of the names, a text is already trimmed *)
(* and in lower case (of READ_ONLY, the spellings with capitals that       *)
(* ParseBool refuses, such as "tRUE", are left out), and user and password *)
(* go with the other parts.                                                *)
(***************************************************************************)
EXTENDS Integers, SequencesExt

CONSTANTS Numbers   \* the texts that strconv.Atoi accepts, each with its number

SQLProviders == {"mysql", "postgres"}
Providers == SQLProviders \cup {"mongodb", "cassandra"}

Getenv(env, key) == IF key \in DOMAIN env THEN env[key] ELSE ""

(* A line of .env: an entry, or one without "=" or without a key, which    *)
(* ends the loading and leaves the earlier entries set.  A name that is    *)
(* set stays as it is, also if it is set to the empty text.                *)
Malformed == [key |-> "", value |-> ""]
Entries(lines) ==
    LET bad == {i \in DOMAIN lines : lines[i] = Malformed} IN
    IF bad = {} THEN lines
    ELSE SubSeq(lines, 1, (CHOOSE i \in bad : \A j \in bad : i <= j) - 1)
LastWins(env, entry) ==
    [key \in DOMAIN env \cup {entry.key} |-> IF key = entry.key THEN entry.value ELSE env[key]]
Setenv(env, entry) ==
    [key \in DOMAIN env \cup {entry.key} |-> IF key \in DOMAIN env THEN env[key] ELSE entry.value]
LoadDotEnv(env, lines) ==
    LET entries == Entries(lines)
        after[n \in 0..Len(entries)] == IF n = 0 THEN env ELSE Setenv(after[n - 1], entries[n])
    IN  after[Len(entries)]

(* LoadConfig drops the error of LoadDotEnv.  Its own errors are kept      *)
(* apart only as far as a caller does (main.go:292).                       *)
Error == [provider |-> "error"]
Ports == 1..65535
ValidPort(text) == text = "" \/ (text \in DOMAIN Numbers /\ Numbers[text] \in Ports)
TrueTexts == {"1", "t", "true"}     \* as strconv.ParseBool reads them
FalseTexts == {"0", "f", "false"}
ReadOnly(text) == text \notin FalseTexts

LoadConfig(env) ==
    LET provider == Getenv(env, "PROVIDER")
        port == Getenv(env, "PORT")
        readOnly == Getenv(env, "READ_ONLY")
    IN  IF \/ provider \notin Providers \/ ~ValidPort(port)
           \/ readOnly \notin {""} \cup TrueTexts \cup FalseTexts
        THEN Error
        ELSE [provider |-> provider,
              url |-> Getenv(env, "URL"),
              host |-> Getenv(env, "HOST"),
              database |-> Getenv(env, "DATABASE"),
              port |-> IF port = "" THEN 0 ELSE Numbers[port],
              tls |-> Getenv(env, "TLS") = "true",
              readOnly |-> ReadOnly(readOnly)]

(* What the driver is given: a URL as it stands, or the parts with the     *)
(* port of the provider.                                                   *)
NoEndpoint == [driver |-> "none"]
DefaultPort ==
    [mysql |-> 3306, postgres |-> 5432, mongodb |-> 27017, cassandra |-> 9042]
Endpoint(driver, config, tls) ==
    IF config.url # "" THEN [driver |-> driver, url |-> config.url]
    ELSE [driver |-> driver, host |-> config.host, database |-> config.database,
          port |-> IF config.port = 0 THEN DefaultPort[config.provider] ELSE config.port,
          tls |-> tls]

SQLDriverAndDSN(config) ==
    IF config.url = "" /\ "" \in {config.host, config.database} THEN NoEndpoint
    ELSE IF config.provider = "mysql" THEN Endpoint("mysql", config, FALSE)
    ELSE Endpoint("pgx", config, config.tls)

DocumentURL(config) ==
    IF config.url = "" /\ config.host = "" THEN NoEndpoint
    ELSE Endpoint(config.provider, config, FALSE)

(* IntrospectCassandra does not look at the URL: it needs the host.  *)
CassandraCluster(config) ==
    IF config.host = "" THEN NoEndpoint
    ELSE Endpoint("cassandra", [config EXCEPT !.url = ""], FALSE)
=============================================================================
