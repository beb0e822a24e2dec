SPECIFICATION FairSpec
CONSTANTS
    q1 = q1
    q2 = q2
    a1 = a1
    NoCatalog = NoCatalog
    Unset = Unset
    Empty = Empty
    Garbled = Garbled
    Questions <- MCQuestions
    Answers <- MCAnswer
    InitialFacts <- WithFact
    Connected = TRUE
    Parts = 2
    Unloadable = {}
    MaxShape = 1
    MaxKeys = 1
    MaxDocs = 1
    MaxTaught = 2
    MaxFailures = 1
    MaxStops = 1
INVARIANTS
    TypeOK
    SkipIsSound
    FileIsMemory
PROPERTIES
    FactsStay
    TablesCatchUp
CHECK_DEADLOCK FALSE
