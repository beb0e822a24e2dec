SPECIFICATION WatchSpec
CONSTANTS
    q1 = q1
    a1 = a1
    NoCatalog = NoCatalog
    Unset = Unset
    Empty = Empty
    Garbled = Garbled
    Questions <- MCQuestions
    Answers <- MCAnswers
    InitialFacts <- WithFact
    Connected = TRUE
    Parts = 1
    Unloadable = {1}
    MaxShape = 0
    MaxKeys = 0
    MaxDocs = 1
    MaxTaught = 1
    MaxFailures = 1
    MaxStops = 1
    MaxStarts = 2
INVARIANTS
    WatchTypeOK
    PrintIsSound
PROPERTY
    WatcherFollows
CHECK_DEADLOCK FALSE
