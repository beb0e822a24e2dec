SPECIFICATION WatchSpec
CONSTANTS
    q1 = q1
    a1 = a1
    NoCatalog = NoCatalog
    Unset = Unset
    Empty = Empty
    Garbled = Garbled
    Questions <- MCQuestions
    Answers <- MCAnswers
    InitialFacts <- WithFact
    Connected = TRUE
    Parts = 1
    Unloadable = {}
    MaxShape = 0
    MaxKeys = 0
    MaxDocs = 0
    MaxTaught = 0
    MaxFailures = 0
    MaxStops = 0
    MaxStarts = 1
PROPERTY
    FileCatchesUp
CHECK_DEADLOCK FALSE
