SPECIFICATION Spec
CONSTANTS
    q1 = q1
    q2 = q2
    a1 = a1
    NoCatalog = NoCatalog
    Unset = Unset
    Empty = Empty
    Garbled = Garbled
    Questions <- MCQuestions
    Answers <- MCAnswer
    InitialFacts <- WithFact
    Connected = TRUE
    Parts = 1
    Unloadable = {}
    MaxShape = 1
    MaxKeys = 0
    MaxDocs = 0
    MaxTaught = 1
    MaxFailures = 0
    MaxStops = 0
INVARIANT
    TeachPersists
CHECK_DEADLOCK FALSE
