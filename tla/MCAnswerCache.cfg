SPECIFICATION HSpec
CONSTANTS
    k1 = k1
    k2 = k2
    k3 = k3
    k4 = k4
    a1 = a1
    a2 = a2
    NoAnswer = NoAnswer
    Capacity = 2
    Keys <- MCKeys
    Answers <- MCAnswers
INVARIANTS
    TypeOK
    OrderTracksValues
    Bounded
PROPERTY
    LeastRecentlyUsed
