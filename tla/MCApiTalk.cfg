SPECIFICATION FairSpec
CONSTANTS
    r1 = r1
    r2 = r2
    r3 = r3
    plain = plain
    unknown = unknown
    short = short
    again = again
    hello = hello
    ama = ama
    myname = myname
    revenue = revenue
    which = which
    None = None
    Requests <- ThreeRequests
    Questions <- TalkQuestions
    Connected = TRUE
    Limit = 2
    Capacity = 2
    CoarseClock = FALSE
    MaxRetrains = 1
    MaxBusy = 1
    Known <- NoQuestions
    Repeats <- SomeRepeats
    Chats <- SomeChats
    Tells <- SomeTells
    Recalls <- SomeRecalls
    FollowUps <- SomeFollowUps
    SchemaQuestions <- SomeSchema
    DataQuestions <- SomeData
INVARIANT
    TypeOK
PROPERTY
    EveryRequestEnds
CHECK_DEADLOCK FALSE
