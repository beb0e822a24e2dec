SPECIFICATION Spec
CONSTANTS
    r1 = r1
    r2 = r2
    r3 = r3
    plain = plain
    unknown = unknown
    short = short
    again = again
    hello = hello
    ama = ama
    myname = myname
    revenue = revenue
    which = which
    None = None
    Requests <- ThreeRequests
    Questions <- FewQuestions
    Connected = FALSE
    Limit = 2
    Capacity = 1
    CoarseClock = FALSE
    MaxRetrains = 1
    MaxBusy = 3
    Known <- SomeKnown
    Repeats <- NoQuestions
    Chats <- NoQuestions
    Tells <- NoQuestions
    Recalls <- NoQuestions
    FollowUps <- SomeFollowUps
    SchemaQuestions <- NoQuestions
    DataQuestions <- NoQuestions
SYMMETRY MCSymmetry
INVARIANTS
    NeverStale
    MemoryIsHistory
    MemoryIsBounded
CHECK_DEADLOCK FALSE
