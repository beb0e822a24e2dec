SPECIFICATION Spec
CONSTANTS
    r1 = r1
    r2 = r2
    r3 = r3
    plain = plain
    unknown = unknown
    short = short
    again = again
    hello = hello
    ama = ama
    myname = myname
    revenue = revenue
    which = which
    None = None
    Requests <- ThreeRequests
    Questions <- FewQuestions
    Connected = FALSE
    Limit = 2
    Capacity = 2
    CoarseClock = FALSE
    MaxRetrains = 0
    MaxBusy = 1
    Known <- SomeKnown
    Repeats <- NoQuestions
    Chats <- NoQuestions
    Tells <- NoQuestions
    Recalls <- NoQuestions
    FollowUps <- SomeFollowUps
    SchemaQuestions <- NoQuestions
    DataQuestions <- NoQuestions
INVARIANT
    AnswersTheContext
CHECK_DEADLOCK FALSE
