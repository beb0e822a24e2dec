SPECIFICATION Spec
CONSTANTS
    Content <- MCContent
    Long <- MCLong
    Stop <- MCStop
    Parts <- MCParts
    Versions <- MCVersions
    Values <- MCValues
    Depth <- MCDepth
    Places = 4
    FirstFolder <- MCFolder
    Files <- MCFiles
    FirstModel <- MCModel
    Questions <- MCQuestions
    Answers <- MCAnswers
    MaxChanges = 2
    MaxTaught = 1
INVARIANT
    TrainedLoads
CHECK_DEADLOCK FALSE
