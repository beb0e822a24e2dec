SPECIFICATION Spec
CONSTANTS
    Singular <- MCSingular
    Content <- MCContent
    Questions <- MCQuestions
    Teachable <- MCTeachable
    Corrections <- MCCorrections
    Documented <- MCDocumented
    TableOrder <- MCTables
    Columns <- MCColumns
    MaxSize = 3
INVARIANTS
    TypeOK
    QueriesFitRoles
    RevenueIsPlanned
    RankingIsStable
    FactIsTheBest
PROPERTIES
    CorrectionIsAnswered
    UnrelatedStay
