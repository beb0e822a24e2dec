SPECIFICATION Spec
CONSTANTS
    Singular <- MCSingular
    Numbers <- MCNumbers
    Environments <- MCEnvironments
    DotEnvs <- MCDotEnvs
    Questions <- MCQuestions
    TableOrder <- MCTables
    FirstSchema <- MCSchema
    Columns <- MCColumns
    Extra <- MCExtra
    MaxChanges = 2
    MaxFailures = 1
    MaxRows = 2
INVARIANTS
    TypeOK
    SettingsHold
    OpensReadOnly
    CatalogWasTrue
    FailureIsExplained
    FormFitsQuery
PROPERTY
    CatalogFollows
CHECK_DEADLOCK FALSE
