SPECIFICATION ParsersSpec
CONSTANTS
    Texts <- SmallTexts
    Reference <- SmallReference
    Assignment <- SmallAssignment
    Image <- SmallImage
    LowerCase <- SmallLowerCase
    Workflows <- SmallWorkflows
    UpperCase <- SmallUpperCase
CHECK_DEADLOCK FALSE
INVARIANTS
    ParsersTypeOK
    JoinedAsDocker
    StagesAreExternal
    SummaryMatchesStages
    ShellLinesAreTaken
    TakenInOwnStep
    DocumentsAreRead
    CommandsAreJudged
