SPECIFICATION ParsersSpec
CONSTANTS
    Texts <- SmallTexts
    Reference <- SmallReference
    Assignment <- SmallAssignment
    Image <- SmallImage
    LowerCase <- SmallLowerCase
    Workflows <- SmallWorkflows
    UpperCase <- SmallUpperCase
CHECK_DEADLOCK FALSE
INVARIANT
    NamesAreNotCommands
