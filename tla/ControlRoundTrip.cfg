CONSTANTS
    Kinds <- MCKinds
    MaxEdits <- MCMaxEdits
    LastIndex = 3
    LargestId = 8
    Colours = 2
    MaxTexts = 2
    MaxDepth = 3
    MaxNodes = 7
    MaxCoordinate = 3
    OtherControl = 7
    MaxMenuDepth = 3
    LargestSource = 2
SPECIFICATION MCSpec
CHECK_DEADLOCK FALSE
INVARIANTS
    ControlCanBeBuilt
    BuiltIsDumped
    DataComesBack
PROPERTIES
    XmlKeepsTheRecord
    UnwarnedIsLossless
