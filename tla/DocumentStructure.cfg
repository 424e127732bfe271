SPECIFICATION DocumentSpec
CONSTANTS
    Kits <- MCKits
    NoRef = NoRef
    NoItems = NoItems
CHECK_DEADLOCK FALSE
INVARIANTS
    ItemsAreATree
PROPERTIES
    EditsKeepTheForm
    CaptionAssetCollected
