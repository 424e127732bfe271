SPECIFICATION MCSpec
CONSTANTS
    Nothing = Nothing
    Noise = Noise
    NoPayload = Noise
    Forms <- MCForms
    XmlParses = {"good", "picture", "unencoded", "undecoded"}
    XmlPrints = {"good", "picture", "unparsed", "unencoded"}
    Encodes = {"good", "picture", "unparsed", "undecoded"}
    Decodes = {"good", "picture", "unparsed", "unencoded"}
    Pictures <- MCPictures
    Texts <- MCTexts
    Foreign <- MCForeign
    Empty = Empty
    NoAtom = Empty
    Base64 = Base64
    Base64Atom = Base64
    a1 = a1
    NoValue = NoValue
    MaxDepth = 2
    MaxTokens = 10
    Atoms <- MCAtoms
    MaxCalls = 7
    MaxText = 4
    Openings <- MCOpenings
CHECK_DEADLOCK FALSE
INVARIANTS
    CycleKeepsModule
    BuildSettles
    WrittenStringIsReadBack
    ParsedIsDumped
    ReaderMirrorsWriter
PROPERTIES
    ModuleNotDropped
