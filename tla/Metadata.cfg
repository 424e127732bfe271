SPECIFICATION MCSpec
CONSTANTS
    t1 = t1
    t2 = t2
    o1 = o1
    o2 = o2
    m1 = m1
    m2 = m2
    num = num
    Types = {t1, t2}
    Objects = {o1, o2}
    MemberIds = {m1, m2}
    Names = {"Code", "Description", "Parent", "Text"}
    Primitives = {num}
    FixedType <- MCFixedType
    Roots <- MCRoots
    Contexts <- MCContexts
    Paths <- MCPaths
    Files <- MCFiles
    MaxDepth = 2
    NoName = NoName
    NoId = NoId
    NoType = NoType
    NoContext = NoContext
    NoPath = NoPath
    NoFile = NoFile
    NotLoaded = NotLoaded
INVARIANTS
    NamesFindTheSame
    LoadedIsRebuilt
