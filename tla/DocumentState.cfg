SPECIFICATION MCSpec
CONSTANTS
    Normal = Normal
    Docked = Docked
    Autohide = Autohide
    Float = Float
    Join = Join
    Days <- MCDays
    Times = {0, 12}
    l1 = l1  l2 = l2  k1 = k1  k2 = k2  p1 = p1  p2 = p2
    a1 = a1  a2 = a2  b1 = b1  b2 = b2
    Lists = {l1, l2}
    Ids = {k1, k2}
    Payloads = {p1, p2}
    Attributes = {a1, a2}
    Boxes = {b1, b2}
    AttributeOf <- TwoBoxes
    Documents = {d1, d2}
    FirstDocument = d1
    None = None
    MaxIdentities = 2
SYMMETRY Symmetry
INVARIANTS
    TypeOK
    UnreportedIsConsistent
    IndexedOnce
    SelectionIsALiveRow
PROPERTIES
    AssignmentIsLocal
    ImplementsSelectedDays
    ReferencesFollowRows
    SelectionIsLocal
