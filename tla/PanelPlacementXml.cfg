SPECIFICATION Spec
CONSTANTS
    Controls = {a, b, c}
    Pages = 2
    NoControl = NoControl
SYMMETRY ControlNames
PROPERTIES
    ReadingKeepsTabOrder
