CONSTANTS
    c1 = c1
    c2 = c2
    Charts = {c1, c2}
    Budget = 8
    IdLimit = 4
    TrendLimit = 3
    Forms <- MCForms
    Undefined = Undefined
SPECIFICATION MCSpec
INVARIANTS
    ChartsStayValid
    DeletedTrendlinesStayDeleted
PROPERTIES
    ElementsKeepTheirs
