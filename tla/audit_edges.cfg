SPECIFICATION Spec
CONSTANTS
    ea = ea  eb = eb  All = All
    WindowLength = 4
    QuietGap = 1
    DeadGap = 4
    DeadDark = 4
    DegradedGap = 3
    DegradedDark = 3
    EdgeOffset = 2
    LastSlice = 3
    DayLength = 6
    Entities = {ea}
    Windows = {0, 4, 8}
    Events <- OfOne
    Labels <- SomeLabels
    ThinRows = 2
    Lookbacks = {All}
    Filters = {{ea}}
    IOFaults = FALSE
    MaxTime = 9
INVARIANTS
    MissingIsReported
