SPECIFICATION Spec
CONSTANTS
    ea = ea  eb = eb  All = All
    WindowLength = 4
    QuietGap = 1
    DeadGap = 4
    DeadDark = 4
    DegradedGap = 3
    DegradedDark = 3
    EdgeOffset = 2
    LastSlice = 3
    DayLength = 6
    Entities = {ea, eb}
    Windows = {0, 4, 8}
    Events <- SomeEvents
    Labels <- SomeLabels
    ThinRows = 2
    Lookbacks = {All, 4}
    Filters = {{ea, eb}}
    IOFaults = TRUE
    MaxTime = 9
INVARIANTS
    TypeOK
    UsableIsCovered
    BlackoutsAreDead
    LookbackIsExact
    InteriorGapsAreReported
    MissingIsSilent
