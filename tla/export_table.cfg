SPECIFICATION FairSpec
CONSTANTS
    x1 = x1  x2 = x2  ea = ea  eb = eb  mean = mean  std = std  Null = Null
    LabelOf <- MCLabelOf
    Exporters = {x1}
    Specs <- WithZero
    SpecsOf <- AllSpecs
    FeatureRows <- Clean
    RequireAll = {TRUE, FALSE}
    Faults = {"label"}
    MaxExports = 1
INVARIANTS
    TypeOK
    TableMatchesLake
PROPERTIES
    ExportEnds
CHECK_DEADLOCK FALSE
