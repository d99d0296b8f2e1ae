SPECIFICATION Spec
CONSTANTS
    x1 = x1  x2 = x2  ea = ea  eb = eb  mean = mean  std = std  Null = Null
    LabelOf <- MCLabelOf
    Exporters = {x1}
    Specs <- JustBase
    SpecsOf <- AllSpecs
    FeatureRows <- Sparse
    RequireAll = {TRUE, FALSE}
    Faults = {}
    MaxExports = 2
INVARIANTS
    RegenerationIsExact
CHECK_DEADLOCK FALSE
