SPECIFICATION Spec
CONSTANTS
    x1 = x1  x2 = x2  ea = ea  eb = eb  mean = mean  std = std  Null = Null
    LabelOf <- MCLabelOf
    Exporters = {x1, x2}
    Specs <- Definitions
    SpecsOf <- SharedDir
    FeatureRows <- Sparse
    RequireAll = {FALSE}
    Faults = {"fail", "io"}
    MaxExports = 3
INVARIANTS
    RecordsFollowData
    ProvenanceRestored
CHECK_DEADLOCK FALSE
