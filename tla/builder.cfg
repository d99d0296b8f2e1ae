SPECIFICATION FairSpec
CONSTANTS
    ea = ea  eb = eb  ec = ec  short = short  long = long  other = other
    tick = tick  noise = noise  x1 = x1  x2 = x2  x3 = x3  x4 = x4
    EntityType <- MCEntityType
    FeatureType <- MCFeatureType
    Lookback <- MCLookback
    Streams = {tick, noise}
    Source <- MCSource
    StreamOf <- MCStreamOf
    EventOf <- MCEventOf
    HourLength = 2
    Entities = {ea, eb, ec}
    Features = {short, long, other}
    Raw = {x2, x4}
    Times = {1, 2}
    Jobs <- SomeJobs
    BatchSize = 2
    MaxRuns = 2
INVARIANTS
    TypeOK
    FeaturesArePointInTime
    FeaturesSeeTheLake
PROPERTIES
    FeatureRowsAreDurable
    ReturnedBuildIsPublished
    CountsAreTrue
    BuildEnds
CHECK_DEADLOCK FALSE
