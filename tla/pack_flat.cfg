SPECIFICATION PackSpec
CONSTANTS
    tick = tick  r1 = r1  r2 = r2  r3 = r3  r4 = r4  sa = sa  sx = sx
    None = None  Raised = Raised
    Streams = {tick}
    Rows = {r1, r2, r4}
    StreamOf <- MCStreamOf
    EventOf <- MCEventOf
    Times = {0, 1, 2, 3, 4}
    Offsets = {0}
    HourLength = 2
    DayLength = 4
    Packs <- JustRolling
    Own <- NoOwn
    Points <- OnePoint
    Entities = {sa}
    Source <- MCSource
    ValueOf <- Flat
    SizeOf <- MCSizeOf
    Short = 2
    Long = 3
    Bits = 4
INVARIANT FlatHasNoScore
