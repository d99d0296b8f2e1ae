SPECIFICATION HealthySpec
CONSTANTS
    tick = tick  quote = quote
    r1 = r1  r2 = r2  q1 = q1
    Streams = {tick}
    Rows = {r1, r2}
    StreamOf <- MCStreamOf
    EventOf <- MCEventOf
    Times = {2, 4, 5}
    Offsets <- Behind
    HourLength = 2
    DayLength = 4
INVARIANTS
    ReadsAreComplete
