SPECIFICATION UTCSpec
CONSTANTS
    tick = tick  quote = quote
    r1 = r1  r2 = r2  q1 = q1
    Streams = {tick, quote}
    Rows = {r1, r2, q1}
    StreamOf <- MCStreamOf
    EventOf <- MCEventOf
    Times = {2, 3, 4, 5}
    Offsets = {0}
    HourLength = 2
    DayLength = 4
INVARIANTS
    TypeOK
    NoLeakage
    ReadsStayInWindow
    ReadsAreComplete
    ReadsAgree
PROPERTIES
    PointInTimeSpec
