CONSTANTS
    Base = 4
    AssertsOn = TRUE
    MaxSec = 2
    MaxDiv = 3
SPECIFICATION CheckSpec
INVARIANTS
    AddSubExact
    DivsExact
    CompareOffZero
    LagMinMax
    LagSumAvg
    HeaderRoundTrip
    FrameControlDecode
