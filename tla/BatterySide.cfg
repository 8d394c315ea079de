\* Two frames per queue: a queue can be empty, partly filled and full.
CONSTANTS
    FRAME_BUFFER = 2
    HwQueue = 2
    Timeout = 1
    InitPayloads = 1
    Arrays = 2
SPECIFICATION BatterySpec
INVARIANT KeyCountersBounded
PROPERTIES
    WedgeIsForever
    StallsOnlyWhenWedged
    ImplementsFeed
    SilenceTimesOut
    KeysAlternateEveryFive
