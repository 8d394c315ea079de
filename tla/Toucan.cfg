\* Every inverter.  The smallest channels that can be full and have a blocked
\* sender, and answers that do not fit in them.
CONSTANTS
    Inverters = {"solax", "forceh2", "pylontech"}
    DrivesContactor = TRUE
    Precharge = FALSE
    PrechargeTime = 1
    PullInTime = 1
    RxFrame = {"request", "foreign"}
    TxFrame = {"reply"}
    FRAME_BUFFER = 1
    HwQueue = 1
    MaxReply = 2
    Timeout = 1
SPECIFICATION ToucanSpec
INVARIANTS
    ToucanTypeOK
    EnergisedMeansSeen
    FaultMeansOpen
PROPERTIES
    CloseOnFreshData
    FailSafe
    ClosesWhenHealthy
    Can2StallsOnlyWhenWedged
