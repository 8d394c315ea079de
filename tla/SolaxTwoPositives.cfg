\* The comment on activation against the code: expected to be violated.
CONSTANTS
    Inverters = {"solax"}
    DrivesContactor = TRUE
    Precharge = FALSE
    PrechargeTime = 1
    PullInTime = 1
    RxFrame = {"request", "foreign"}
    TxFrame = {"reply"}
    FRAME_BUFFER = 1
    HwQueue = 1
    MaxReply = 2
    Timeout = 1
SPECIFICATION ToucanSpec
PROPERTY TwoPositivesToClose
