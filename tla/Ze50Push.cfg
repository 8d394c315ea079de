\* The comment about update() against the code: expected to be violated.
CONSTANTS
    RxFrame = {"payload", "other"}
    TxFrame = {"tx"}
    FRAME_BUFFER = 2
    HwQueue = 2
    Timeout = 1
    InitPayloads = 1
SPECIFICATION Ze50Spec
PROPERTY PushEndsReadingLoop
