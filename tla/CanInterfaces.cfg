\* Six frames each way through queues of two: they fill, block and wrap.
CONSTANTS
    MaxFrames = 6
    RxFrame = {1, 2, 3, 4, 5, 6}
    TxFrame = {1, 2, 3, 4, 5, 6}
    FRAME_BUFFER = 2
    HwQueue = 2
SPECIFICATION InterfacesSpec
INVARIANTS
    FifoTypeOK
    RxInOrder
    TxInOrder
    FiltersFirst
PROPERTIES
    Can2Starts
    EverythingGetsThrough
CHECK_DEADLOCK FALSE
