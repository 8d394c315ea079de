SPECIFICATION MqttSpec
CONSTANTS
    BUF = 9
    MAX_PROPERTIES = 2
    MAX_REASONS = 1
    TX = 14
    ID_MAX = 3
    SEED = 2
    CONNECT_SIZE = 9
    SUBSCRIBE_SIZE = 8
    PublishSizes = {9, 10}
    MaxFaults = 2
    MaxPushes = 1
    MaxOps = 4
INVARIANTS PanicOnlyOnExcess NeverOverreads AckMeansDelivered PingMeansInStep NoShortWrite
PROPERTY PublishesForever
CHECK_DEADLOCK FALSE
