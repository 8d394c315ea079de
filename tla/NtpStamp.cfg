\* The instance of Ntp.cfg, both generators.
CONSTANTS
    U32 = 16
    NTP_TIMESTAMP_DELTA = 9
    USEC_IN_SEC = 4
    Zones = {0, 5}
    Starts = {235, 250, 256, 270}
    Skews = {0, 1, 5, 30, 47}
    Horizon = 9
SPECIFICATION NtpSpec
INVARIANT StampIsClock
CHECK_DEADLOCK FALSE
