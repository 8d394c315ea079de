\* 256 fractions to an era and 4 microseconds to a second of 16 fractions.  The second
\* era begins at 256: the task starts just before or after it, and clocks differ by up to
\* a quarter era less one second.  The zone is that of UTC or five seconds ahead or
\* behind.  A build with overflow checks may panic, which ends it.
CONSTANTS
    U32 = 16
    NTP_TIMESTAMP_DELTA = 9
    USEC_IN_SEC = 4
    Zones = {0, 5}
    Starts = {235, 250, 256, 270}
    Skews = {0, 1, 5, 30, 47}
    Horizon = 9
SPECIFICATION NtpSpec
INVARIANTS
    RtcFollowsServer
    DelayAndOffset
CHECK_DEADLOCK FALSE
