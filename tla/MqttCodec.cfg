\* The long string makes lengths of two bytes, and a second value does not always fit.
CONSTANTS
    MAX_PROPERTIES = 2
    MAX_REASONS = 2
    BUF = 140
    MaxCut = 12
    LongLen = 130
SPECIFICATION CodecSpec
INVARIANTS
    RemLenExact
    RoundTrip
    CutIsRefused
