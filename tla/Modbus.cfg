\* Three ids and three requests told apart: a late or repeated answer is never taken for
\* one further back; two faults can follow each other.
CONSTANTS
    ID_MAX = 2
    Toks = 3
    MaxPipeline = 1
    MaxLate = 2
    MaxFaults = 2
SPECIFICATION ModbusSpec
INVARIANT AnswerIsToRequest
PROPERTIES
    DeafIsForever
    DriverReleased
    AlwaysComesBack
