\* With pre-charge: 500 ms and 100 ms in ticks of 100 ms, as in the code.
CONSTANTS
    Precharge = TRUE
    PrechargeTime = 5
    PullInTime = 1
SPECIFICATION UnitSpec
INVARIANTS
    UnitTypeOK
    OutputsSafe
    LastCommandWins
    ReactionBound
PROPERTIES
    EnergiseOrder
    RefinesSwitch
