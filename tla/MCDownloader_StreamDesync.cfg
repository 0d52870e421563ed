CONSTANTS
    SectorSize = 2
    UintWidth = 2
    Offsets = {0, 1}
    Lengths = {1, 2}
    Prices = {1, 2}
    InitFunds = 6
    MaxCalls = 3
    MaxFaults = 2
SPECIFICATION Spec
INVARIANTS StreamInSync
CHECK_DEADLOCK FALSE
