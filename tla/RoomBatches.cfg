SPECIFICATION Spec
CONSTANTS
    Absent = "absent"
    Torn = "torn"
    Drops <- MCDrops
    Configs = {"b"}
    Direct = {"d"}
    Foreign = {"f"}
    MaxHeight = 2
    MaxRound = 0
    MaxRetained = 2
    MaxSeen = 3
    Lives <- BothLives
INVARIANTS VouchedIsHeld
CHECK_DEADLOCK FALSE
