SPECIFICATION FairSpec
CONSTANTS
    Absent = Absent
    Torn = Torn
    MaxGen = 2
    Orders <- MCOrders
    Homes <- MCHomes
INVARIANTS SealIsWhole SuccessionIsSafe
PROPERTIES TransitionFinishes
CHECK_DEADLOCK FALSE
