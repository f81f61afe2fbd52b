SPECIFICATION Spec
CONSTANTS
    o = o  m = m
    Devices = {o, m}
    Owner = o
    Page = 2
    Rooms <- Twice
INVARIANT EpochOrder
CHECK_DEADLOCK FALSE
