SPECIFICATION FairSpec
CONSTANTS
    v0 = v0
    v1 = v1
    v2 = v2
    v3 = v3
    w1 = w1
    Versions = {v0, v1, v2, v3, w1}
    First = v0
    Extends <- MCExtends
    MaxGen = 2
    MaxFaults = 3
    MAX_FILES = 8
    NoVersion = NoVersion
    Absent = Absent
    Torn = Torn
INVARIANTS Openable PublishedIsKept
PROPERTIES IntentDecides IntentsResolve
