SPECIFICATION MCSpec
CONSTANTS
    Absent = Absent
    Torn = Torn
    MaxItems = 3
    Limit = 2
    MaxScanFaults = 3
    c1 = c1  c2 = c2  c3 = c3  k1 = k1  k2 = k2  s1 = s1  local = local
    Conns = {c1, c2, c3}
    Keys = {k1, k2}
    Sources = {s1}
    Local = local
    MaxConns = 2
    Handshakes = 4
    MaxInflight = 1
    KeyRequests = 2
    KeyBytes = 2
    AllRequests = 4
    AllBytes = 3
    Accepts = 3
    RelayLoads <- MCLoads
INVARIANTS Resumable CursorIsTrue Accounted WakesReach
PROPERTIES CatchesUp ClosesHonestly Drains
