SPECIFICATION MCSpec
CONSTANTS
    a1 = a1
    a2 = a2
    a3 = a3
    b1 = b1
    x2 = x2
    post = post
    up = up
    room = room
    ctl = ctl
    Batches = {a1, a2, a3, b1, x2}
    Genesis = Genesis
    ParentOf <- MCParentOf
    HeightOf <- MCHeightOf
    EvidenceOf <- MCEvidenceOf
    RecordsOf <- MCRecordsOf
    PostOf <- MCPostOf
    CreditOf <- MCCreditOf
    WellFormed = {a1, a2, a3, b1, x2}
    Lies = {x2}
    Certified = {a1, a2, a3, b1, x2}
    NoIntent = NoIntent
    MaxFaults = 3
    ChunkBytes = 2
    Traffics <- MCTraffics
INVARIANTS PartsAgree AckedIsDurable OpenRebuilds SoundIsTaken AssemblyIsExact
PROPERTIES EveryDecisionIsAcked NotEvicted
