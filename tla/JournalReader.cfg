SPECIFICATION FairReaderSpec
CONSTANTS
    a1 = a1
    b1 = b1
    a2 = a2
    g = g
    fa = fa
    fb = fb
    fc = fc
    Procs = {p1}
    Bundles = {a1, b1, a2}
    Frontiers = {g, fa, fb, fc}
    PredOf <- MCPredOf
    NextOf <- MCNextOf
    HeightOf <- MCHeightOf
    GenesisNext = g
    MaxHeight = 2
    MaxFaults = 2
    SizeOf <- MCSizeOf
    PageLimits <- MCPageLimits
    NoFrontier = NoFrontier
    NoProc = NoProc
    Scratch = Scratch
    Absent = Absent
    Torn = Torn
INVARIANTS PinHasItsEvidence AckedSurvives NeverCorrupt ReadsAreSound
PROPERTIES ImplementsCommitLog NoHeightIsStranded
