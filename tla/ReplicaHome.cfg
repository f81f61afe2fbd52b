SPECIFICATION HomeSpec
CONSTANTS
    a1 = a1
    b1 = b1
    a2 = a2
    g = g
    fa = fa
    fb = fb
    fc = fc
    Procs = {p1, p2}
    Bundles = {a1, b1, a2}
    Frontiers = {g, fa, fb, fc}
    PredOf <- MCPredOf
    NextOf <- MCNextOf
    HeightOf <- MCHeightOf
    GenesisNext = g
    MaxHeight = 2
    MaxFaults = 0
    NoProc = NoProc
    Scratch = Scratch
    Absent = Absent
    Torn = Torn
SYMMETRY Symmetric
INVARIANT NoHeightLosesItsMarker
