SPECIFICATION EvidenceSpec
CONSTANTS
    Sessions = {s1, s2}
    Files = {f, g}
    Chunks = {c}
    MaxLen = 1
    MaxClock = 1
    MaxCalls = 3
    Inodes = {1, 2, 3}
    s1 = s1
    s2 = s2
    f = f
    g = g
    c = c
SYMMETRY EvidenceSymmetry
INVARIANTS
    HashNamesContent
    EvidenceInv
PROPERTY EvidenceKept
CHECK_DEADLOCK FALSE
