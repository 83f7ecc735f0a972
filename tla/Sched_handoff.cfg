SPECIFICATION Spec
CONSTANTS
    m1 = m1
    m2 = m2
    m3 = m3
    p1 = p1
    p2 = p2
    Ms <- ThreeMs
    Ps <- TwoPs
    Sysmon = Sysmon
    NoP = NoP
    GS = 2
INVARIANTS IdleMeansNoWork
SYMMETRY Symmetric
CHECK_DEADLOCK FALSE
