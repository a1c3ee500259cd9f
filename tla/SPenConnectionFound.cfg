CONSTANTS
    m1 = m1
    m2 = m2
    g1 = g1
    g2 = g2
    g3 = g3
    g4 = g4
    g5 = g5
    s1 = s1
    s2 = s2
    s3 = s3
    penA = penA
    penB = penB
    NoAddr = NoAddr
    None = None
    Main = Main
    Managers <- OneManager
    Gatts <- FourGatts
    Scans <- OneScan
    Addrs <- TwoPens
    LinkLingers = FALSE
    MaxUser = 1
    MaxDrops = 0
    MaxHalFaults = 0
    MaxStarts = 1
    MaxFinds = 2
    MaxEvents = 2

SPECIFICATION Spec
CHECK_DEADLOCK FALSE

INVARIANT FoundPenConnects
