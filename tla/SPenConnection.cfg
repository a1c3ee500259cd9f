CONSTANTS
    m1 = m1
    m2 = m2
    g1 = g1
    g2 = g2
    g3 = g3
    g4 = g4
    g5 = g5
    s1 = s1
    s2 = s2
    s3 = s3
    penA = penA
    penB = penB
    NoAddr = NoAddr
    None = None
    Main = Main
    Managers <- OneManager
    Gatts <- ThreeGatts
    Scans <- ThreeScans
    Addrs <- TwoPens
    LinkLingers = TRUE
    MaxUser = 2
    MaxDrops = 1
    MaxHalFaults = 1
    MaxStarts = 2
    MaxFinds = 1
    MaxEvents = 2

SPECIFICATION FairSpec
CHECK_DEADLOCK FALSE

INVARIANT ClientWhenQuiet
INVARIANT OrphanPerDrop
PROPERTY MacNeverLost
PROPERTY DiesOnlyAfterOff
PROPERTY Reconnects
