CONSTANTS
    main = main
    gatt = gatt
    penA = penA
    penB = penB
    NoAddr = NoAddr
    Absent = Absent
    Empty = Empty
    None = None
    Ok = Ok
    Dead = Dead
    Callers <- MCCallers
    Addrs <- MCAddrs
    MaxFaults = 1

SPECIFICATION FairSpec

INVARIANT KnownAddressIsServed
PROPERTY ImplementsStore
PROPERTY CallsEnd
