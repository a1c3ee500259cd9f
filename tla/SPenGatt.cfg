CONSTANTS
    c1 = c1
    Clients <- OneClient
    Motions <- ManyMotions
    MaxConnections = 3
    MaxPresses = 2
    MaxMotions = 1
    MaxModes = 1

SPECIFICATION FairSpec
CHECK_DEADLOCK FALSE

INVARIANT NeverRefused
INVARIANT NoStuckKey
PROPERTY ClickIffStill
PROPERTY GestureFollowsMotion
PROPERTY ButtonsWork
