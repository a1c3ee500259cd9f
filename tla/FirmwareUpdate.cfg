CONSTANTS
    Packages <- MCPackages
    Factory = "factory"
    Model = "a"
    Models <- MCModels
    Long <- MCLong
    Binary <- MCBinary
    Size <- MCSize
    MaxInstalls = 3
    MaxFailures = 1
    MaxIgnored = 1
    MaxCuts = 1
    MaxFlushes = 1
    MaxFaults = 2

SPECIFICATION Spec
CHECK_DEADLOCK FALSE

INVARIANT BotaSound
INVARIANT DoneMeansWritten
PROPERTY NoDowngrade
