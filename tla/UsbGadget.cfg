SPECIFICATION FairSpec
CONSTANTS
    Requests <- MCRequests
    MaxHasty = 1
    MaxDeaths = 1
INVARIANTS QuiescentIsRight AckIsTrue HostSeesOneDevice
PROPERTIES SwitchEnds
CHECK_DEADLOCK FALSE
