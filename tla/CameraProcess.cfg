CONSTANTS
    Models <- MCModels
    MaxCounted = 2
    MaxCrashes = 2
    MaxRuns = 3

SPECIFICATION ProcessSpec
CHECK_DEADLOCK FALSE

INVARIANT EveryCameraShown
INVARIANT RunKeepsThread
