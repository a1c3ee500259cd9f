SPECIFICATION FairSpec
CONSTANTS
    Scenes <- MCScenes
    FacePriority <- MCFacePriority
    Preferred <- MCPreferred
    Selections <- MCSelections
INVARIANTS StatesFitModes LockIsAsked LockIsHeld
PROPERTIES FocusStays TriggerEndsLocked
