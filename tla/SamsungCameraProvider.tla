----------------------- MODULE SamsungCameraProvider -----------------------
(***************************************************************************)
(* The camera provider process: the constructor of SamsungCameraProvider,  *)
(* which adds cameras that Samsung's module does not count to those that   *)
(* the constructor of its base class found, and main() of service.cpp,     *)
(* which registers the provider or aborts.                                 *)
(*                                                                         *)
(* The base class, the module and hwservicemanager are external and        *)
(* modelled by what they may answer.                                       *)
(***************************************************************************)
EXTENDS Naturals, Sequences, FiniteSets, SequencesExt

CONSTANTS
    Models,         \* the values of EXYNOS9820_MODEL a build may have
    MaxCounted,     \* bound: cameras that the module counts
    MaxCrashes      \* bound: deaths of the process

ASSUME ProviderAssumption == MaxCounted \in 0..50 /\ MaxCrashes \in Nat

VARIABLES
    model,          \* of the build; never changes
    pc,             \* what main() is doing
    mInitFailed, mCameraStatusMap, mNumberOfLegacyCameras,
                    \* of the provider: failed, the ids present, their number
    mModule,        \* the provider holds the module
    left,           \* mExtraIDs that the loop has not come to
    fitted,         \* extra ids for which the module of this process has a camera
    crashes

providerVars == <<model, pc, mInitFailed, mCameraStatusMap, mNumberOfLegacyCameras,
                  mModule, left, fitted, crashes>>

\* 52 is the telephoto camera, or the depth camera of f62; 51 the second front
\* camera; 54 the macro camera.
mExtraIDs(m) ==
    (IF m \notin {"beyond0lte", "f62"} THEN <<52>> ELSE <<>>)
        \o (IF m \in {"beyond2lte", "beyondx"} THEN <<51>> ELSE <<>>)
        \o (IF m = "f62" THEN <<52, 54>> ELSE <<>>)

NoProvider ==
    /\ pc' = "dead"
    /\ mInitFailed' = FALSE /\ mModule' = FALSE
    /\ mCameraStatusMap' = {} /\ mNumberOfLegacyCameras' = 0
    /\ left' = <<>> /\ fitted' = {}

ProviderInit ==
    /\ model \in Models
    /\ pc = "dead"
    /\ mInitFailed = FALSE /\ mModule = FALSE
    /\ mCameraStatusMap = {} /\ mNumberOfLegacyCameras = 0
    /\ left = <<>> /\ fitted = {}
    /\ crashes = 0

-----------------------------------------------------------------------------
\* init starts the service, and the constructor of the base class runs: it
\* counts the module's cameras, or fails and lets go of the module.
Start ==
    /\ pc = "dead"
    /\ pc' = "loop"
    /\ left' = mExtraIDs(model)
    /\ \/ /\ mInitFailed' = FALSE /\ mModule' = TRUE
          /\ \E n \in 0..MaxCounted :
                mCameraStatusMap' = 0..(n - 1) /\ mNumberOfLegacyCameras' = n
       \/ /\ mInitFailed' = TRUE /\ mModule' = FALSE
          /\ UNCHANGED <<mCameraStatusMap, mNumberOfLegacyCameras>>
    /\ fitted' \in SUBSET ToSet(mExtraIDs(model))
    /\ UNCHANGED <<model, crashes>>

InLoop == pc = "loop" /\ ~mInitFailed /\ left # <<>>

\* Mutant: the loop ends at the first camera that is not there.
NoCameraEndsLoop ==
    /\ InLoop /\ Head(left) \notin fitted
    /\ left' = <<>>
    /\ UNCHANGED <<model, pc, mInitFailed, mCameraStatusMap, mNumberOfLegacyCameras,
                   mModule, fitted, crashes>>

\* getCameraInfo fails: this device does not have the camera.
NoCamera ==
    /\ InLoop /\ Head(left) \notin fitted
    /\ left' = Tail(left)
    /\ UNCHANGED <<model, pc, mInitFailed, mCameraStatusMap, mNumberOfLegacyCameras,
                   mModule, fitted, crashes>>

\* The version check fails: the constructor gives up, and leaves what it
\* has already put into the map.
VersionFails ==
    /\ InLoop /\ Head(left) \in fitted
    /\ mModule' = FALSE /\ mInitFailed' = TRUE
    /\ left' = <<>>
    /\ UNCHANGED <<model, pc, mCameraStatusMap, mNumberOfLegacyCameras, fitted, crashes>>

AddCamera ==
    /\ InLoop /\ Head(left) \in fitted
    /\ mCameraStatusMap' = mCameraStatusMap \cup {Head(left)}
    /\ mNumberOfLegacyCameras' = mNumberOfLegacyCameras + 1
    /\ left' = Tail(left)
    /\ UNCHANGED <<model, pc, mInitFailed, mModule, fitted, crashes>>

\* registerAsService, whether or not the constructor failed.
Register ==
    /\ pc = "loop" /\ ~InLoop
    /\ pc' = "serving"
    /\ UNCHANGED <<model, mInitFailed, mCameraStatusMap, mNumberOfLegacyCameras,
                   mModule, left, fitted, crashes>>

\* LOG_ALWAYS_FATAL_IF aborts, or the blob brings the process down.
Dies ==
    /\ pc = "serving" \/ (pc = "loop" /\ ~InLoop)
    /\ crashes < MaxCrashes
    /\ crashes' = crashes + 1
    /\ NoProvider
    /\ UNCHANGED model

ProviderNext ==
    Start \/ NoCamera \/ VersionFails \/ AddCamera \/ Register \/ Dies

-----------------------------------------------------------------------------
ProviderTypeOK ==
    /\ model \in Models
    /\ pc \in {"dead", "loop", "serving"}
    /\ mInitFailed \in BOOLEAN /\ mModule \in BOOLEAN
    /\ mCameraStatusMap \subseteq 0..54
    /\ mNumberOfLegacyCameras \in 0..(MaxCounted + 3)
    /\ left \in Seq({51, 52, 54})
    /\ fitted \subseteq {51, 52, 54}
    /\ crashes \in 0..MaxCrashes

\* A provider that did not fail shows every extra camera of its model that is
\* fitted, and no other: one that is missing does not hide those behind it, and
\* the number that the base class bounds its ids with is that of the ids.  One
\* that failed holds no module.
EveryCameraShown ==
    pc = "serving" =>
        IF mInitFailed THEN ~mModule
        ELSE /\ \A id \in ToSet(mExtraIDs(model)) : id \in fitted <=> id \in mCameraStatusMap
             /\ mNumberOfLegacyCameras = Cardinality(mCameraStatusMap)
=============================================================================
