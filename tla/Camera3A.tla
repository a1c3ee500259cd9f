----------------------------- MODULE Camera3A -----------------------------
(***************************************************************************)
(* The auto-focus, auto-exposure and auto-whitebalance state machines of   *)
(* section S4 of include/hardware/camera3.h, driven by the settings of     *)
(* successive capture requests and by the spontaneous steps of the HAL.    *)
(*                                                                         *)
(* A request takes effect as a whole: the modes first (a switch resets),   *)
(* then the triggers, then the locks.  Regions, compensation and frame     *)
(* rates change no state and are left out.                                 *)
(***************************************************************************)
CONSTANTS
    Scenes,         \* values of ANDROID_CONTROL_SCENE_MODE
    FacePriority,   \* the one that overrides nothing
    Preferred,      \* Preferred[s]: the modes the HAL prefers for scene s
    Selections      \* mode settings of requests

AfModes == {"OFF", "AUTO", "MACRO", "CONTINUOUS_VIDEO", "CONTINUOUS_PICTURE", "EDOF"}
AeModes == {"OFF", "ON", "ON_AUTO_FLASH", "ON_ALWAYS_FLASH", "ON_AUTO_FLASH_REDEYE"}
AwbModes == {"OFF", "AUTO", "INCANDESCENT", "FLUORESCENT", "WARM_FLUORESCENT",
             "DAYLIGHT", "CLOUDY_DAYLIGHT", "TWILIGHT", "SHADE"}
ControlModes == {"OFF", "AUTO", "USE_SCENE_MODE"}
Triggers == {"IDLE", "START", "CANCEL"}

Modes == [af : AfModes, ae : AeModes, awb : AwbModes]
Selection == [control : ControlModes, scene : Scenes, user : Modes]

ASSUME SceneAssumption ==
    /\ FacePriority \in Scenes
    /\ Preferred \in [Scenes -> Modes]
    /\ Selections \subseteq Selection

AfLocked == {"FOCUSED_LOCKED", "NOT_FOCUSED_LOCKED"}
AfPassive == {"PASSIVE_SCAN", "PASSIVE_FOCUSED", "PASSIVE_UNFOCUSED"}
AfStates == AfLocked \cup AfPassive \cup {"INACTIVE", "ACTIVE_SCAN"}
AwbStates == {"INACTIVE", "SEARCHING", "CONVERGED", "LOCKED"}
AeStates == AwbStates \cup {"FLASH_REQUIRED", "PRECAPTURE"}

SingleSweep == {"AUTO", "MACRO"}
Continuous == {"CONTINUOUS_VIDEO", "CONTINUOUS_PICTURE"}

VARIABLES
    selected,       \* the mode settings of the last request
    trigger,        \* its ANDROID_CONTROL_AF_TRIGGER
    af,             \* ANDROID_CONTROL_AF_STATE
    ae,             \* ANDROID_CONTROL_AE_STATE
    awb,            \* ANDROID_CONTROL_AWB_STATE
    aeLock,         \* ANDROID_CONTROL_AE_LOCK of the last request
    awbLock,        \* ANDROID_CONTROL_AWB_LOCK of the last request
    triggered       \* an AF_TRIGGER_START not cancelled by AF_CANCEL or a switch

vars == <<selected, trigger, af, ae, awb, aeLock, awbLock, triggered>>

TypeOK ==
    /\ selected \in Selection /\ trigger \in Triggers
    /\ af \in AfStates /\ ae \in AeStates /\ awb \in AwbStates
    /\ aeLock \in BOOLEAN /\ awbLock \in BOOLEAN /\ triggered \in BOOLEAN

\* The device has just been opened.
Init ==
    /\ selected \in Selections /\ trigger = "IDLE"
    /\ af = "INACTIVE" /\ ae = "INACTIVE" /\ awb = "INACTIVE"
    /\ aeLock = FALSE /\ awbLock = FALSE
    /\ triggered = FALSE

-----------------------------------------------------------------------------
(* The modes in force                                                      *)

AllOff == [af |-> "OFF", ae |-> "OFF", awb |-> "OFF"]

\* Mutant: lets the user's selection through in every scene but FACE_PRIORITY.
OverridesFacesOnly(sel) == sel.control = "USE_SCENE_MODE" /\ sel.scene = FacePriority

Overrides(sel) == sel.control = "USE_SCENE_MODE" /\ sel.scene # FacePriority

InForce(sel) ==
    CASE sel.control = "OFF" -> AllOff
      [] Overrides(sel) -> Preferred[sel.scene]
      [] OTHER -> sel.user

mode == InForce(selected)
AeOn(m) == m.ae # "OFF"
AwbOn(m) == m.awb = "AUTO"

\* A switch of the control mode, or of the scene when it counts, resets all.
Switches(old, new) ==
    \/ old.control # new.control
    \/ new.control = "USE_SCENE_MODE" /\ old.scene # new.scene

\* Mutant: looks at what the user selects, not at what is in force.
ResetsByChoice(machine, old, new) == old.user[machine] # new.user[machine]

Resets(machine, old, new) ==
    Switches(old, new) \/ InForce(old)[machine] # InForce(new)[machine]

-----------------------------------------------------------------------------
(* What a request does to the machines: the sets of the new states         *)

\* Mutant: an AF that has not scanned yet takes no notice of the trigger.
StartForgotten(m, s) ==
    CASE m \in SingleSweep -> {"ACTIVE_SCAN"}
      [] m \in Continuous /\ s \in {"PASSIVE_FOCUSED", "FOCUSED_LOCKED"} -> {"FOCUSED_LOCKED"}
      [] m \in Continuous /\ s \in {"PASSIVE_UNFOCUSED", "NOT_FOCUSED_LOCKED"} -> {"NOT_FOCUSED_LOCKED"}
      [] OTHER -> {s}

AfOnStart(m, s) ==
    CASE m \in SingleSweep -> {"ACTIVE_SCAN"}
      [] m \in Continuous /\ s \in {"PASSIVE_FOCUSED", "FOCUSED_LOCKED"} -> {"FOCUSED_LOCKED"}
      [] m \in Continuous /\ s \in {"INACTIVE", "PASSIVE_UNFOCUSED", "NOT_FOCUSED_LOCKED"} ->
            {"NOT_FOCUSED_LOCKED"}
      [] m = "CONTINUOUS_VIDEO" /\ s = "PASSIVE_SCAN" -> AfLocked
      [] OTHER -> {s}               \* the sweep of CONTINUOUS_PICTURE goes on

AfOnCancel(s) == IF s \in {"PASSIVE_FOCUSED", "PASSIVE_UNFOCUSED"} THEN {s} ELSE {"INACTIVE"}

AfOn(t, m, s) ==
    CASE t = "START" -> AfOnStart(m, s)
      [] t = "CANCEL" -> AfOnCancel(s)
      [] OTHER -> {s}

\* The lock is a level: on, it holds the values unless a precapture sequence
\* is underway; switched off, the HAL judges the values it held.
Locked(lock, unlocked, s) ==
    CASE lock /\ s # "PRECAPTURE" -> {"LOCKED"}
      [] ~lock /\ s = "LOCKED" -> unlocked
      [] OTHER -> {s}

AeOnRequest(precapture, lock, m, s) ==
    IF ~AeOn(m) THEN {"INACTIVE"}
    ELSE Locked(lock, {"SEARCHING", "CONVERGED", "FLASH_REQUIRED"},
                IF precapture THEN "PRECAPTURE" ELSE s)

AwbOnRequest(lock, m, s) ==
    IF ~AwbOn(m) THEN {"INACTIVE"} ELSE Locked(lock, {"SEARCHING", "CONVERGED"}, s)

\* A request with these settings reaches the HAL.
Request(sel, newTrigger, precapture, lockAe, lockAwb) ==
    LET new == InForce(sel)
        After(machine, s) == IF Resets(machine, selected, sel) THEN "INACTIVE" ELSE s
    IN  /\ selected' = sel
        /\ trigger' = newTrigger
        /\ af' \in AfOn(newTrigger, new.af, After("af", af))
        /\ ae' \in AeOnRequest(precapture, lockAe, new, After("ae", ae))
        /\ awb' \in AwbOnRequest(lockAwb, new, After("awb", awb))
        /\ aeLock' = lockAe
        /\ awbLock' = lockAwb
        /\ triggered' = CASE newTrigger = "CANCEL" -> FALSE
                          [] newTrigger = "START" -> new.af \in SingleSweep \cup Continuous
                          [] OTHER -> triggered /\ ~Resets("af", selected, sel)

-----------------------------------------------------------------------------
(* The spontaneous steps of the HAL                                        *)

\* A continuous algorithm begins a scan.
AfScanStarts ==
    /\ mode.af \in Continuous
    /\ af \in {"INACTIVE", "PASSIVE_FOCUSED", "PASSIVE_UNFOCUSED"}
    /\ af' = "PASSIVE_SCAN"
    /\ UNCHANGED <<selected, trigger, ae, awb, aeLock, awbLock, triggered>>

\* Mutant: goes on scanning when a trigger came during the scan.
AfScanEndsUntriggered ==
    /\ af = "PASSIVE_SCAN" /\ ~triggered
    /\ af' \in {"PASSIVE_FOCUSED", "PASSIVE_UNFOCUSED"}
    /\ UNCHANGED <<selected, trigger, ae, awb, aeLock, awbLock, triggered>>

\* It ends the scan; a trigger that came during it locks the focus now.
AfScanEnds ==
    /\ af = "PASSIVE_SCAN"
    /\ af' \in IF triggered THEN AfLocked ELSE {"PASSIVE_FOCUSED", "PASSIVE_UNFOCUSED"}
    /\ UNCHANGED <<selected, trigger, ae, awb, aeLock, awbLock, triggered>>

\* The sweep that a trigger started is done.
AfSweepDone ==
    /\ af = "ACTIVE_SCAN"
    /\ af' \in AfLocked
    /\ UNCHANGED <<selected, trigger, ae, awb, aeLock, awbLock, triggered>>

AeScanStarts ==
    /\ AeOn(mode)
    /\ ae \in {"INACTIVE", "CONVERGED", "FLASH_REQUIRED"}
    /\ ae' = "SEARCHING"
    /\ UNCHANGED <<selected, trigger, af, awb, aeLock, awbLock, triggered>>

AeScanEnds ==
    /\ ae = "SEARCHING"
    /\ ae' \in {"CONVERGED", "FLASH_REQUIRED"}
    /\ UNCHANGED <<selected, trigger, af, awb, aeLock, awbLock, triggered>>

\* Mutant: is done without a look at the lock.
PrecaptureConverges ==
    /\ ae = "PRECAPTURE"
    /\ ae' = "CONVERGED"
    /\ UNCHANGED <<selected, trigger, af, awb, aeLock, awbLock, triggered>>

PrecaptureDone ==
    /\ ae = "PRECAPTURE"
    /\ ae' = IF aeLock THEN "LOCKED" ELSE "CONVERGED"
    /\ UNCHANGED <<selected, trigger, af, awb, aeLock, awbLock, triggered>>

AwbScanStarts ==
    /\ AwbOn(mode)
    /\ awb \in {"INACTIVE", "CONVERGED"}
    /\ awb' = "SEARCHING"
    /\ UNCHANGED <<selected, trigger, af, ae, aeLock, awbLock, triggered>>

AwbScanEnds ==
    /\ awb = "SEARCHING"
    /\ awb' = "CONVERGED"
    /\ UNCHANGED <<selected, trigger, af, ae, aeLock, awbLock, triggered>>

HalStep ==
    \/ AfScanStarts \/ AfScanEnds \/ AfSweepDone
    \/ AeScanStarts \/ AeScanEnds \/ PrecaptureDone
    \/ AwbScanStarts \/ AwbScanEnds

Next ==
    \/ \E sel \in Selections, t \in Triggers, precapture, lockAe, lockAwb \in BOOLEAN :
           Request(sel, t, precapture, lockAe, lockAwb)
    \/ HalStep

\* What the HAL has begun on request it brings to an end: a sweep and the scan a
\* trigger waits for.
Fairness == WF_vars(AfScanEnds) /\ WF_vars(AfSweepDone)

Spec == Init /\ [][Next]_vars
FairSpec == Spec /\ Fairness

-----------------------------------------------------------------------------
(* Properties                                                              *)

\* A machine whose mode in force has no algorithm is INACTIVE, however the
\* mode came to be in force: chosen, by CONTROL_MODE OFF or by a scene; the
\* active scan belongs to the single sweep modes, the passive states to the
\* continuous ones.
StatesFitModes ==
    /\ mode.af \in {"OFF", "EDOF"} => af = "INACTIVE"
    /\ ~AeOn(mode) => ae = "INACTIVE"
    /\ ~AwbOn(mode) => awb = "INACTIVE"
    /\ af = "ACTIVE_SCAN" => mode.af \in SingleSweep
    /\ af \in AfPassive => mode.af \in Continuous

\* The focus is locked, or on its way to be, only while a trigger stands that
\* was not taken back, and then in the way of its mode: no cancel, switch or
\* scan leaves a lock nobody asks for, and no trigger is lost to one.
LockIsAsked ==
    /\ af \in AfLocked \cup {"ACTIVE_SCAN"} => triggered
    /\ triggered => \/ af \in AfLocked \cup {"ACTIVE_SCAN"}
                    \/ af = "PASSIVE_SCAN" /\ mode.af = "CONTINUOUS_PICTURE"

\* Exposure and white balance are held exactly while their locks are on, save
\* for a precapture sequence, which goes back to the lock that is on.
LockIsHeld ==
    /\ AeOn(mode) /\ aeLock => ae \in {"LOCKED", "PRECAPTURE"}
    /\ ae = "LOCKED" => aeLock
    /\ (awb = "LOCKED") = (AwbOn(mode) /\ awbLock)

\* A focus lock survives whatever touches no setting in force: the scans of
\* the HAL, AE and AWB, and the user's own mode selection in a scene where it
\* is to be ignored.
FocusStays ==
    [][(/\ af \in AfLocked /\ af' # af
        /\ selected'.control = selected.control
        /\ selected'.scene = selected.scene
        /\ \/ selected'.user = selected.user
           \/ selected.control = "USE_SCENE_MODE" /\ selected.scene # FacePriority)
       => trigger' = "CANCEL" \/ (trigger' = "START" /\ af' = "ACTIVE_SCAN")]_vars

\* A trigger ends in a lock unless it is taken back, whatever else the
\* requests that follow ask for.
TriggerEndsLocked == triggered ~> (af \in AfLocked \/ ~triggered)
=============================================================================
