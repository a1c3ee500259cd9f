---------------------------- MODULE Camera_proofs ----------------------------
(***************************************************************************)
(* Proofs about two models of the camera that share nothing: Camera3A, for *)
(* any scenes, whatever modes the HAL prefers for them and whatever        *)
(* requests ask for; and CameraProcess, for any models, cameras that are   *)
(* fitted and numbers of crashes and runs.                                 *)
(***************************************************************************)
EXTENDS Camera3A, CameraProcess, FiniteSetTheorems, SequenceTheorems, TLAPS

-----------------------------------------------------------------------------
(* Camera3A: the invariant                                                 *)

\* The invariants of one machine, as conditions on its mode and state.
AfFits(m, s) ==
    /\ m \in {"OFF", "EDOF"} => s = "INACTIVE"
    /\ s = "ACTIVE_SCAN" => m \in SingleSweep
    /\ s \in AfPassive => m \in Continuous

AfAsked(m, s, asked) ==
    /\ s \in AfLocked \cup {"ACTIVE_SCAN"} => asked
    /\ asked => \/ s \in AfLocked \cup {"ACTIVE_SCAN"}
                \/ s = "PASSIVE_SCAN" /\ m = "CONTINUOUS_PICTURE"

AeFits(on, lock, s) ==
    /\ ~on => s = "INACTIVE"
    /\ on /\ lock => s \in {"LOCKED", "PRECAPTURE"}
    /\ s = "LOCKED" => lock

AwbFits(on, lock, s) ==
    /\ ~on => s = "INACTIVE"
    /\ (s = "LOCKED") = (on /\ lock)

Inv3A ==
    /\ TypeOK
    /\ AfFits(mode.af, af)
    /\ AfAsked(mode.af, af, triggered)
    /\ AeFits(AeOn(mode), aeLock, ae)
    /\ AwbFits(AwbOn(mode), awbLock, awb)

LEMMA InvSplit == Inv3A <=> TypeOK /\ StatesFitModes /\ LockIsAsked /\ LockIsHeld
  BY DEF Inv3A, AfFits, AfAsked, AeFits, AwbFits, StatesFitModes, LockIsAsked, LockIsHeld, mode

-----------------------------------------------------------------------------
(* Camera3A: the operators of a request                                    *)

LEMMA InForceType ==
    ASSUME NEW sel \in Selection
    PROVE  InForce(sel) \in Modes
  BY SceneAssumption
     DEF Selection, Modes, InForce, Overrides, AllOff, ControlModes, AfModes, AeModes, AwbModes

\* What a trigger makes of a state that fits the mode fits it, too, and is on
\* its way to a lock exactly if the trigger asks for one.
LEMMA AfOnFits ==
    ASSUME NEW t \in Triggers, NEW m \in AfModes, NEW s \in AfStates, NEW asked \in BOOLEAN,
           AfFits(m, s), AfAsked(m, s, asked), NEW a \in AfOn(t, m, s)
    PROVE  /\ a \in AfStates
           /\ AfFits(m, a)
           /\ AfAsked(m, a, CASE t = "CANCEL" -> FALSE
                              [] t = "START" -> m \in SingleSweep \cup Continuous
                              [] OTHER -> asked)
  <1>1. CASE t = "START"
    <2>1. a \in AfOnStart(m, s)
      BY <1>1 DEF AfOn
    <2>2. CASE m \in SingleSweep
      BY <1>1, <2>1, <2>2
         DEF AfOnStart, AfFits, AfAsked, SingleSweep, Continuous, AfStates, AfLocked, AfPassive
    <2>3. CASE m \in Continuous
      BY <1>1, <2>1, <2>3
         DEF AfOnStart, AfFits, AfAsked, SingleSweep, Continuous, AfStates, AfLocked, AfPassive
    <2>4. CASE m \notin SingleSweep \cup Continuous
      BY <1>1, <2>1, <2>4
         DEF AfOnStart, AfFits, AfAsked, SingleSweep, Continuous, AfStates, AfLocked, AfPassive,
             AfModes
    <2>5. QED
      BY <2>2, <2>3, <2>4
  <1>2. CASE t = "CANCEL"
    BY <1>2 DEF AfOn, AfOnCancel, AfFits, AfAsked, AfStates, AfLocked, AfPassive
  <1>3. CASE t = "IDLE"
    BY <1>3 DEF AfOn
  <1>4. QED
    BY <1>1, <1>2, <1>3 DEF Triggers

LEMMA AeOnRequestFits ==
    ASSUME NEW precapture \in BOOLEAN, NEW lock \in BOOLEAN, NEW m \in Modes, NEW s \in AeStates,
           NEW a \in AeOnRequest(precapture, lock, m, s)
    PROVE  a \in AeStates /\ AeFits(AeOn(m), lock, a)
  BY DEF AeOnRequest, AeFits, AeOn, Locked, AeStates, AwbStates

LEMMA AwbOnRequestFits ==
    ASSUME NEW lock \in BOOLEAN, NEW m \in Modes, NEW s \in AwbStates,
           NEW a \in AwbOnRequest(lock, m, s)
    PROVE  a \in AwbStates /\ AwbFits(AwbOn(m), lock, a)
  BY DEF AwbOnRequest, AwbFits, AwbOn, Locked, AwbStates

-----------------------------------------------------------------------------
(* Camera3A: every step keeps it                                           *)

LEMMA InitInv == Init => Inv3A
  BY SceneAssumption
     DEF Init, Inv3A, TypeOK, AfFits, AfAsked, AeFits, AwbFits, Triggers, AfStates, AfLocked,
         AfPassive, AeStates, AwbStates, SingleSweep, Continuous

LEMMA RequestInv ==
    ASSUME Inv3A, NEW sel \in Selections, NEW t \in Triggers, NEW precapture \in BOOLEAN,
           NEW lockAe \in BOOLEAN, NEW lockAwb \in BOOLEAN,
           Request(sel, t, precapture, lockAe, lockAwb)
    PROVE  Inv3A'
  <1> DEFINE new == InForce(sel)
             After(machine, s) == IF Resets(machine, selected, sel) THEN "INACTIVE" ELSE s
             asked == triggered /\ ~Resets("af", selected, sel)
  <1>1. sel \in Selection /\ selected \in Selection
    BY SceneAssumption DEF Inv3A, TypeOK
  <1>2. new \in Modes /\ mode' = new
    BY <1>1, InForceType DEF Request, mode
  <1>3. new.af \in AfModes
    BY <1>2 DEF Modes
  \* A machine that is not reset keeps its mode.
  <1>4. AfFits(new.af, After("af", af)) /\ AfAsked(new.af, After("af", af), asked)
    <2>1. CASE Resets("af", selected, sel)
      BY <2>1 DEF AfFits, AfAsked, AfLocked, AfPassive
    <2>2. CASE ~Resets("af", selected, sel)
      <3>1. new.af = mode.af
        BY <2>2 DEF Resets, mode
      <3>2. QED
        BY <2>2, <3>1 DEF Inv3A, TypeOK
    <2>3. QED
      BY <2>1, <2>2
  <1>5. After("af", af) \in AfStates
    BY DEF Inv3A, TypeOK, AfStates
  <1>6. af' \in AfStates /\ AfFits(new.af, af') /\ AfAsked(new.af, af', triggered')
    <2>1. af' \in AfOn(t, new.af, After("af", af))
      BY DEF Request
    <2>2. asked \in BOOLEAN
      BY DEF Inv3A, TypeOK
    <2>3. triggered' = CASE t = "CANCEL" -> FALSE
                         [] t = "START" -> new.af \in SingleSweep \cup Continuous
                         [] OTHER -> asked
      BY DEF Request
    <2>4. QED
      BY <1>3, <1>4, <1>5, <2>1, <2>2, <2>3, AfOnFits
  <1>7. ae' \in AeStates /\ AeFits(AeOn(new), lockAe, ae')
    <2>1. ae' \in AeOnRequest(precapture, lockAe, new, After("ae", ae))
      BY DEF Request
    <2>2. After("ae", ae) \in AeStates
      BY DEF Inv3A, TypeOK, AeStates, AwbStates
    <2>3. QED
      BY <1>2, <2>1, <2>2, AeOnRequestFits
  <1>8. awb' \in AwbStates /\ AwbFits(AwbOn(new), lockAwb, awb')
    <2>1. awb' \in AwbOnRequest(lockAwb, new, After("awb", awb))
      BY DEF Request
    <2>2. After("awb", awb) \in AwbStates
      BY DEF Inv3A, TypeOK, AwbStates
    <2>3. QED
      BY <1>2, <2>1, <2>2, AwbOnRequestFits
  <1>9. /\ selected' = sel /\ trigger' = t /\ aeLock' = lockAe /\ awbLock' = lockAwb
    BY DEF Request
  <1>10. triggered' \in BOOLEAN
    <2>1. triggered' = CASE t = "CANCEL" -> FALSE
                         [] t = "START" -> new.af \in SingleSweep \cup Continuous
                         [] OTHER -> asked
      BY DEF Request
    <2>2. asked \in BOOLEAN /\ (new.af \in SingleSweep \cup Continuous) \in BOOLEAN
      BY DEF Inv3A, TypeOK
    <2>3. QED
      BY <2>1, <2>2
  <1>11. TypeOK'
    BY <1>1, <1>6, <1>7, <1>8, <1>9, <1>10 DEF TypeOK
  <1>12. AeFits(AeOn(mode), aeLock, ae)' /\ AwbFits(AwbOn(mode), awbLock, awb)'
    BY <1>2, <1>7, <1>8, <1>9 DEF AeFits, AwbFits, AeOn, AwbOn
  <1>13. AfFits(mode.af, af)' /\ AfAsked(mode.af, af, triggered)'
    BY <1>2, <1>6 DEF AfFits, AfAsked
  <1>14. QED
    BY <1>11, <1>12, <1>13 DEF Inv3A

LEMMA HalStepInv ==
    ASSUME Inv3A, HalStep
    PROVE  Inv3A'
  <1>1. selected \in Selection /\ mode \in Modes
    BY InForceType DEF Inv3A, TypeOK, mode
  <1>2. CASE AfScanStarts
    BY <1>1, <1>2
       DEF AfScanStarts, Inv3A, TypeOK, AfFits, AfAsked, mode, AfStates, AfLocked, AfPassive,
           SingleSweep, Continuous
  <1>3. CASE AfScanEnds
    <2>1. mode.af \in Continuous
      BY <1>3 DEF AfScanEnds, Inv3A, AfFits, AfPassive
    <2>2. AfFits(mode.af, af') /\ AfAsked(mode.af, af', triggered) /\ af' \in AfStates
      BY <1>3, <2>1
         DEF AfScanEnds, AfFits, AfAsked, AfStates, AfLocked, AfPassive, SingleSweep, Continuous
    <2>3. QED
      BY <1>3, <2>2 DEF AfScanEnds, Inv3A, TypeOK, mode
  <1>4. CASE AfSweepDone
    BY <1>1, <1>4
       DEF AfSweepDone, Inv3A, TypeOK, AfFits, AfAsked, mode, AfStates, AfLocked, AfPassive,
           SingleSweep, Continuous
  <1>5. CASE AeScanStarts
    BY <1>5 DEF AeScanStarts, Inv3A, TypeOK, AeFits, mode, AeStates, AwbStates
  <1>6. CASE AeScanEnds
    BY <1>6 DEF AeScanEnds, Inv3A, TypeOK, AeFits, mode, AeStates, AwbStates
  <1>7. CASE PrecaptureDone
    BY <1>7 DEF PrecaptureDone, Inv3A, TypeOK, AeFits, mode, AeStates, AwbStates
  <1>8. CASE AwbScanStarts
    BY <1>8 DEF AwbScanStarts, Inv3A, TypeOK, AwbFits, mode, AwbStates
  <1>9. CASE AwbScanEnds
    BY <1>9 DEF AwbScanEnds, Inv3A, TypeOK, AwbFits, mode, AwbStates
  <1>10. QED
    BY <1>2, <1>3, <1>4, <1>5, <1>6, <1>7, <1>8, <1>9 DEF HalStep

LEMMA StepInv == Inv3A /\ [Next]_vars => Inv3A'
  <1> SUFFICES ASSUME Inv3A, [Next]_vars PROVE Inv3A'
    OBVIOUS
  <1>1. ASSUME NEW sel \in Selections, NEW t \in Triggers, NEW precapture \in BOOLEAN,
               NEW lockAe \in BOOLEAN, NEW lockAwb \in BOOLEAN,
               Request(sel, t, precapture, lockAe, lockAwb)
        PROVE  Inv3A'
    BY <1>1, RequestInv
  <1>2. CASE HalStep
    BY <1>2, HalStepInv
  <1>3. CASE UNCHANGED vars
    BY <1>3 DEF vars, Inv3A, TypeOK, mode, AeOn, AwbOn
  <1>4. QED
    BY <1>1, <1>2, <1>3 DEF Next

LEMMA Invariant3A == Spec => []Inv3A
  BY InitInv, StepInv, PTL DEF Spec

-----------------------------------------------------------------------------
(* Camera3A: the theorems                                                  *)

\* The states of the machines stay in their tables.
THEOREM TypeCorrect == Spec => []TypeOK
  BY Invariant3A, InvSplit, PTL

\* For any scenes and preferred modes, also those in which a machine has no
\* algorithm, no state survives the mode that it belongs to.
THEOREM FitModes == Spec => []StatesFitModes
  BY Invariant3A, InvSplit, PTL

\* The focus is locked for a trigger that stands, and a trigger that stands is
\* not lost, in every order of requests and scans.
THEOREM LocksAsked == Spec => []LockIsAsked
  BY Invariant3A, InvSplit, PTL

\* Exposure and white balance are held exactly while they are to be.
THEOREM LocksHeld == Spec => []LockIsHeld
  BY Invariant3A, InvSplit, PTL

LEMMA StepKeepsFocus ==
    ASSUME Inv3A, [Next]_vars,
           af \in AfLocked, af' # af,
           selected'.control = selected.control, selected'.scene = selected.scene,
           \/ selected'.user = selected.user
           \/ selected.control = "USE_SCENE_MODE" /\ selected.scene # FacePriority
    PROVE  trigger' = "CANCEL" \/ (trigger' = "START" /\ af' = "ACTIVE_SCAN")
  <1>1. ASSUME NEW sel \in Selections, NEW t \in Triggers, NEW precapture \in BOOLEAN,
               NEW lockAe \in BOOLEAN, NEW lockAwb \in BOOLEAN,
               Request(sel, t, precapture, lockAe, lockAwb)
        PROVE  trigger' = "CANCEL" \/ (trigger' = "START" /\ af' = "ACTIVE_SCAN")
    <2>1. selected' = sel /\ trigger' = t
      BY <1>1 DEF Request
    <2>2. InForce(sel) = InForce(selected)
      BY <2>1 DEF InForce, Overrides
    <2>3. ~Resets("af", selected, sel)
      BY <2>1, <2>2 DEF Resets, Switches
    <2>4. af' \in AfOn(t, InForce(sel).af, af)
      BY <1>1, <2>3 DEF Request
    <2>5. CASE t = "START"
      BY <2>1, <2>4, <2>5 DEF AfOn, AfOnStart, AfLocked, SingleSweep, Continuous
    <2>6. CASE t = "IDLE"
      BY <2>4, <2>6 DEF AfOn
    <2>7. QED
      BY <2>1, <2>5, <2>6 DEF Triggers
  <1>2. CASE HalStep
    BY <1>2
       DEF HalStep, AfScanStarts, AfScanEnds, AfSweepDone, AeScanStarts, AeScanEnds,
           PrecaptureDone, AwbScanStarts, AwbScanEnds, AfLocked
  <1>3. CASE UNCHANGED vars
    BY <1>3 DEF vars
  <1>4. QED
    BY <1>1, <1>2, <1>3 DEF Next

\* A focus lock is lost only to a trigger, or to a mode that comes into force.
THEOREM FocusIsKept == Spec => FocusStays
  <1>1. Inv3A /\ [Next]_vars =>
          ((/\ af \in AfLocked /\ af' # af
            /\ selected'.control = selected.control
            /\ selected'.scene = selected.scene
            /\ \/ selected'.user = selected.user
               \/ selected.control = "USE_SCENE_MODE" /\ selected.scene # FacePriority)
           => trigger' = "CANCEL" \/ (trigger' = "START" /\ af' = "ACTIVE_SCAN"))
    BY StepKeepsFocus
  <1>2. QED
    BY <1>1, Invariant3A, PTL DEF Spec, FocusStays

-----------------------------------------------------------------------------
(* CameraProcess: the extra cameras of a model                             *)

Extras == {51, 52, 54}

\* No id is in the list twice.
Injective(s) == \A i, j \in 1..Len(s) : s[i] = s[j] => i = j

LEMMA Elements ==
    ASSUME NEW s \in Seq(Extras)
    PROVE  ToSet(s) = {s[i] : i \in 1..Len(s)} /\ ToSet(s) \subseteq Extras
  BY LenProperties, ElementOfSeq DEF ToSet

LEMMA OneExtra ==
    ASSUME NEW e \in Extras
    PROVE  <<e>> \in Seq(Extras) /\ Injective(<<e>>) /\ Len(<<e>>) = 1
  <1>1. <<e>> \in Seq(Extras) /\ Len(<<e>>) = 1
    OBVIOUS
  <1>2. Injective(<<e>>)
    BY <1>1 DEF Injective
  <1>3. QED
    BY <1>1, <1>2

LEMMA TwoExtras ==
    ASSUME NEW e \in Extras, NEW f \in Extras, e # f, NEW s, s = <<e>> \o <<f>>
    PROVE  s \in Seq(Extras) /\ Injective(s) /\ Len(s) = 2
  <1>1. /\ s \in Seq(Extras) /\ Len(s) = 2
        /\ \A i \in 1..2 : s[i] = IF i <= 1 THEN <<e>>[i] ELSE <<f>>[i - 1]
    BY OneExtra, ConcatProperties
  <1>2. s[1] = e /\ s[2] = f
    BY <1>1
  <1>3. Injective(s)
    BY <1>1, <1>2 DEF Injective
  <1>4. QED
    BY <1>1, <1>3

LEMMA ExtraIDs ==
    ASSUME NEW m
    PROVE  /\ mExtraIDs(m) \in Seq(Extras)
           /\ Injective(mExtraIDs(m))
           /\ Len(mExtraIDs(m)) <= 2
  <1> DEFINE ids == mExtraIDs(m)
  <1>1. <<>> \in Seq(Extras) /\ Injective(<<>>) /\ Len(<<>>) = 0
    BY EmptySeq DEF Injective
  <1>2. 51 \in Extras /\ 52 \in Extras /\ 54 \in Extras
    BY DEF Extras
  <1>3. CASE m = "f62"
    <2>1. ids = (<<>> \o <<>>) \o <<52, 54>>
      BY <1>3 DEF mExtraIDs
    <2>2. <<52, 54>> = <<52>> \o <<54>>
      OBVIOUS
    <2>3. /\ <<52>> \o <<54>> \in Seq(Extras) /\ Injective(<<52>> \o <<54>>)
          /\ Len(<<52>> \o <<54>>) <= 2
      <3>1. 52 # 54 /\ 2 <= 2
        OBVIOUS
      <3>2. QED
        BY <1>2, <3>1, TwoExtras
    <2>4. ids = <<52>> \o <<54>>
      BY <1>1, <2>1, <2>2, <2>3, ConcatEmptySeq
    <2>5. QED
      BY <2>3, <2>4
  <1>4. CASE m \in {"beyond2lte", "beyondx"}
    <2>1. ids = (<<52>> \o <<51>>) \o <<>>
      BY <1>4 DEF mExtraIDs
    <2>2. /\ <<52>> \o <<51>> \in Seq(Extras) /\ Injective(<<52>> \o <<51>>)
          /\ Len(<<52>> \o <<51>>) <= 2
      <3>1. 52 # 51 /\ 2 <= 2
        OBVIOUS
      <3>2. QED
        BY <1>2, <3>1, TwoExtras
    <2>3. ids = <<52>> \o <<51>>
      BY <2>1, <2>2, ConcatEmptySeq
    <2>4. QED
      BY <2>2, <2>3
  <1>5. CASE m = "beyond0lte"
    <2>1. ids = (<<>> \o <<>>) \o <<>>
      BY <1>5 DEF mExtraIDs
    <2>2. QED
      BY <1>1, <2>1, ConcatEmptySeq
  <1>6. CASE m \notin {"f62", "beyond2lte", "beyondx", "beyond0lte"}
    <2>1. ids = (<<52>> \o <<>>) \o <<>>
      BY <1>6 DEF mExtraIDs
    <2>2. ids = <<52>>
      BY <1>2, <2>1, OneExtra, ConcatEmptySeq
    <2>3. QED
      BY <1>2, <2>2, OneExtra
  <1>7. QED
    BY <1>3, <1>4, <1>5, <1>6

\* What the loop has not come to when it goes on to the next id.
LEMMA Rest ==
    ASSUME NEW s \in Seq(Extras), Injective(s), s # <<>>
    PROVE  /\ Head(s) \in ToSet(s)
           /\ Tail(s) \in Seq(Extras) /\ Injective(Tail(s))
           /\ Len(Tail(s)) = Len(s) - 1
           /\ ToSet(Tail(s)) = ToSet(s) \ {Head(s)}
  <1>1. /\ Len(s) \in Nat /\ Len(s) >= 1 /\ Head(s) = s[1]
        /\ Tail(s) \in Seq(Extras) /\ Len(Tail(s)) = Len(s) - 1
        /\ \A i \in 1..(Len(s) - 1) : Tail(s)[i] = s[i + 1]
    BY EmptySeq, HeadTailProperties, LenProperties
  <1>2. Injective(Tail(s))
    BY <1>1 DEF Injective
  <1>3. ToSet(s) = {s[i] : i \in 1..Len(s)}
    BY Elements
  <1>4. ToSet(Tail(s)) = {s[i + 1] : i \in 1..(Len(s) - 1)}
    <2>1. ToSet(Tail(s)) = {Tail(s)[i] : i \in 1..Len(Tail(s))}
      BY <1>1, Elements
    <2>2. QED
      BY <1>1, <2>1
  <1>5. \A i \in 2..Len(s) : s[i] # Head(s) /\ i - 1 \in 1..(Len(s) - 1) /\ (i - 1) + 1 = i
    BY <1>1 DEF Injective
  <1>6. {s[i + 1] : i \in 1..(Len(s) - 1)} = {s[i] : i \in 2..Len(s)}
    BY <1>1
  <1>7. {s[i] : i \in 2..Len(s)} = {s[i] : i \in 1..Len(s)} \ {s[1]}
    BY <1>1, <1>5
  <1>8. QED
    <2>1. ToSet(Tail(s)) = ToSet(s) \ {Head(s)}
      BY <1>1, <1>3, <1>4, <1>6, <1>7
    <2>2. Head(s) \in ToSet(s)
      BY <1>1, <1>3
    <2>3. QED
      BY <1>1, <1>2, <2>1, <2>2

-----------------------------------------------------------------------------
(* CameraProcess: the provider                                             *)

Passed == ToSet(mExtraIDs(model)) \ ToSet(left)

\* What the loop has done so far.
LoopOK ==
    /\ ToSet(left) \subseteq ToSet(mExtraIDs(model))
    /\ \E n \in 0..MaxCounted : mCameraStatusMap = (0..(n - 1)) \cup (fitted \cap Passed)

ProviderInv ==
    /\ ProviderTypeOK
    /\ Injective(left)
    /\ mNumberOfLegacyCameras = Cardinality(mCameraStatusMap)
    /\ mNumberOfLegacyCameras + Len(left) <= MaxCounted + 2
    /\ mInitFailed => ~mModule
    /\ pc = "dead" => mCameraStatusMap = {}
    /\ pc # "dead" /\ ~mInitFailed => LoopOK
    /\ pc = "serving" => mInitFailed \/ left = <<>>

LEMMA NoExtras == <<>> \in Seq(Extras) /\ Injective(<<>>) /\ Len(<<>>) = 0 /\ ToSet(<<>>) = {}
  <1>1. <<>> \in Seq(Extras) /\ Len(<<>>) = 0
    BY EmptySeq
  <1>2. Injective(<<>>)
    BY <1>1 DEF Injective
  <1>3. ToSet(<<>>) = {}
    <2>1. ToSet(<<>>) = {<<>>[i] : i \in 1..Len(<<>>)}
      BY <1>1, Elements
    <2>2. QED
      BY <1>1, <2>1
  <1>4. QED
    BY <1>1, <1>2, <1>3

LEMMA LeftType ==
    ASSUME ProviderInv
    PROVE  /\ left \in Seq(Extras) /\ Injective(left) /\ Len(left) \in Nat
           /\ ToSet(left) \subseteq Extras
  <1>1. left \in Seq(Extras) /\ Injective(left)
    BY DEF ProviderInv, ProviderTypeOK, Extras
  <1>2. QED
    BY <1>1, LenProperties, Elements

LEMMA NobodyThere ==
    ASSUME model \in Models, pc = "dead", mInitFailed = FALSE, mModule = FALSE,
           mCameraStatusMap = {}, mNumberOfLegacyCameras = 0, left = <<>>, fitted = {},
           crashes \in 0..MaxCrashes
    PROVE  ProviderInv
  <1>1. mNumberOfLegacyCameras = Cardinality(mCameraStatusMap)
    BY FS_EmptySet
  <1>2. ProviderTypeOK
    <2>1. left \in Seq({51, 52, 54})
      BY NoExtras DEF Extras
    <2>2. 0 \in 0..(MaxCounted + 3)
      BY ProviderAssumption
    <2>3. QED
      BY <2>1, <2>2 DEF ProviderTypeOK
  <1>3. Injective(left) /\ mNumberOfLegacyCameras + Len(left) <= MaxCounted + 2
    BY ProviderAssumption, NoExtras
  <1>4. QED
    BY <1>1, <1>2, <1>3 DEF ProviderInv

LEMMA ProviderInitInv == ProviderInit => ProviderInv
  <1> SUFFICES ASSUME ProviderInit PROVE ProviderInv
    OBVIOUS
  <1>1. crashes \in 0..MaxCrashes
    BY ProviderAssumption DEF ProviderInit
  <1>2. QED
    BY <1>1, NobodyThere DEF ProviderInit

\* The same for the state that a death leaves.
LEMMA NobodyThereNext ==
    ASSUME ProviderInv, NoProvider, model' = model, crashes' \in 0..MaxCrashes
    PROVE  ProviderInv'
  <1>1. Cardinality({}) = 0
    BY FS_EmptySet
  <1>2. left' = <<>> /\ mCameraStatusMap' = {} /\ mNumberOfLegacyCameras' = 0
    BY DEF NoProvider
  <1>3. ProviderTypeOK'
    <2>1. left' \in Seq({51, 52, 54})
      BY <1>2, NoExtras DEF Extras
    <2>2. 0 \in 0..(MaxCounted + 3)
      BY ProviderAssumption
    <2>3. QED
      BY <2>1, <2>2 DEF ProviderInv, ProviderTypeOK, NoProvider
  <1>4. Injective(left)' /\ (mNumberOfLegacyCameras + Len(left) <= MaxCounted + 2)'
    BY <1>2, ProviderAssumption, NoExtras DEF Injective
  <1>5. QED
    BY <1>1, <1>2, <1>3, <1>4 DEF ProviderInv, NoProvider

\* The ids that the base class counts, and their number.
LEMMA Counted ==
    ASSUME NEW n \in 0..MaxCounted
    PROVE  0..(n - 1) \subseteq 0..54 /\ Cardinality(0..(n - 1)) = n
  <1>1. n \in Nat /\ n <= 50
    BY ProviderAssumption
  <1>2. Cardinality(0..(n - 1)) = IF 0 > n - 1 THEN 0 ELSE (n - 1) - 0 + 1
    BY <1>1, FS_Interval
  <1>3. QED
    BY <1>1, <1>2

LEMMA StartInv ==
    ASSUME ProviderInv, Start
    PROVE  ProviderInv'
  <1> DEFINE ids == mExtraIDs(model)
  <1>1. ids \in Seq(Extras) /\ Injective(ids) /\ Len(ids) \in 0..2 /\ ToSet(ids) \subseteq Extras
    <2>1. ids \in Seq(Extras) /\ Injective(ids) /\ Len(ids) <= 2
      BY ExtraIDs
    <2>2. Len(ids) \in Nat
      BY <2>1, LenProperties
    <2>3. ToSet(ids) \subseteq Extras
      BY <2>1, Elements
    <2>4. \A k \in Nat : k <= 2 => k \in 0..2
      OBVIOUS
    <2>5. Len(ids) \in 0..2
      BY <2>1, <2>2, <2>4
    <2>6. QED
      BY <2>1, <2>3, <2>5
  <1>2. /\ left' = ids /\ model' = model /\ crashes' = crashes /\ pc' = "loop"
        /\ fitted' \subseteq Extras
    BY <1>1 DEF Start
  <1>3. Injective(left)' /\ Passed' = {}
    BY <1>1, <1>2 DEF Injective, Passed
  <1>4. MaxCounted \in Nat /\ MaxCounted <= 50
    BY ProviderAssumption
  <1>8. \A n \in 0..MaxCounted, k \in 0..2 : n + k <= MaxCounted + 2
    BY <1>4
  <1>9. Len(left') \in 0..2
    BY <1>1, <1>2
  <1>5. CASE mInitFailed'
    <2>1. mModule' = FALSE /\ mCameraStatusMap' = {} /\ mNumberOfLegacyCameras' = 0
      <3>1. mModule' = FALSE /\ mCameraStatusMap' = {}
            /\ mNumberOfLegacyCameras' = mNumberOfLegacyCameras
        BY <1>5 DEF Start, ProviderInv
      <3>2. mNumberOfLegacyCameras = 0
        BY FS_EmptySet DEF Start, ProviderInv
      <3>3. QED
        BY <3>1, <3>2
    <2>2. ProviderTypeOK'
      <3>1. mCameraStatusMap' \subseteq 0..54 /\ mNumberOfLegacyCameras' \in 0..(MaxCounted + 3)
        BY <1>4, <2>1
      <3>2. QED
        BY <1>1, <1>2, <1>5, <2>1, <3>1 DEF ProviderInv, ProviderTypeOK, Extras
    <2>3. (mNumberOfLegacyCameras = Cardinality(mCameraStatusMap))'
      BY <2>1, FS_EmptySet
    <2>4. (mNumberOfLegacyCameras + Len(left) <= MaxCounted + 2)'
      <3>1. 0 \in 0..MaxCounted
        BY <1>4
      <3>2. QED
        BY <1>8, <1>9, <2>1, <3>1
    <2>5. QED
      BY <1>2, <1>3, <1>5, <2>1, <2>2, <2>3, <2>4 DEF ProviderInv
  <1>6. CASE ~mInitFailed'
    <2>1. PICK n \in 0..MaxCounted :
              mCameraStatusMap' = 0..(n - 1) /\ mNumberOfLegacyCameras' = n
      BY <1>6 DEF Start
    <2>2. mModule' = TRUE /\ mInitFailed' = FALSE
      BY <1>6 DEF Start
    <2>3. 0..(n - 1) \subseteq 0..54 /\ Cardinality(0..(n - 1)) = n
      BY Counted
    <2>4. ProviderTypeOK'
      <3>1. mCameraStatusMap' \subseteq 0..54 /\ mNumberOfLegacyCameras' \in 0..(MaxCounted + 3)
        BY <1>4, <2>1, <2>3
      <3>2. QED
        BY <1>1, <1>2, <2>2, <3>1 DEF ProviderInv, ProviderTypeOK, Extras
    <2>5. (mNumberOfLegacyCameras + Len(left) <= MaxCounted + 2)'
      BY <1>4, <1>8, <1>9, <2>1
    <2>6. LoopOK'
      BY <1>2, <1>3, <2>1 DEF LoopOK
    <2>7. QED
      BY <1>2, <1>3, <2>1, <2>2, <2>3, <2>4, <2>5, <2>6 DEF ProviderInv
  <1>7. QED
    BY <1>5, <1>6

LEMMA NoCameraInv ==
    ASSUME ProviderInv, NoCamera
    PROVE  ProviderInv'
  <1>1. left \in Seq(Extras) /\ Injective(left) /\ Len(left) \in Nat /\ left # <<>>
    BY LeftType DEF NoCamera, InLoop
  <1>2. /\ Head(left) \in ToSet(left)
        /\ Tail(left) \in Seq(Extras) /\ Injective(Tail(left))
        /\ Len(Tail(left)) = Len(left) - 1
        /\ ToSet(Tail(left)) = ToSet(left) \ {Head(left)}
    BY <1>1, Rest
  <1>3. /\ left' = Tail(left) /\ Head(left) \notin fitted
        /\ pc' = pc /\ pc = "loop" /\ mInitFailed = FALSE
        /\ model' = model /\ mInitFailed' = mInitFailed /\ mModule' = mModule
        /\ mCameraStatusMap' = mCameraStatusMap /\ fitted' = fitted /\ crashes' = crashes
        /\ mNumberOfLegacyCameras' = mNumberOfLegacyCameras
    BY DEF NoCamera, InLoop, ProviderInv, ProviderTypeOK
  <1>4. ProviderTypeOK'
    BY <1>2, <1>3 DEF ProviderInv, ProviderTypeOK, Extras
  <1>5. (mNumberOfLegacyCameras + Len(left) <= MaxCounted + 2)'
    <2>1. mNumberOfLegacyCameras \in Nat /\ MaxCounted \in Nat
      BY ProviderAssumption DEF ProviderInv, ProviderTypeOK
    <2>2. mNumberOfLegacyCameras + Len(left) <= MaxCounted + 2
      BY DEF ProviderInv
    <2>3. \A n, k \in Nat : n + k <= MaxCounted + 2 => n + (k - 1) <= MaxCounted + 2
      BY <2>1
    <2>4. mNumberOfLegacyCameras + (Len(left) - 1) <= MaxCounted + 2
      BY <1>1, <2>1, <2>2, <2>3
    <2>5. QED
      BY <1>2, <1>3, <2>4
  <1>6. LoopOK'
    <2>1. LoopOK
      BY <1>3 DEF ProviderInv
    <2>2. fitted \cap Passed' = fitted \cap Passed
      BY <1>2, <1>3 DEF Passed
    <2>3. QED
      BY <1>2, <1>3, <2>1, <2>2 DEF LoopOK
  <1>7. QED
    BY <1>2, <1>3, <1>4, <1>5, <1>6 DEF ProviderInv

LEMMA VersionFailsInv ==
    ASSUME ProviderInv, VersionFails
    PROVE  ProviderInv'
  <1>1. /\ left' = <<>> /\ mModule' = FALSE /\ mInitFailed' = TRUE
        /\ pc' = pc /\ pc = "loop"
        /\ model' = model
        /\ mCameraStatusMap' = mCameraStatusMap /\ fitted' = fitted /\ crashes' = crashes
        /\ mNumberOfLegacyCameras' = mNumberOfLegacyCameras
    BY DEF VersionFails, InLoop
  <1>2. ProviderTypeOK'
    BY <1>1, NoExtras DEF ProviderInv, ProviderTypeOK, Extras
  <1>3. (mNumberOfLegacyCameras + Len(left) <= MaxCounted + 2)'
    <2>1. /\ mNumberOfLegacyCameras \in Nat /\ MaxCounted \in Nat /\ Len(left) \in Nat
          /\ mNumberOfLegacyCameras + Len(left) <= MaxCounted + 2
      BY LeftType, ProviderAssumption DEF ProviderInv, ProviderTypeOK
    <2>2. mNumberOfLegacyCameras + 0 <= MaxCounted + 2
      BY <2>1
    <2>3. QED
      BY <1>1, <2>2, NoExtras
  <1>4. Injective(left)'
    BY <1>1, NoExtras
  <1>5. QED
    BY <1>1, <1>2, <1>3, <1>4 DEF ProviderInv

\* An extra id is none that the base class has counted.
LEMMA AddCameraInv ==
    ASSUME ProviderInv, AddCamera
    PROVE  ProviderInv'
  <1> DEFINE id == Head(left)
  <1>1. left \in Seq(Extras) /\ Injective(left) /\ Len(left) \in Nat /\ left # <<>>
    BY LeftType DEF AddCamera, InLoop
  <1>2. /\ id \in ToSet(left)
        /\ Tail(left) \in Seq(Extras) /\ Injective(Tail(left))
        /\ Len(Tail(left)) = Len(left) - 1
        /\ ToSet(Tail(left)) = ToSet(left) \ {id}
    BY <1>1, Rest
  <1>3. /\ left' = Tail(left) /\ id \in fitted
        /\ pc' = pc /\ pc = "loop" /\ mInitFailed = FALSE
        /\ model' = model /\ mInitFailed' = mInitFailed /\ mModule' = mModule
        /\ mCameraStatusMap' = mCameraStatusMap \cup {id} /\ fitted' = fitted
        /\ crashes' = crashes
        /\ mNumberOfLegacyCameras' = mNumberOfLegacyCameras + 1
    BY DEF AddCamera, InLoop, ProviderInv, ProviderTypeOK
  <1>4. LoopOK
    BY <1>3 DEF ProviderInv
  <1>5. PICK n \in 0..MaxCounted : mCameraStatusMap = (0..(n - 1)) \cup (fitted \cap Passed)
    BY <1>4 DEF LoopOK
  <1>6. id \in {51, 52, 54}
    BY <1>2, LeftType DEF Extras
  <1>7. id \notin mCameraStatusMap
    <2>1. id \notin 0..(n - 1)
      BY <1>6, ProviderAssumption
    <2>2. id \notin Passed
      BY <1>2 DEF Passed
    <2>3. QED
      BY <1>5, <2>1, <2>2
  <1>8. IsFiniteSet(mCameraStatusMap)
    <2>1. IsFiniteSet(0..54)
      <3>1. 0 \in Int /\ 54 \in Int
        OBVIOUS
      <3>2. QED
        BY <3>1, FS_Interval
    <2>2. QED
      BY <2>1, FS_Subset DEF ProviderInv, ProviderTypeOK
  <1>9. (mNumberOfLegacyCameras = Cardinality(mCameraStatusMap))'
    <2>1. Cardinality(mCameraStatusMap \cup {id}) = Cardinality(mCameraStatusMap) + 1
      BY <1>7, <1>8, FS_AddElement
    <2>2. mNumberOfLegacyCameras = Cardinality(mCameraStatusMap)
      BY DEF ProviderInv
    <2>3. QED
      BY <1>3, <2>1, <2>2
  <1>10. /\ (mNumberOfLegacyCameras + Len(left) <= MaxCounted + 2)'
         /\ mNumberOfLegacyCameras' \in 0..(MaxCounted + 3)
    <2>1. mNumberOfLegacyCameras \in Nat /\ MaxCounted \in Nat
      BY ProviderAssumption DEF ProviderInv, ProviderTypeOK
    <2>2. mNumberOfLegacyCameras + Len(left) <= MaxCounted + 2
      BY DEF ProviderInv
    <2>3. \A m, k \in Nat : m + k <= MaxCounted + 2 => /\ (m + 1) + (k - 1) <= MaxCounted + 2
                                                       /\ m + 1 \in 0..(MaxCounted + 3)
      BY <2>1
    <2>4. /\ (mNumberOfLegacyCameras + 1) + (Len(left) - 1) <= MaxCounted + 2
          /\ mNumberOfLegacyCameras + 1 \in 0..(MaxCounted + 3)
      BY <1>1, <2>1, <2>2, <2>3
    <2>5. QED
      BY <1>2, <1>3, <2>4
  <1>11. ProviderTypeOK'
    <2>1. id \in 0..54
      BY <1>6
    <2>2. mCameraStatusMap' \subseteq 0..54
      BY <1>3, <2>1 DEF ProviderInv, ProviderTypeOK
    <2>3. QED
      BY <1>2, <1>3, <1>10, <2>2 DEF ProviderInv, ProviderTypeOK, Extras
  <1>12. LoopOK'
    <2>1. id \in ToSet(mExtraIDs(model))
      BY <1>2, <1>4 DEF LoopOK
    <2>2. Passed' = Passed \cup {id}
      BY <1>2, <1>3, <2>1 DEF Passed
    <2>3. mCameraStatusMap' = (0..(n - 1)) \cup (fitted' \cap Passed')
      BY <1>3, <1>5, <2>2
    <2>4. ToSet(left)' \subseteq ToSet(mExtraIDs(model))'
      BY <1>2, <1>3, <1>4 DEF LoopOK
    <2>5. QED
      BY <2>3, <2>4 DEF LoopOK
  <1>13. QED
    BY <1>2, <1>3, <1>9, <1>10, <1>11, <1>12 DEF ProviderInv

LEMMA RegisterInv ==
    ASSUME ProviderInv, Register
    PROVE  ProviderInv'
  <1>1. /\ pc' = "serving" /\ pc = "loop" /\ (mInitFailed \/ left = <<>>)
        /\ UNCHANGED <<model, mInitFailed, mCameraStatusMap, mNumberOfLegacyCameras,
                       mModule, left, fitted, crashes>>
    BY DEF Register, InLoop
  <1>2. ProviderTypeOK'
    BY <1>1 DEF ProviderInv, ProviderTypeOK
  <1>3. ~mInitFailed' => LoopOK'
    BY <1>1 DEF ProviderInv, LoopOK, Passed
  <1>4. QED
    BY <1>1, <1>2, <1>3 DEF ProviderInv

LEMMA DiesInv ==
    ASSUME ProviderInv, Dies
    PROVE  ProviderInv'
  <1>1. crashes' \in 0..MaxCrashes
    BY ProviderAssumption DEF ProviderInv, ProviderTypeOK, Dies
  <1>2. QED
    BY <1>1, NobodyThereNext DEF Dies

LEMMA ProviderNextInv == ProviderInv /\ ProviderNext => ProviderInv'
  BY StartInv, NoCameraInv, VersionFailsInv, AddCameraInv, RegisterInv, DiesInv
     DEF ProviderNext

LEMMA ProviderUnchanged == ProviderInv /\ UNCHANGED providerVars => ProviderInv'
  BY DEF ProviderInv, ProviderTypeOK, LoopOK, Passed, providerVars

LEMMA EveryCameraFollows == ProviderInv => EveryCameraShown
  <1> SUFFICES ASSUME ProviderInv, pc = "serving", ~mInitFailed
               PROVE  /\ \A id \in ToSet(mExtraIDs(model)) :
                             id \in fitted <=> id \in mCameraStatusMap
                      /\ mNumberOfLegacyCameras = Cardinality(mCameraStatusMap)
    BY DEF EveryCameraShown, ProviderInv
  <1>1. left = <<>> /\ LoopOK
    BY DEF ProviderInv
  <1>2. Passed = ToSet(mExtraIDs(model))
    BY <1>1, NoExtras DEF Passed
  <1>3. PICK n \in 0..MaxCounted : mCameraStatusMap = (0..(n - 1)) \cup (fitted \cap Passed)
    BY <1>1 DEF LoopOK
  <1>4. ToSet(mExtraIDs(model)) \subseteq {51, 52, 54}
    BY ExtraIDs, Elements DEF Extras
  <1>5. \A id \in {51, 52, 54} : id \notin 0..(n - 1)
    BY ProviderAssumption
  <1>6. \A id \in ToSet(mExtraIDs(model)) : id \in fitted <=> id \in mCameraStatusMap
    BY <1>2, <1>3, <1>4, <1>5
  <1>7. QED
    BY <1>6 DEF ProviderInv

-----------------------------------------------------------------------------
(* CameraProcess: the thread object                                        *)

\* It exists while somebody holds a reference, and a thread that runs was given
\* one by run().
ThreadInv ==
    /\ runs \in 0..MaxRuns
    /\ owned \in BOOLEAN /\ hold \in BOOLEAN /\ strong \in BOOLEAN
    /\ running \in BOOLEAN /\ alive \in BOOLEAN
    /\ pc # "serving" => runs = 0
    /\ alive <=> runs > 0 \/ owned \/ hold \/ strong
    /\ hold \/ strong => running
    /\ ~(hold /\ strong)
    /\ running => runs > 0

LEMMA ThreadFresh ==
    ASSUME runs = 0, owned = TRUE, hold = FALSE, strong = FALSE, running = FALSE, alive = TRUE
    PROVE  ThreadInv
  <1>1. 0 \in 0..MaxRuns
    BY ProcessAssumption
  <1>2. QED
    BY <1>1, Zenon DEF ThreadInv

LEMMA ThreadFreshNext == NoThread => ThreadInv'
  <1>1. 0 \in 0..MaxRuns
    BY ProcessAssumption
  <1>2. QED
    BY <1>1, Zenon DEF NoThread, ThreadInv

LEMMA ThreadUnchanged ==
    ASSUME ThreadInv, UNCHANGED threadVars, pc' # "serving" => pc # "serving"
    PROVE  ThreadInv'
  BY DEF ThreadInv, threadVars

\* The count of references, as a condition.
LEMMA Counts ==
    ASSUME runs' \in Nat
    PROVE  Count > 0 <=> runs' > 0 \/ owned' \/ hold' \/ strong'
  <1> DEFINE a == IF owned' THEN 1 ELSE 0
             b == IF hold' THEN 1 ELSE 0
             c == IF strong' THEN 1 ELSE 0
  <1>1. Count = ((runs' + a) + b) + c
    BY Zenon DEF Count
  <1>2. a \in {0, 1} /\ b \in {0, 1} /\ c \in {0, 1}
    BY Zenon
  <1>3. (a = 1 <=> owned') /\ (b = 1 <=> hold') /\ (c = 1 <=> strong')
    <2>1. 0 # 1
      OBVIOUS
    <2>2. QED
      BY <2>1, Zenon
  <1> HIDE DEF a, b, c
  <1>4. ((runs' + a) + b) + c > 0 <=> runs' > 0 \/ a = 1 \/ b = 1 \/ c = 1
    <2>1. \A r \in Nat, x, y, z \in 0..1 :
              ((r + x) + y) + z > 0 <=> r > 0 \/ x = 1 \/ y = 1 \/ z = 1
      OBVIOUS
    <2>2. a \in 0..1 /\ b \in 0..1 /\ c \in 0..1
      BY <1>2
    <2>3. QED
      BY <2>1, <2>2
  <1>5. QED
    BY <1>1, <1>3, <1>4, Zenon

LEMMA ThreadStepInv ==
    ASSUME ThreadInv, ThreadStep
    PROVE  ThreadInv'
  <1>1. pc = "serving" /\ pc' = pc /\ alive' = (Count > 0)
    BY DEF ThreadStep, Run, LoopBegins, LoopGoesOn, Promote, OwnerDrops, ThreadMoves, providerVars
  <1>2. /\ runs \in 0..MaxRuns /\ owned \in BOOLEAN /\ hold \in BOOLEAN /\ strong \in BOOLEAN
        /\ running \in BOOLEAN /\ alive \in BOOLEAN /\ MaxRuns \in Nat
    BY ProcessAssumption DEF ThreadInv
  <1>3. /\ runs' \in 0..MaxRuns /\ owned' \in BOOLEAN /\ hold' \in BOOLEAN /\ strong' \in BOOLEAN
        /\ running' \in BOOLEAN
        /\ hold' \/ strong' => running'
        /\ ~(hold' /\ strong')
        /\ running' => runs' > 0
    <2>1. CASE Run
      <3>1. /\ runs' = runs + 1 /\ runs < MaxRuns
            /\ owned' = owned /\ strong' = strong
            /\ \/ running' = TRUE /\ hold' = TRUE /\ ~strong
               \/ running' = running /\ hold' = hold
        BY <2>1, Zenon DEF Run, RunHeld, ThreadInv
      <3>2. runs' \in 0..MaxRuns /\ runs' > 0
        BY <1>2, <3>1
      <3>3. (hold \/ strong => running) /\ ~(hold /\ strong)
        BY DEF ThreadInv
      <3>4. CASE running' = TRUE /\ hold' = TRUE /\ ~strong
        BY <1>2, <3>1, <3>2, <3>4
      <3>5. CASE running' = running /\ hold' = hold
        BY <1>2, <3>1, <3>2, <3>3, <3>5
      <3>6. QED
        BY <3>1, <3>4, <3>5
    <2>2. CASE LoopBegins
      BY <1>2, <2>2 DEF LoopBegins, ThreadInv
    <2>3. CASE LoopGoesOn
      <3>1. /\ runs' = runs /\ owned' = owned /\ hold' = hold /\ strong' = FALSE
            /\ running' \in BOOLEAN /\ running /\ ~hold
        BY <2>3 DEF LoopGoesOn, ThreadInv
      <3>2. QED
        BY <1>2, <3>1 DEF ThreadInv
    <2>4. CASE Promote
      BY <1>2, <2>4 DEF Promote, ThreadInv
    <2>5. CASE OwnerDrops
      BY <1>2, <2>5 DEF OwnerDrops, ThreadInv
    <2>6. QED
      BY <2>1, <2>2, <2>3, <2>4, <2>5 DEF ThreadStep
  <1>4. /\ alive' \in BOOLEAN
        /\ alive' <=> runs' > 0 \/ owned' \/ hold' \/ strong'
    <2>1. runs' \in Nat
      BY <1>2, <1>3
    <2>2. Count > 0 <=> runs' > 0 \/ owned' \/ hold' \/ strong'
      BY <2>1, Counts
    <2>3. alive' <=> Count > 0
      BY <1>1
    <2>4. alive' \in BOOLEAN
      BY <1>1
    <2>5. QED
      BY <2>2, <2>3, <2>4
  <1>5. QED
    BY <1>1, <1>3, <1>4 DEF ThreadInv

-----------------------------------------------------------------------------
(* CameraProcess: all together                                             *)

ProcessInv == ProviderInv /\ ThreadInv

LEMMA ProcessInitInv == ProcessInit => ProcessInv
  BY ProviderInitInv, ThreadFresh DEF ProcessInit, ProcessInv

LEMMA ProcessStepInv == ProcessInv /\ [ProcessNext]_processVars => ProcessInv'
  <1> SUFFICES ASSUME ProcessInv, [ProcessNext]_processVars PROVE ProcessInv'
    OBVIOUS
  <1>1. CASE ProviderStep
    <2>1. ProviderInv'
      BY <1>1, ProviderNextInv DEF ProcessInv, ProviderStep
    <2>2. CASE pc' = "dead"
      BY <1>1, <2>1, <2>2, ThreadFreshNext DEF ProcessInv, ProviderStep
    <2>3. CASE pc' # "dead"
      <3>1. UNCHANGED threadVars
        BY <1>1, <2>3 DEF ProviderStep
      <3>2. CASE pc' # "serving" => pc # "serving"
        BY <2>1, <3>1, <3>2, ThreadUnchanged DEF ProcessInv
      \* Only a death leaves "serving".
      <3>3. CASE pc' # "serving" /\ pc = "serving"
        BY <1>1, <2>3, <3>3
           DEF ProviderStep, ProviderNext, Start, NoCamera, VersionFails, AddCamera, InLoop,
               Register, Dies, NoProvider
      <3>4. QED
        BY <3>2, <3>3
    <2>4. QED
      BY <2>2, <2>3
  <1>2. CASE ThreadStep
    <2>1. UNCHANGED providerVars
      BY <1>2 DEF ThreadStep, Run, LoopBegins, LoopGoesOn, Promote, OwnerDrops, ThreadMoves
    <2>2. pc' = pc
      BY <2>1 DEF providerVars
    <2>3. QED
      BY <1>2, <2>1, <2>2, ProviderUnchanged, ThreadStepInv DEF ProcessInv
  <1>3. CASE UNCHANGED processVars
    <2>1. UNCHANGED <<providerVars, threadVars>> /\ pc' = pc
      BY <1>3 DEF processVars, providerVars
    <2>2. QED
      BY <2>1, ProviderUnchanged, ThreadUnchanged DEF ProcessInv
  <1>4. QED
    BY <1>1, <1>2, <1>3 DEF ProcessNext

LEMMA ProcessInvariant == ProcessSpec => []ProcessInv
  BY ProcessInitInv, ProcessStepInv, PTL DEF ProcessSpec

LEMMA ProcessTypes == ProcessInv => ProcessTypeOK
  <1> SUFFICES ASSUME ProcessInv PROVE ProcessTypeOK
    OBVIOUS
  <1>1. {owned, hold, strong, running, alive} \subseteq BOOLEAN
    BY Zenon DEF ProcessInv, ThreadInv
  <1>2. QED
    BY <1>1 DEF ProcessInv, ProcessTypeOK, ProviderInv, ThreadInv

\* Types, and that no thread was run before the provider serves.
THEOREM ProcessTypeCorrect == ProcessSpec => []ProcessTypeOK
  BY ProcessInvariant, ProcessTypes, PTL

\* For any models, however many cameras the module counts and whichever extra
\* ones a device has, a provider that did not fail shows each of those once.
THEOREM CamerasAreShown == ProcessSpec => []EveryCameraShown
  <1>1. ProcessInv => EveryCameraShown
    BY EveryCameraFollows DEF ProcessInv
  <1>2. QED
    BY <1>1, ProcessInvariant, PTL

\* However often run() is called, the thread object outlives its thread.
THEOREM ThreadIsKept == ProcessSpec => []RunKeepsThread
  <1>1. ProcessInv => RunKeepsThread
    BY DEF ProcessInv, ThreadInv, RunKeepsThread
  <1>2. QED
    BY <1>1, ProcessInvariant, PTL
=============================================================================
