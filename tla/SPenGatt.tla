------------------------------ MODULE SPenGatt ------------------------------
(***************************************************************************)
(* What SPenGattCallback makes of a connected pen: it enables notifications *)
(* for the characteristics it wants, one GATT operation after the other,   *)
(* and turns button and motion events into key events.                     *)
(*                                                                         *)
(* A client stands for a BluetoothGatt with the callback object created    *)
(* for it.  Its callbacks run on one binder thread, in the order of the    *)
(* stack; several clients may be connected to the one pen, since a leaked  *)
(* client (SPenConnection) goes on receiving.  Stack and pen are external. *)
(***************************************************************************)
EXTENDS Integers, Sequences

CONSTANTS
    Clients,        \* the clients of the pen
    Motions,        \* the motions <<dx, dy>> that the pen may report
    MaxConnections, \* bound: connections
    MaxPresses,     \* bound: presses of the button
    MaxMotions,     \* bound: motions during one press
    MaxModes        \* bound: changes of the preference

Short == (-(2^15))..(2^15 - 1)

ASSUME GattAssumption ==
    /\ Motions \subseteq Short \X Short
    /\ {MaxConnections, MaxPresses, MaxMotions, MaxModes} \subseteq Nat

VARIABLES
    link,               \* link[c]: the client has a connection
    op,                 \* op[c]: the operation the client waits for
    calls,              \* calls[c]: callbacks not yet run
    notified,           \* notified[c]: characteristics passed on by the stack
    enabled,            \* characteristics the pen sends notifications of
    missing,            \* missing[c]: characteristics found without a descriptor
    mButtonDownTime,    \* the press, for the time it was begun, 0 before
    mButtonHadGesture,
    inject,             \* inject[c]: key events the running callback has to send
    keysDown,           \* keysDown[c]: keys down on behalf of c
    mode,               \* the preference SPEN_MODE
    press,              \* the pen: its last press
    refused,            \* history: clients an operation was refused to
    failed,             \* failed[c], history: descriptors whose write failed
    connections, modes  \* counters of what the bounds limit

callbackVars == <<mButtonDownTime, mButtonHadGesture, inject>>
setupVars == <<op, notified, enabled, missing, refused, failed>>
penVars == <<mode, press, connections, modes>>
vars == <<link, op, calls, notified, enabled, missing, mButtonDownTime, mButtonHadGesture,
          inject, keysDown, mode, press, refused, failed, connections, modes>>

Characteristics == {"BATTERY_LEVEL", "BUTTON_EVENT"}
mEnableCharacteristics == <<"BATTERY_LEVEL", "BUTTON_EVENT">>

-----------------------------------------------------------------------------
(* Key codes and the decoding of events                                    *)

Modes == {"NAVIGATION", "CAMERA", "MEDIA"}
Directions == {"POSITIVE_X", "NEGATIVE_X", "POSITIVE_Y", "NEGATIVE_Y"}

ButtonKey == [NAVIGATION |-> "ENTER", CAMERA |-> "CAMERA", MEDIA |-> "MEDIA_PLAY_PAUSE"]

GestureKey ==
    [NAVIGATION |-> [POSITIVE_X |-> "DPAD_RIGHT", NEGATIVE_X |-> "DPAD_LEFT",
                     POSITIVE_Y |-> "DPAD_DOWN", NEGATIVE_Y |-> "DPAD_UP"],
     CAMERA     |-> [d \in Directions |-> "UNKNOWN"],
     MEDIA      |-> [POSITIVE_X |-> "MEDIA_NEXT", NEGATIVE_X |-> "MEDIA_PREVIOUS",
                     POSITIVE_Y |-> "VOLUME_DOWN", NEGATIVE_Y |-> "VOLUME_UP"]]

Keys == {"ENTER", "CAMERA", "MEDIA_PLAY_PAUSE", "DPAD_RIGHT", "DPAD_LEFT", "DPAD_DOWN", "DPAD_UP",
         "UNKNOWN", "MEDIA_NEXT", "MEDIA_PREVIOUS", "VOLUME_DOWN", "VOLUME_UP"}

Abs(x) == IF x < 0 THEN -x ELSE x

\* Mutant: no cast to short.
UnsignedShort(value, i) == value[i] + 256 * value[i + 1]

\* Two bytes, the low one first, cast to a short.
extractShortValue(value, i) ==
    LET u == value[i] + 256 * value[i + 1] IN IF u >= 2^15 THEN u - 2^16 ELSE u

\* What the pen sends for a motion: two's complement, the low bytes first.
Bytes(motion) ==
    LET u(x) == IF x < 0 THEN x + 2^16 ELSE x
    IN  <<u(motion[1]) % 256, u(motion[1]) \div 256, u(motion[2]) % 256, u(motion[2]) \div 256>>

dX(motion) == extractShortValue(Bytes(motion), 1)
dY(motion) == extractShortValue(Bytes(motion), 3)

IsGesture(dx, dy) == Abs(dx) > 500 \/ Abs(dy) > 500

Direction(dx, dy) ==
    IF Abs(dx) > Abs(dy)
    THEN IF dx > 0 THEN "POSITIVE_X" ELSE "NEGATIVE_X"
    ELSE IF dy > 0 THEN "POSITIVE_Y" ELSE "NEGATIVE_Y"

KeyEvent == [action : {"down", "up"}, key : Keys]
Stroke(key) == <<[action |-> "down", key |-> key], [action |-> "up", key |-> key]>>

-----------------------------------------------------------------------------
(* Types and initial states                                                *)

\* What the stack tells a client.
Call == [kind : {"connected"}]
        \cup [kind : {"discovered"}, service : BOOLEAN]
        \cup [kind : {"written"}, characteristic : Characteristics]
        \cup [kind : {"down"}, press : 1..MaxPresses]
        \cup [kind : {"up"}, press : 1..MaxPresses, still : BOOLEAN]  \* still: history
        \cup [kind : {"move"}, motion : Motions]

Press == [n : 0..MaxPresses, down : BOOLEAN, motions : 0..MaxMotions,
          moved : BOOLEAN]  \* history: far enough for a gesture

TypeOK ==
    /\ link \in [Clients -> BOOLEAN]
    /\ op \in [Clients -> Characteristics \cup {"none", "discover"}]
    /\ calls \in [Clients -> Seq(Call)]
    /\ notified \in [Clients -> SUBSET Characteristics]
    /\ enabled \subseteq Characteristics
    /\ missing \in [Clients -> SUBSET Characteristics]
    /\ mButtonDownTime \in [Clients -> 0..MaxPresses]
    /\ mButtonHadGesture \in [Clients -> BOOLEAN]
    /\ inject \in [Clients -> Seq(KeyEvent)] /\ \A c \in Clients : Len(inject[c]) <= 2
    /\ keysDown \in [Clients -> SUBSET Keys]
    /\ mode \in Modes
    /\ press \in Press
    /\ refused \subseteq Clients
    /\ failed \in [Clients -> SUBSET Characteristics]
    /\ connections \in 0..MaxConnections
    /\ modes \in 0..MaxModes

Init ==
    /\ link = [c \in Clients |-> FALSE]
    /\ op = [c \in Clients |-> "none"]
    /\ calls = [c \in Clients |-> <<>>]
    /\ notified = [c \in Clients |-> {}]
    /\ enabled = {}
    /\ missing = [c \in Clients |-> {}]
    /\ mButtonDownTime = [c \in Clients |-> 0]
    /\ mButtonHadGesture = [c \in Clients |-> FALSE]
    /\ inject = [c \in Clients |-> <<>>]
    /\ keysDown = [c \in Clients |-> {}]
    /\ mode \in Modes
    /\ press = [n |-> 0, down |-> FALSE, motions |-> 0, moved |-> FALSE]
    /\ refused = {}
    /\ failed = [c \in Clients |-> {}]
    /\ connections = 0 /\ modes = 0

-----------------------------------------------------------------------------
(* SPenGattCallback                                                        *)

\* The callback that c runs next; it has sent the keys of the one before.
Runs(c, kind) == inject[c] = <<>> /\ calls[c] # <<>> /\ Head(calls[c]).kind = kind
Return(c) == calls' = [calls EXCEPT ![c] = Tail(@)]

OnConnected(c) ==
    /\ Runs(c, "connected")
    /\ Return(c)
    /\ op' = [op EXCEPT ![c] = "discover"]
    /\ UNCHANGED <<link, notified, enabled, missing, refused, failed, callbackVars, keysDown, penVars>>

\* setCharacteristicNotification, with the operation o still under way: the
\* stack refuses to write a descriptor before the last one is written.
Subscribe(c, characteristic, o) ==
    /\ notified' = [notified EXCEPT ![c] = @ \cup {characteristic}]
    /\ IF characteristic \in missing[c]
       THEN op' = [op EXCEPT ![c] = o] /\ UNCHANGED refused
       ELSE IF o = "none"
       THEN op' = [op EXCEPT ![c] = characteristic] /\ UNCHANGED refused
       ELSE op' = [op EXCEPT ![c] = o] /\ refused' = refused \cup {c}
    /\ UNCHANGED <<link, enabled, missing, failed, callbackVars, keysDown, penVars>>

\* Mutant: all descriptors are written at once.
SubscribeAtOnce(c) ==
    /\ Runs(c, "discovered")
    /\ Return(c)
    /\ notified' = [notified EXCEPT ![c] = Characteristics]
    /\ op' = [op EXCEPT ![c] = "BATTERY_LEVEL"]
    /\ refused' = refused \cup {c}
    /\ UNCHANGED <<link, enabled, missing, failed, callbackVars, keysDown, penVars>>

onServicesDiscovered(c) ==
    /\ Runs(c, "discovered")
    /\ Return(c)
    /\ IF Head(calls[c]).service
       THEN Subscribe(c, mEnableCharacteristics[1], op[c])
       ELSE UNCHANGED <<link, setupVars, callbackVars, keysDown, penVars>>

\* Mutant: a write that failed ends the chain.
onDescriptorWriteIfDone(c) ==
    /\ Runs(c, "written")
    /\ Return(c)
    /\ IF Head(calls[c]).characteristic = "BATTERY_LEVEL" /\ "BATTERY_LEVEL" \notin failed[c]
       THEN Subscribe(c, "BUTTON_EVENT", "none")
       ELSE /\ op' = [op EXCEPT ![c] = "none"]
            /\ UNCHANGED <<link, notified, enabled, missing, refused, failed, callbackVars, keysDown, penVars>>

\* The stack is no longer busy when it calls; the next characteristic is tried
\* whatever became of the last.
onDescriptorWrite(c) ==
    /\ Runs(c, "written")
    /\ Return(c)
    /\ \E index \in 1..Len(mEnableCharacteristics) :
          /\ mEnableCharacteristics[index] = Head(calls[c]).characteristic
          /\ IF index < Len(mEnableCharacteristics)
             THEN Subscribe(c, mEnableCharacteristics[index + 1], "none")
             ELSE /\ op' = [op EXCEPT ![c] = "none"]
                  /\ UNCHANGED <<link, notified, enabled, missing, refused, failed, callbackVars,
                                 keysDown, penVars>>

OnDown(c) ==
    /\ Runs(c, "down")
    /\ Return(c)
    /\ mButtonDownTime' = [mButtonDownTime EXCEPT ![c] = Head(calls[c]).press]
    /\ UNCHANGED <<link, setupVars, mButtonHadGesture, inject, keysDown, penVars>>

\* Mutant: the gesture is not forgotten.
OnUpKeepsGesture(c) ==
    /\ Runs(c, "up")
    /\ Return(c)
    /\ inject' = [inject EXCEPT ![c] = IF mButtonHadGesture[c] THEN <<>> ELSE Stroke(ButtonKey[mode])]
    /\ UNCHANGED <<link, setupVars, mButtonDownTime, mButtonHadGesture, keysDown, penVars>>

\* A press without a gesture is a click; the mode is read once.
OnUp(c) ==
    /\ Runs(c, "up")
    /\ Return(c)
    /\ inject' = [inject EXCEPT ![c] = IF mButtonHadGesture[c] THEN <<>> ELSE Stroke(ButtonKey[mode])]
    /\ mButtonHadGesture' = [mButtonHadGesture EXCEPT ![c] = FALSE]
    /\ UNCHANGED <<link, setupVars, mButtonDownTime, keysDown, penVars>>

OnMove(c) ==
    /\ Runs(c, "move")
    /\ Return(c)
    /\ LET m == Head(calls[c]).motion IN
          IF IsGesture(dX(m), dY(m))
          THEN /\ inject' = [inject EXCEPT ![c] = Stroke(GestureKey[mode][Direction(dX(m), dY(m))])]
               /\ mButtonHadGesture' = [mButtonHadGesture EXCEPT ![c] = TRUE]
          ELSE UNCHANGED <<inject, mButtonHadGesture>>
    /\ UNCHANGED <<link, setupVars, mButtonDownTime, keysDown, penVars>>

\* Mutant: the mode is read again for every key event of a click.
sendEventRereads(c) ==
    /\ inject[c] # <<>>
    /\ inject' = [inject EXCEPT ![c] = Tail(@)]
    /\ LET ev == Head(inject[c])
           key == IF \E m \in Modes : ev.key = ButtonKey[m] THEN ButtonKey[mode] ELSE ev.key
       IN  keysDown' = [keysDown EXCEPT ![c] = IF ev.action = "down" THEN @ \cup {key}
                                               ELSE @ \ {key}]
    /\ UNCHANGED <<link, calls, setupVars, mButtonDownTime, mButtonHadGesture, penVars>>

sendEvent(c) ==
    /\ inject[c] # <<>>
    /\ inject' = [inject EXCEPT ![c] = Tail(@)]
    /\ LET ev == Head(inject[c]) IN
          keysDown' = [keysDown EXCEPT ![c] = IF ev.action = "down" THEN @ \cup {ev.key}
                                              ELSE @ \ {ev.key}]
    /\ UNCHANGED <<link, calls, setupVars, mButtonDownTime, mButtonHadGesture, penVars>>

-----------------------------------------------------------------------------
(* The stack, the pen and the user                                         *)

\* connectGatt made a client with a new callback object, and it is connected.
Connect(c) ==
    /\ ~link[c] /\ inject[c] = <<>>
    /\ connections < MaxConnections
    /\ connections' = connections + 1
    /\ link' = [link EXCEPT ![c] = TRUE]
    /\ op' = [op EXCEPT ![c] = "none"]
    /\ calls' = [calls EXCEPT ![c] = <<[kind |-> "connected"]>>]
    /\ notified' = [notified EXCEPT ![c] = {}]
    /\ missing' = [missing EXCEPT ![c] = {}]
    /\ failed' = [failed EXCEPT ![c] = {}]
    /\ mButtonDownTime' = [mButtonDownTime EXCEPT ![c] = 0]
    /\ mButtonHadGesture' = [mButtonHadGesture EXCEPT ![c] = FALSE]
    /\ UNCHANGED <<enabled, inject, keysDown, mode, press, refused, modes>>

\* The link is lost or the client closed: what was not run is dropped.
Disconnect(c) ==
    /\ link[c]
    /\ link' = [link EXCEPT ![c] = FALSE]
    /\ calls' = [calls EXCEPT ![c] = <<>>]
    /\ enabled' = IF \E d \in Clients \ {c} : link[d] THEN enabled ELSE {}
    /\ UNCHANGED <<op, notified, missing, refused, failed, callbackVars, keysDown, penVars>>

\* Discovery ends, perhaps without the service or some descriptors.
ServicesFound(c) ==
    /\ link[c] /\ op[c] = "discover"
    /\ op' = [op EXCEPT ![c] = "none"]
    /\ \E service \in BOOLEAN, without \in SUBSET Characteristics :
          /\ calls' = [calls EXCEPT ![c] = Append(@, [kind |-> "discovered", service |-> service])]
          /\ missing' = [missing EXCEPT ![c] = IF service THEN without ELSE Characteristics]
    /\ UNCHANGED <<link, notified, enabled, refused, failed, callbackVars, keysDown, penVars>>

\* A descriptor is written, or the write failed; the client is told once.
DescriptorWritten(c) ==
    /\ link[c] /\ op[c] \in Characteristics
    /\ \A i \in 1..Len(calls[c]) : calls[c][i].kind # "written"
    /\ calls' = [calls EXCEPT ![c] = Append(@, [kind |-> "written", characteristic |-> op[c]])]
    /\ \/ /\ enabled' = enabled \cup {op[c]}
          /\ UNCHANGED failed
       \/ /\ failed' = [failed EXCEPT ![c] = @ \cup {op[c]}]
          /\ UNCHANGED enabled
    /\ UNCHANGED <<link, op, notified, missing, refused, callbackVars, keysDown, penVars>>

\* What the pen sends is passed on to every client that registered for it.
Notify(call) ==
    calls' = [c \in Clients |->
                 IF link[c] /\ "BUTTON_EVENT" \in enabled \cap notified[c]
                 THEN Append(calls[c], call) ELSE calls[c]]

PressButton ==
    /\ ~press.down /\ press.n < MaxPresses
    /\ press' = [n |-> press.n + 1, down |-> TRUE, motions |-> 0, moved |-> FALSE]
    /\ Notify([kind |-> "down", press |-> press.n + 1])
    /\ UNCHANGED <<link, setupVars, callbackVars, keysDown, mode, connections, modes>>

\* The pen reports motions while the button is down.
MovePen ==
    /\ press.down /\ press.motions < MaxMotions
    /\ \E motion \in Motions :
          /\ press' = [press EXCEPT !.motions = @ + 1,
                                    !.moved = @ \/ IsGesture(motion[1], motion[2])]
          /\ Notify([kind |-> "move", motion |-> motion])
    /\ UNCHANGED <<link, setupVars, callbackVars, keysDown, mode, connections, modes>>

ReleaseButton ==
    /\ press.down
    /\ press' = [press EXCEPT !.down = FALSE]
    /\ Notify([kind |-> "up", press |-> press.n, still |-> ~press.moved])
    /\ UNCHANGED <<link, setupVars, callbackVars, keysDown, mode, connections, modes>>

SetMode ==
    /\ modes < MaxModes
    /\ modes' = modes + 1
    /\ mode' \in Modes \ {mode}
    /\ UNCHANGED <<link, calls, setupVars, callbackVars, keysDown, press, connections>>

-----------------------------------------------------------------------------
Callback(c) ==
    \/ OnConnected(c) \/ onServicesDiscovered(c) \/ onDescriptorWrite(c)
    \/ OnDown(c) \/ OnUp(c) \/ OnMove(c)
    \/ sendEvent(c)

Stack(c) == ServicesFound(c) \/ DescriptorWritten(c)

Next ==
    \/ \E c \in Clients : Callback(c) \/ Stack(c) \/ Connect(c) \/ Disconnect(c)
    \/ PressButton \/ MovePen \/ ReleaseButton
    \/ SetMode

Spec == Init /\ [][Next]_vars

\* Binder threads run and the stack answers.
Fairness == \A c \in Clients : WF_vars(Callback(c)) /\ WF_vars(Stack(c))

FairSpec == Spec /\ Fairness

-----------------------------------------------------------------------------
(* Properties                                                              *)

\* SPenGattCallback.java:113, "GATT doesn't support multiple operations at the
\* same time": the stack never refuses to write a descriptor, so no
\* characteristic is left out because of another.
NeverRefused == refused = {}

\* The callback object c handles its next call in this step.
Handles(c, kind) == Runs(c, kind) /\ calls'[c] = Tail(calls[c]) /\ link'[c]

\* A press means one thing, whatever is queued, lost or changed meanwhile: a
\* callback that was told of the whole press sends the button's key if and only
\* if the pen made no gesture.
ClickIffStill ==
    [][\A c \in Clients :
          Handles(c, "up") /\ mButtonDownTime[c] = Head(calls[c]).press
              => (inject'[c] # <<>> <=> Head(calls[c]).still)]_vars

\* The motion that a key stands for.
Toward(key, motion) ==
    /\ key \in {"DPAD_RIGHT", "MEDIA_NEXT"} => motion[1] > Abs(motion[2])
    /\ key \in {"DPAD_LEFT", "MEDIA_PREVIOUS"} => (-motion[1]) > Abs(motion[2])
    /\ key \in {"DPAD_DOWN", "VOLUME_DOWN"} => motion[2] >= Abs(motion[1])
    /\ key \in {"DPAD_UP", "VOLUME_UP"} => (-motion[2]) >= Abs(motion[1])

\* The bytes of a motion are decoded to the motion: a key is sent for one that
\* goes far enough along an axis, and it is the key of its longer axis.
GestureFollowsMotion ==
    [][\A c \in Clients :
          Handles(c, "move") =>
              LET motion == Head(calls[c]).motion
              IN  /\ inject'[c] # <<>> <=> \E i \in {1, 2} : Abs(motion[i]) > 500
                  /\ \A i \in 1..Len(inject'[c]) : Toward(inject'[c][i].key, motion)]_vars

\* No key stays down once a callback has returned, although the mode may change
\* while it sends the keys.
NoStuckKey == \A c \in Clients : inject[c] = <<>> => keysDown[c] = {}

\* A connected client is told of the button in the end, if the pen has what the
\* chain of descriptors needs.
ButtonsWork ==
    \A c \in Clients :
        link[c] ~> \/ ~link[c]
                   \/ "BUTTON_EVENT" \in enabled \cap notified[c]
                   \/ missing[c] # {}
                   \/ "BUTTON_EVENT" \in failed[c]
=============================================================================
