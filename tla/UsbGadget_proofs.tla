-------------------------- MODULE UsbGadget_proofs --------------------------
(***************************************************************************)
(* Proofs about UsbGadget, for any set of configurations that the          *)
(* framework switches to and any numbers of waits that time out and of     *)
(* deaths of adbd: however far init lags behind, the gadget ends up as     *)
(* sys.usb.config says; and if every wait is answered, what init reports   *)
(* is so and a host sees no mixture of two configurations.                 *)
(***************************************************************************)
EXTENDS UsbGadget, SequenceTheorems, TLAPS

GadgetType ==
    [enabled : BOOLEAN, functions : Values \cup {Functions(c) : c \in Values}, class : {0, 2},
     product : {Product(c) : c \in Values}]

Types == TypeOK /\ gadget \in GadgetType

\* s is what is left of the commands t.
Rest(s, t) ==
    Len(s) <= Len(t) /\ \A i \in 1..Len(s) : s[i] = t[Len(t) - Len(s) + i]

Left == Len(commands)
Start == <<Do("start", None)>>

\* The changes in the queue: to "none", to a configuration, of those the ones
\* after every "none", and sys.usb.ffs.ready=1.
Offs == {i \in DOMAIN queue : queue[i].of = "config" /\ queue[i].to = None}
Ons == {i \in DOMAIN queue : queue[i].of = "config" /\ queue[i].to # None}
LastOns == {i \in Ons : \A j \in Offs : j < i}
Readys == {i \in DOMAIN queue : queue[i].of = "ready"}

\* The framework alternates: after the last "none" comes at most one change,
\* to what sys.usb.config is now.
QueueOK ==
    /\ \A i \in LastOns : queue[i].to = config /\ config \in Requests
    /\ \A i, j \in LastOns : i = j
    /\ Offs # {} /\ LastOns = {} => config = None
    /\ stage = "disabling" <=> config = None
    /\ stage = "switching" => config = target
    /\ stage # "idle" => target \in Requests
    /\ config = Unset => queue = <<>> /\ commands = <<>>

\* Nothing of a configuration other than the current one is left.
NoMore ==
    /\ gadget.class \in {0, Class(config)}
    /\ conn => config.base \in Conn

\* The commands of "none" run or have run.
Disabled ==
    /\ Rest(commands, Disable)
    /\ Left < 5 => ~gadget.enabled
    /\ Left < 4 => adbd = "stopped"
    /\ Left < 3 => ~ready
    /\ Left < 2 => gadget.class = 0 /\ ~conn

\* The adbd of before had become ready: init sets the current configuration up
\* before its turn, without adbd.
TooEarly ==
    /\ config \in Configs /\ config.adb
    /\ Rest(commands, Activate(config))
    /\ adbd = "stopped" /\ ~ready
    /\ NoMore

\* The commands of a configuration without adb.
Plain ==
    /\ Rest(commands, Activate(config))
    /\ Left < 3 => Is(config)
    /\ Left < 2 => gadget.enabled

\* Those of one with adb: when adbd serves, the gadget is set up and on or will
\* be, by commands underway or by the change of sys.usb.ffs.ready.
Adb ==
    /\ Rest(commands, Start) \/ Rest(commands, Activate(config))
    /\ adbd = "stopped" => commands = Start
    /\ adbd = "serving" =>
          \/ Readys # {}
          \/ Left = 3
          \/ Left = 2 /\ Is(config)
          \/ Is(config) /\ gadget.enabled

\* As long as a "none" is in the queue, anything may be.
GadgetOK ==
    Offs = {} =>
        IF Ons # {} THEN Disabled \/ TooEarly
        ELSE IF config \in {None, Unset} THEN Disabled
        ELSE config \in Configs => NoMore /\ (IF config.adb THEN Adb ELSE Plain)

Settled == commands = <<>> /\ adbd # "starting" /\ Readys = {}
Waiting == state = None /\ ~gadget.enabled

Consistent ==
    \E c \in Configs : gadget.functions = Functions(c) /\ gadget.product = Product(c)
                       /\ gadget.class = Class(c)

DisablingOK ==
    /\ Ons = {} /\ \A i, j \in Offs : i = j
    /\ IF Offs # {} THEN Settled /\ state # None
       ELSE Readys = {} /\ adbd # "starting" /\ (state = None => commands = <<>>)

AdbdStarts ==
    /\ target.adb
    /\ \/ commands = Start /\ Readys = {} /\ adbd = "stopped"
       \/ commands = <<>> /\ Readys = {} /\ adbd = "starting"
       \/ commands = <<>> /\ Readys # {} /\ adbd = "serving" /\ \A i, j \in Readys : i = j

Activated ==
    /\ Rest(commands, Activate(config)) /\ Readys = {}
    /\ adbd = IF target.adb THEN "serving" ELSE "stopped"
    /\ Left > 1 => Waiting
    /\ Left = 1 => state = None
    /\ Left < 2 => Is(target) /\ gadget.enabled

SwitchingOK ==
    /\ Offs = {}
    /\ IF Ons # {} \/ target \notin Configs THEN Settled /\ Waiting
       ELSE (AdbdStarts /\ Waiting) \/ Activated

\* As long as every wait was answered and adbd lives, init keeps up.
InStep ==
    Undisturbed =>
        /\ gadget.enabled => Consistent
        /\ stage = "idle" => Settled /\ Offs \cup Ons = {} /\ state # None
        /\ stage = "disabling" => DisablingOK
        /\ stage = "switching" => SwitchingOK

GadgetInv == Types /\ QueueOK /\ GadgetOK /\ InStep

-----------------------------------------------------------------------------
(* Configurations                                                          *)

LEMMA BoundsType == MaxHasty \in Nat /\ MaxDeaths \in Nat
  BY GadgetAssumption

LEMMA ConfigFacts ==
    /\ None # Unset
    /\ None \notin Configs /\ Unset \notin Configs
    /\ None \notin Requests /\ Unset \notin Requests
    /\ Configs \subseteq Values /\ Requests \subseteq Values
    /\ None \in Values /\ Unset \in Values
    /\ \A c \in Configs : c.base # "none" /\ c.adb \in BOOLEAN
  <1>1. \A c \in Configs : c.base # "none" /\ c.base # "unset" /\ c.adb \in BOOLEAN
    BY DEF Configs, With, Both, AdbOnly, PlainOnly, Diag, Mtp, Charging, Accessory
  <1>2. ASSUME NEW c \in Requests PROVE c.base # "none" /\ c.base # "unset"
    <2>1. c \in Configs \/ c = [base |-> "diag,acm", adb |-> TRUE]
      BY GadgetAssumption
    <2>2. CASE c \in Configs
      BY <1>1, <2>2
    <2>3. CASE c = [base |-> "diag,acm", adb |-> TRUE]
      BY <2>3
    <2>4. QED
      BY <2>1, <2>2, <2>3
  <1>3. None.base = "none" /\ Unset.base = "unset"
    BY DEF None, Unset
  <1>4. QED
    BY <1>1, <1>2, <1>3 DEF Values

LEMMA ClassFacts ==
    ASSUME NEW c
    PROVE  Class(c) \in {0, 2} /\ (~WritesClass(c) => Class(c) = 0)
  BY DEF Class, WritesClass

\* The functions of a configuration are some, adb's among them if it has adb.
LEMMA FunctionsFacts ==
    ASSUME NEW c \in Configs
    PROVE  /\ Functions(c) # None /\ Functions(c).adb = c.adb
           /\ c.base \notin DOMAIN Literal => Functions(c) = c
  <1>1. c = [base |-> c.base, adb |-> c.adb] /\ c.base # "none"
    BY ConfigFacts DEF Configs, With
  <1>2. CASE c.base \notin DOMAIN Literal
    BY <1>2, ConfigFacts DEF Functions
  <1>3. CASE c.base \in DOMAIN Literal
    <2>1. Literal[c.base] # "none"
      BY <1>3 DEF Literal
    <2>2. Functions(c) = [c EXCEPT !.base = Literal[c.base]]
      BY <1>3 DEF Functions
    <2>3. QED
      BY <1>1, <1>3, <2>1, <2>2 DEF None
  <1>4. QED
    BY <1>2, <1>3

-----------------------------------------------------------------------------
(* Commands                                                                *)

LEMMA ActivateIs ==
    ASSUME NEW c \in Values
    PROVE  /\ Activate(c) \in Seq(Commands) /\ Len(Activate(c)) = 3
           /\ Activate(c)[1].do = "configure" /\ Activate(c)[1].for = c
           /\ Activate(c)[2].do = "enable" /\ Activate(c)[3].do = "ack"
  <1>1. Do("configure", c) \in Commands /\ Do("enable", c) \in Commands
    BY DEF Commands, Do
  <1>2. Do("ack", None) \in Commands
    BY ConfigFacts DEF Commands, Do
  <1>3. /\ Activate(c) \in Seq(Commands) /\ Len(Activate(c)) = 3
        /\ Activate(c)[1] = Do("configure", c) /\ Activate(c)[2] = Do("enable", c)
        /\ Activate(c)[3] = Do("ack", None)
    BY <1>1, <1>2 DEF Activate
  <1>4. QED
    BY <1>3 DEF Do

LEMMA DisableIs ==
    /\ Disable \in Seq(Commands) /\ Len(Disable) = 5
    /\ Disable[1].do = "disable" /\ Disable[2].do = "stop" /\ Disable[3].do = "unready"
    /\ Disable[4].do = "clear" /\ Disable[5].do = "ack"
  <1>1. /\ Do("disable", None) \in Commands /\ Do("stop", None) \in Commands
        /\ Do("unready", None) \in Commands /\ Do("clear", None) \in Commands
        /\ Do("ack", None) \in Commands
    BY ConfigFacts DEF Commands, Do
  <1>2. /\ Disable \in Seq(Commands) /\ Len(Disable) = 5
        /\ Disable[1] = Do("disable", None) /\ Disable[2] = Do("stop", None)
        /\ Disable[3] = Do("unready", None) /\ Disable[4] = Do("clear", None)
        /\ Disable[5] = Do("ack", None)
    BY <1>1 DEF Disable
  <1>3. QED
    BY <1>2 DEF Do

LEMMA StartIs ==
    Start \in Seq(Commands) /\ Start # <<>> /\ Len(Start) = 1 /\ Start[1].do = "start"
  <1>1. Do("start", None) \in Commands
    BY ConfigFacts DEF Commands, Do
  <1>2. Start \in Seq(Commands) /\ Start # <<>> /\ Len(Start) = 1
        /\ Start[1] = Do("start", None)
    BY <1>1 DEF Start
  <1>3. QED
    BY <1>2 DEF Do

LEMMA RestTail ==
    ASSUME NEW s \in Seq(Commands), NEW t \in Seq(Commands), s # <<>>, Rest(s, t)
    PROVE  /\ Len(s) \in 1..Len(t) /\ Head(s) = t[Len(t) - Len(s) + 1]
           /\ Rest(Tail(s), t)
  <1>1. Len(s) \in Nat \ {0} /\ Len(t) \in Nat /\ Len(Tail(s)) = Len(s) - 1 /\ Head(s) = s[1]
    OBVIOUS
  <1>2. \A i \in 1..Len(Tail(s)) : Tail(s)[i] = s[i + 1]
    OBVIOUS
  <1>3. ASSUME NEW i \in 1..Len(Tail(s))
        PROVE  Tail(s)[i] = t[Len(t) - Len(Tail(s)) + i]
    <2>1. i + 1 \in 1..Len(s) /\ Len(t) - Len(s) + (i + 1) = Len(t) - Len(Tail(s)) + i
      BY <1>1
    <2>2. QED
      BY <1>2, <2>1 DEF Rest
  <1>4. QED
    BY <1>1, <1>3 DEF Rest

LEMMA RestSelf == ASSUME NEW t \in Seq(Commands) PROVE Rest(t, t) /\ Rest(<<>>, t)
  BY DEF Rest

LEMMA RunFacts ==
    ASSUME Types, NEW do, Run(do)
    PROVE  /\ Left \in 1..5 /\ Left' = Left - 1
           /\ commands' \in Seq(Commands) /\ Len(commands') <= 5
           /\ commands # <<>> /\ (Left = 1 => commands' = <<>>)
           /\ commands \in Seq(Commands) /\ commands' = Tail(commands)
           /\ Head(commands) \in Commands /\ Head(commands).do = do
  <1>1. /\ commands \in Seq(Commands) /\ commands # <<>> /\ Len(commands) <= 5
        /\ commands' = Tail(commands) /\ Head(commands).do = do
    BY DEF Types, TypeOK, Run
  <1>2. /\ Len(commands) \in Nat \ {0} /\ Len(commands') = Len(commands) - 1
        /\ commands' \in Seq(Commands) /\ Head(commands) \in Commands
    BY <1>1, EmptySeq, HeadTailProperties
  <1>3. Left \in 1..5 /\ Left' = Left - 1 /\ Len(commands') <= 5
    BY <1>1, <1>2 DEF Left
  <1>4. Left = 1 => commands' = <<>>
    BY <1>2, EmptySeq DEF Left
  <1>5. QED
    BY <1>1, <1>2, <1>3, <1>4

\* Which command it is says how many are left.
LEMMA RunOf ==
    ASSUME Types, NEW do, Run(do), NEW t \in Seq(Commands), Rest(commands, t)
    PROVE  /\ Rest(commands', t)
           /\ \E i \in 1..Len(t) :
                 i + Left = Len(t) + 1 /\ t[i].do = do /\ Head(commands) = t[i]
  <1>1. /\ commands \in Seq(Commands) /\ commands # <<>> /\ commands' = Tail(commands)
        /\ Head(commands).do = do
    BY RunFacts
  <1>2. /\ Len(commands) \in 1..Len(t) /\ Head(commands) = t[Len(t) - Len(commands) + 1]
        /\ Rest(Tail(commands), t)
    BY <1>1, RestTail
  <1> DEFINE i == Len(t) - Len(commands) + 1
  <1>3. i \in 1..Len(t) /\ i + Left = Len(t) + 1
    BY <1>2 DEF Left
  <1>4. QED
    BY <1>1, <1>2, <1>3

LEMMA RunOfDisable ==
    ASSUME Types, NEW do, Run(do), Rest(commands, Disable)
    PROVE  /\ Rest(commands', Disable)
           /\ \/ Left = 5 /\ do = "disable"
              \/ Left = 4 /\ do = "stop"
              \/ Left = 3 /\ do = "unready"
              \/ Left = 2 /\ do = "clear"
              \/ Left = 1 /\ do = "ack"
  <1>0. /\ Rest(commands', Disable)
        /\ \E i \in 1..Len(Disable) : i + Left = Len(Disable) + 1 /\ Disable[i].do = do
    <2>1. Disable \in Seq(Commands)
      BY DisableIs
    <2>2. QED
      BY <2>1, RunOf
  <1>1. PICK i \in 1..5 : i + Left = 5 + 1 /\ Disable[i].do = do
    <2>1. Len(Disable) = 5
      BY DisableIs
    <2>2. QED
      BY <1>0, <2>1
  <1>2. i = 1 \/ i = 2 \/ i = 3 \/ i = 4 \/ i = 5
    OBVIOUS
  <1>3. Left \in Nat
    BY RunFacts
  <1>4. QED
    BY <1>0, <1>1, <1>2, <1>3, DisableIs

LEMMA RunOfActivate ==
    ASSUME Types, NEW do, Run(do), NEW c \in Values, Rest(commands, Activate(c))
    PROVE  /\ Rest(commands', Activate(c))
           /\ \/ Left = 3 /\ do = "configure" /\ Head(commands).for = c
              \/ Left = 2 /\ do = "enable"
              \/ Left = 1 /\ do = "ack"
  <1>1. PICK t \in Seq(Commands) : t = Activate(c)
    BY ActivateIs
  <1>2. /\ Len(t) = 3 /\ t[1].do = "configure" /\ t[1].for = c /\ t[2].do = "enable"
        /\ t[3].do = "ack"
    BY <1>1, ActivateIs
  <1>3. /\ Rest(commands', t)
        /\ \E i \in 1..Len(t) :
              i + Left = Len(t) + 1 /\ t[i].do = do /\ Head(commands) = t[i]
    BY <1>1, RunOf
  <1>4. PICK i \in 1..3 : i + Left = 3 + 1 /\ t[i].do = do /\ Head(commands) = t[i]
    BY <1>2, <1>3
  <1>5. i = 1 \/ i = 2 \/ i = 3
    OBVIOUS
  <1>6. Left \in Nat
    BY RunFacts
  <1>7. QED
    BY <1>1, <1>2, <1>3, <1>4, <1>5, <1>6

LEMMA RunOfStart ==
    ASSUME Types, NEW do, Run(do), Rest(commands, Start)
    PROVE  Left = 1 /\ do = "start" /\ commands' = <<>>
  <1>1. PICK i \in 1..1 : i + Left = 1 + 1 /\ Start[i].do = do
    BY RunOf, StartIs
  <1>2. i = 1 /\ Left \in Nat
    BY RunFacts
  <1>3. Left = 1 /\ do = "start"
    BY <1>1, <1>2, StartIs
  <1>4. QED
    BY <1>3, RunFacts

-----------------------------------------------------------------------------
(* The queue                                                               *)

LEMMA QueueTypes ==
    ASSUME queue \in Seq(Changes)
    PROVE  /\ Len(queue) \in Nat /\ DOMAIN queue = 1..Len(queue)
           /\ \A i \in DOMAIN queue : queue[i] \in Changes
           /\ Offs \subseteq 1..Len(queue) /\ Ons \subseteq 1..Len(queue)
           /\ Readys \subseteq 1..Len(queue)
           /\ queue = <<>> => Offs = {} /\ Ons = {} /\ Readys = {}
  BY DEF Offs, Ons, Readys

LEMMA Appended ==
    ASSUME queue \in Seq(Changes), NEW e \in Changes, queue' = Append(queue, e)
    PROVE  LET m == Len(queue) + 1 IN
           /\ queue' \in Seq(Changes) /\ queue' # <<>>
           /\ \A i \in 1..Len(queue) : queue'[i] = queue[i]
           /\ queue'[m] = e
           /\ Offs' = IF e.of = "config" /\ e.to = None THEN Offs \cup {m} ELSE Offs
           /\ Ons' = IF e.of = "config" /\ e.to # None THEN Ons \cup {m} ELSE Ons
           /\ Readys' = IF e.of = "ready" THEN Readys \cup {m} ELSE Readys
  <1> DEFINE m == Len(queue) + 1
  <1>1. /\ queue' \in Seq(Changes) /\ queue' # <<>> /\ DOMAIN queue' = 1..m
        /\ \A i \in 1..Len(queue) : queue'[i] = queue[i]
        /\ queue'[m] = e
        /\ Len(queue) \in Nat /\ DOMAIN queue = 1..Len(queue)
    OBVIOUS
  <1>2. DOMAIN queue' = DOMAIN queue \cup {m} /\ m \notin DOMAIN queue
    BY <1>1
  <1> HIDE DEF m
  <1>3. Offs' = IF e.of = "config" /\ e.to = None THEN Offs \cup {m} ELSE Offs
    BY <1>1, <1>2 DEF Offs
  <1>4. Ons' = IF e.of = "config" /\ e.to # None THEN Ons \cup {m} ELSE Ons
    BY <1>1, <1>2 DEF Ons
  <1>5. Readys' = IF e.of = "ready" THEN Readys \cup {m} ELSE Readys
    BY <1>1, <1>2 DEF Readys
  <1>6. QED
    BY <1>1, <1>3, <1>4, <1>5 DEF m

LEMMA Dispatched ==
    ASSUME queue \in Seq(Changes), queue # <<>>, queue' = Tail(queue)
    PROVE  /\ queue' \in Seq(Changes) /\ 1 \in DOMAIN queue /\ Head(queue) = queue[1]
           /\ \A i \in Nat \ {0} : /\ i \in Offs' <=> i + 1 \in Offs
                                   /\ i \in Ons' <=> i + 1 \in Ons
                                   /\ i \in Readys' <=> i + 1 \in Readys
           /\ Offs' \cup Ons' \cup Readys' \subseteq Nat \ {0}
           /\ \A i \in Offs' \cup Ons' : queue'[i] = queue[i + 1]
  <1>1. /\ queue' \in Seq(Changes) /\ Len(queue) \in Nat \ {0}
        /\ DOMAIN queue' = 1..Len(queue) - 1 /\ DOMAIN queue = 1..Len(queue)
        /\ \A i \in DOMAIN queue' : queue'[i] = queue[i + 1]
        /\ Head(queue) = queue[1]
    OBVIOUS
  <1>2. \A i \in Nat \ {0} : i \in DOMAIN queue' <=> i + 1 \in DOMAIN queue
    BY <1>1
  <1>3. \A i \in DOMAIN queue' : i \in Nat \ {0}
    BY <1>1
  <1>4. QED
    BY <1>1, <1>2, <1>3 DEF Offs, Ons, Readys

\* A change that is neither to "none" nor to a configuration leaves the order.
LEMMA OtherAppended ==
    ASSUME queue \in Seq(Changes), NEW e \in Changes, queue' = Append(queue, e),
           e.of # "config"
    PROVE  /\ Offs' = Offs /\ Ons' = Ons /\ LastOns' = LastOns
           /\ \A i \in Ons : queue'[i] = queue[i]
  <1>1. Offs' = Offs /\ Ons' = Ons /\ \A i \in 1..Len(queue) : queue'[i] = queue[i]
    BY Appended
  <1>2. LastOns' = LastOns
    BY <1>1 DEF LastOns
  <1>3. QED
    BY <1>1, <1>2, QueueTypes

-----------------------------------------------------------------------------
(* The changes of sys.usb.config stay in order                             *)

LEMMA QueueStays ==
    ASSUME Types, QueueOK, Offs' = Offs, Ons' = Ons, LastOns' = LastOns,
           \A i \in Ons : queue'[i] = queue[i],
           UNCHANGED <<config, target>>,
           \/ UNCHANGED stage
           \/ stage = "switching" /\ stage' = "idle",
           config = Unset => queue' = <<>> /\ commands' = <<>>
    PROVE  QueueOK'
  BY ConfigFacts DEF QueueOK, LastOns

LEMMA SwitchQueue ==
    ASSUME Types, QueueOK, NEW c \in Requests, Switch(c)
    PROVE  QueueOK' /\ Offs' = Offs \cup {Len(queue) + 1} /\ Ons' = Ons /\ Readys' = Readys
  <1>1. PICK e \in Changes : e = [of |-> "config", to |-> None]
    BY ConfigFacts DEF Changes
  <1>2. e.of = "config" /\ e.to = None
    BY <1>1
  <1>3. /\ queue \in Seq(Changes) /\ queue' = Append(queue, e) /\ config' = None
        /\ stage' = "disabling" /\ target' = c
    BY <1>1 DEF Switch, SetConfig, Types, TypeOK
  <1>4. Offs' = Offs \cup {Len(queue) + 1} /\ Ons' = Ons /\ Readys' = Readys
    BY <1>2, <1>3, Appended
  <1>5. LastOns' = {}
    <2>1. \A i \in Ons : i \in 1..Len(queue) /\ ~(Len(queue) + 1 < i)
      BY <1>3, QueueTypes
    <2>2. QED
      BY <1>4, <2>1 DEF LastOns
  <1>6. QED
    BY <1>3, <1>4, <1>5, ConfigFacts DEF QueueOK

LEMMA SwitchOnQueue ==
    ASSUME Types, QueueOK, SwitchOn
    PROVE  /\ QueueOK' /\ Offs' = Offs /\ Ons' = Ons \cup {Len(queue) + 1} /\ Readys' = Readys
           /\ LastOns = {} /\ (Offs = {} => Ons = {})
  <1>0. target \in Requests /\ config = None /\ target # None
    BY ConfigFacts DEF SwitchOn, QueueOK
  <1>1. PICK e \in Changes : e = [of |-> "config", to |-> target]
    BY <1>0, ConfigFacts DEF Changes
  <1>2. e.of = "config" /\ e.to = target
    BY <1>1
  <1>3. /\ queue \in Seq(Changes) /\ queue' = Append(queue, e) /\ config' = target
        /\ stage' = "switching" /\ target' = target
    BY <1>1 DEF SwitchOn, SetConfig, Types, TypeOK
  <1>4. /\ Offs' = Offs /\ Ons' = Ons \cup {Len(queue) + 1} /\ Readys' = Readys
        /\ queue'[Len(queue) + 1] = e /\ \A i \in Ons : queue'[i] = queue[i]
    BY <1>0, <1>2, <1>3, Appended, QueueTypes
  <1>5. LastOns = {}
    BY <1>0 DEF QueueOK, LastOns, Ons
  <1>6. LastOns' = {Len(queue) + 1}
    <2>1. \A j \in Offs : j < Len(queue) + 1
      BY <1>3, QueueTypes
    <2>2. \A i \in Ons : i \notin LastOns'
      BY <1>4, <1>5 DEF LastOns
    <2>3. QED
      BY <1>4, <2>1, <2>2 DEF LastOns
  <1>7. QueueOK'
    BY <1>0, <1>2, <1>3, <1>4, <1>6, ConfigFacts DEF QueueOK
  <1>8. Offs = {} => Ons = {}
    BY <1>5 DEF LastOns
  <1>9. QED
    BY <1>4, <1>5, <1>7, <1>8

LEMMA DispatchQueue ==
    ASSUME Types, QueueOK, Dispatch
    PROVE  QueueOK'
  <1>1. /\ queue \in Seq(Changes) /\ queue # <<>> /\ queue' = Tail(queue)
        /\ UNCHANGED <<config, stage, target>> /\ config # Unset
    BY DEF Dispatch, Types, TypeOK, properties, framework, QueueOK
  <1>2. \A i \in LastOns' : i + 1 \in LastOns /\ queue'[i] = queue[i + 1] /\ i \in Nat
    <2>1. ASSUME NEW i \in LastOns' PROVE i + 1 \in LastOns
      <3>1. i \in Nat \ {0} /\ i + 1 \in Ons /\ \A j \in Offs' : j < i
        BY <1>1, <2>1, Dispatched DEF LastOns
      <3>2. ASSUME NEW j \in Offs PROVE j < i + 1
        <4>1. j \in Nat \ {0}
          BY <1>1, QueueTypes
        <4>2. CASE j = 1
          BY <3>1, <4>2
        <4>3. CASE j # 1
          <5>1. PICK k \in Nat \ {0} : k + 1 = j
            BY <4>1, <4>3
          <5>2. k \in Offs'
            BY <1>1, <5>1, Dispatched
          <5>3. QED
            BY <3>1, <5>1, <5>2
        <4>4. QED
          BY <4>2, <4>3
      <3>3. QED
        BY <3>1, <3>2 DEF LastOns
    <2>2. QED
      BY <1>1, <2>1, Dispatched DEF LastOns
  <1>3. Offs' # {} /\ LastOns' = {} => config = None
    <2> SUFFICES ASSUME Offs' # {}, LastOns' = {} PROVE LastOns = {} /\ Offs # {}
      BY DEF QueueOK
    <2>1. PICK k \in Offs' : TRUE
      OBVIOUS
    <2>2. k + 1 \in Offs /\ k \in Nat \ {0}
      BY <1>1, Dispatched
    <2>3. ASSUME NEW i \in LastOns PROVE FALSE
      <3>1. i \in Ons /\ i \in Nat \ {0} /\ k + 1 < i
        BY <1>1, <2>2, QueueTypes DEF LastOns
      <3>2. PICK l \in Nat \ {0} : l + 1 = i
        BY <2>2, <3>1
      <3>3. l \in Ons'
        BY <1>1, <3>1, <3>2, Dispatched
      <3>4. ASSUME NEW j \in Offs' PROVE j < l
        <4>1. j \in Nat /\ j + 1 \in Offs
          BY <1>1, Dispatched
        <4>2. j + 1 < i
          BY <4>1 DEF LastOns
        <4>3. QED
          BY <3>2, <4>1, <4>2
      <3>5. QED
        BY <3>3, <3>4 DEF LastOns
    <2>4. QED
      BY <2>2, <2>3
  <1>4. \A i, j \in LastOns' : i = j
    BY <1>2 DEF QueueOK
  <1>5. \A i \in LastOns' : queue'[i].to = config' /\ config' \in Requests
    BY <1>1, <1>2 DEF QueueOK
  <1>6. QED
    BY <1>1, <1>3, <1>4, <1>5 DEF QueueOK

-----------------------------------------------------------------------------
(* Types                                                                   *)

LEMMA TriggeredIs ==
    ASSUME Types, NEW e \in Changes
    PROVE  /\ Triggered(e) \in Seq(Commands) /\ Len(Triggered(e)) <= 5
           /\ e.of = "config" /\ e.to = None => Triggered(e) = Disable
           /\ e.of = "config" /\ e.to \in Configs /\ e.to.adb /\ ~ready => Triggered(e) = Start
           /\ e.of = "config" /\ e.to \in Configs /\ ~e.to.adb => Triggered(e) = Activate(e.to)
           /\ e.of = "ready" /\ config \in Configs /\ config.adb =>
                 Triggered(e) = Activate(config)
           /\ e.of = "ready" /\ ~(config \in Configs /\ config.adb) => Triggered(e) = <<>>
           /\ e.of = "config" /\ e.to # None /\ e.to \notin Configs => Triggered(e) = <<>>
           /\ e.of \notin {"config", "ready"} => Triggered(e) = <<>>
  <1>0. <<>> \in Seq(Commands) /\ Len(<<>>) = 0
    BY EmptySeq
  <1>1. CASE e.of = "config" /\ e.to = None
    <2>1. Triggered(e) = Disable
      BY <1>1, ConfigFacts DEF Triggered
    <2>2. QED
      BY <1>1, <2>1, DisableIs, ConfigFacts
  <1>2. CASE e.of = "config" /\ e.to \in Configs
    <2>1. e.to # None /\ e.to.adb \in BOOLEAN /\ e.to \in Values
      BY <1>2, ConfigFacts
    <2>2. CASE e.to.adb
      <3>1. Triggered(e) = Start \o (IF ready THEN Activate(e.to) ELSE <<>>)
        BY <1>2, <2>1, <2>2 DEF Triggered, Start
      <3>2. CASE ready
        <4>1. Triggered(e) = Start \o Activate(e.to)
          BY <3>1, <3>2
        <4>2. /\ Start \in Seq(Commands) /\ Len(Start) = 1
              /\ Activate(e.to) \in Seq(Commands) /\ Len(Activate(e.to)) = 3
          BY <2>1, StartIs, ActivateIs
        <4>3. Triggered(e) \in Seq(Commands) /\ Len(Triggered(e)) = 4
          <5>1. ASSUME NEW s \in Seq(Commands), NEW t \in Seq(Commands), Len(s) = 1, Len(t) = 3
                PROVE  s \o t \in Seq(Commands) /\ Len(s \o t) = 4
            <6>1. s \o t \in Seq(Commands) /\ Len(s \o t) = Len(s) + Len(t)
              BY ConcatProperties
            <6>2. QED
              BY <5>1, <6>1
          <5>2. QED
            BY <4>1, <4>2, <5>1
        <4>4. QED
          BY <1>2, <2>1, <2>2, <3>2, <4>3
      <3>3. CASE ~ready
        <4>1. Triggered(e) = Start
          BY <3>1, <3>3, StartIs, ConcatEmptySeq
        <4>2. QED
          BY <1>2, <2>1, <2>2, <4>1, StartIs
      <3>4. QED
        BY <3>2, <3>3
    <2>3. CASE ~e.to.adb
      <3>1. Triggered(e) = Activate(e.to)
        BY <1>2, <2>1, <2>3 DEF Triggered
      <3>2. QED
        BY <1>2, <2>1, <2>3, <3>1, ActivateIs
    <2>4. QED
      BY <2>2, <2>3
  <1>3. CASE e.of = "ready" /\ config \in Configs /\ config.adb
    <2>1. Triggered(e) = Activate(config)
      BY <1>3 DEF Triggered
    <2>2. config \in Values
      BY DEF Types, TypeOK
    <2>3. Activate(config) \in Seq(Commands) /\ Len(Activate(config)) = 3
      BY <2>2, ActivateIs
    <2>4. QED
      BY <1>3, <2>1, <2>3
  <1>4. CASE ~(e.of = "config" /\ (e.to = None \/ e.to \in Configs))
             /\ ~(e.of = "ready" /\ config \in Configs /\ config.adb)
    <2>1. Triggered(e) = <<>>
      BY <1>4 DEF Triggered
    <2>2. QED
      BY <1>0, <1>4, <2>1
  <1>5. QED
    BY <1>1, <1>2, <1>3, <1>4

LEMMA DispatchTypes ==
    ASSUME Types, Dispatch
    PROVE  /\ queue \in Seq(Changes) /\ queue # <<>> /\ queue[1] \in Changes
           /\ queue' = Tail(queue) /\ commands' = Triggered(queue[1]) /\ commands = <<>>
           /\ commands' \in Seq(Commands) /\ Len(commands') <= 5
           /\ queue' \in Seq(Changes) /\ Left = 0
           /\ UNCHANGED <<config, ready, state, gadget, conn, adbd, stage, target, hasty, deaths>>
  <1>1. /\ queue \in Seq(Changes) /\ queue # <<>> /\ commands' = Triggered(Head(queue))
        /\ queue' = Tail(queue) /\ commands = <<>>
        /\ UNCHANGED <<config, ready, state, gadget, conn, adbd, stage, target, hasty, deaths>>
    BY DEF Dispatch, Types, TypeOK, properties, framework
  <1>2. Head(queue) = queue[1] /\ queue[1] \in Changes /\ queue' \in Seq(Changes)
    BY <1>1, Dispatched, QueueTypes
  <1>3. Left = 0
    BY <1>1, EmptySeq DEF Left
  <1>4. QED
    BY <1>1, <1>2, <1>3, TriggeredIs

LEMMA TypesNext ==
    ASSUME Types, [Next]_vars
    PROVE  Types'
  <1>1. ASSUME NEW c \in Requests, Switch(c) PROVE Types'
    <2>1. [of |-> "config", to |-> None] \in Changes /\ c \in Values
      BY ConfigFacts DEF Changes
    <2>2. QED
      BY <1>1, <2>1, ConfigFacts DEF Switch, SetConfig, Types, TypeOK
  <1>2. CASE SwitchOn
    <2>1. [of |-> "config", to |-> target] \in Changes
      BY DEF Changes, Types, TypeOK
    <2>2. hasty' \in 0..MaxHasty
      <3>1. hasty \in 0..MaxHasty /\ (hasty' = hasty \/ (hasty < MaxHasty /\ hasty' = hasty + 1))
        BY <1>2 DEF SwitchOn, Waited, Types, TypeOK
      <3>2. QED
        BY <3>1, BoundsType
    <2>3. QED
      BY <1>2, <2>1, <2>2 DEF SwitchOn, SetConfig, Types, TypeOK
  <1>3. CASE SwitchDone
    <2>1. hasty' \in 0..MaxHasty
      <3>1. hasty \in 0..MaxHasty /\ (hasty' = hasty \/ (hasty < MaxHasty /\ hasty' = hasty + 1))
        BY <1>3 DEF SwitchDone, Waited, Types, TypeOK
      <3>2. QED
        BY <3>1, BoundsType
    <2>2. QED
      BY <1>3, <2>1 DEF SwitchDone, properties, init, Types, TypeOK
  <1>4. CASE AdbdServes
    <2>1. [of |-> "ready", to |-> None] \in Changes
      BY DEF Changes
    <2>2. QED
      BY <1>4, <2>1 DEF AdbdServes, framework, Types, TypeOK
  <1>5. CASE AdbdDies
    <2>1. gadget' \in GadgetType
      BY <1>5 DEF AdbdDies, Types, GadgetType
    <2>2. deaths' \in 0..MaxDeaths
      <3>1. deaths \in 0..MaxDeaths /\ deaths < MaxDeaths /\ deaths' = deaths + 1
        BY <1>5 DEF AdbdDies, Types, TypeOK
      <3>2. QED
        BY <3>1, BoundsType
    <2>3. QED
      BY <1>5, <2>1, <2>2 DEF AdbdDies, properties, init, framework, Types, TypeOK, GadgetType
  <1>6. CASE Dispatch
    BY <1>6, DispatchTypes DEF Types, TypeOK
  <1>7. CASE Configure
    <2>1. Head(commands).for \in Values
      BY <1>7, RunFacts DEF Configure, Commands
    <2>2. gadget' \in GadgetType
      <3>1. PICK c \in Values : c = Head(commands).for
        BY <2>1
      <3>2. /\ Product(c) \in {Product(d) : d \in Values}
            /\ (IF c.base \in DOMAIN Literal THEN Functions(c) ELSE config)
                  \in Values \cup {Functions(d) : d \in Values}
            /\ (IF WritesClass(c) THEN Class(c) ELSE gadget.class) \in {0, 2}
        BY ClassFacts DEF Types, TypeOK
      <3>3. QED
        BY <1>7, <3>1, <3>2 DEF Configure, GadgetType
    <2>3. conn' \in BOOLEAN
      BY <1>7 DEF Configure
    <2>4. commands' \in Seq(Commands) /\ Len(commands') <= 5
      BY <1>7, RunFacts DEF Configure
    <2>5. QED
      BY <1>7, <2>2, <2>3, <2>4 DEF Configure, properties, framework, Types, TypeOK, GadgetType
  <1>8. CASE Enable
    <2>1. commands' \in Seq(Commands) /\ Len(commands') <= 5
      BY <1>8, RunFacts DEF Enable
    <2>2. gadget' \in GadgetType
      BY <1>8 DEF Enable, Types, GadgetType
    <2>3. QED
      BY <1>8, <2>1, <2>2 DEF Enable, properties, framework, Types, TypeOK, GadgetType
  <1>9. CASE Ack
    <2>1. commands' \in Seq(Commands) /\ Len(commands') <= 5
      BY <1>9, RunFacts DEF Ack
    <2>2. QED
      BY <1>9, <2>1 DEF Ack, framework, Types, TypeOK
  <1>10. CASE StartAdbd
    <2>1. commands' \in Seq(Commands) /\ Len(commands') <= 5
      BY <1>10, RunFacts DEF StartAdbd
    <2>2. QED
      BY <1>10, <2>1 DEF StartAdbd, properties, framework, Types, TypeOK
  <1>11. CASE DisableGadget
    <2>1. commands' \in Seq(Commands) /\ Len(commands') <= 5
      BY <1>11, RunFacts DEF DisableGadget
    <2>2. gadget' \in GadgetType
      BY <1>11 DEF DisableGadget, Types, GadgetType
    <2>3. QED
      BY <1>11, <2>1, <2>2 DEF DisableGadget, properties, framework, Types, TypeOK, GadgetType
  <1>12. CASE StopAdbd
    <2>1. commands' \in Seq(Commands) /\ Len(commands') <= 5
      BY <1>12, RunFacts DEF StopAdbd
    <2>2. QED
      BY <1>12, <2>1 DEF StopAdbd, properties, framework, Types, TypeOK
  <1>13. CASE Unready
    <2>1. commands' \in Seq(Commands) /\ Len(commands') <= 5
      BY <1>13, RunFacts DEF Unready
    <2>2. [of |-> "unready", to |-> None] \in Changes
      BY DEF Changes
    <2>3. queue' \in Seq(Changes)
      <3>1. queue \in Seq(Changes) /\ queue' = Append(queue, [of |-> "unready", to |-> None])
        BY <1>13 DEF Unready, Types, TypeOK
      <3>2. QED
        BY <2>2, <3>1
    <2>4. QED
      BY <1>13, <2>1, <2>3 DEF Unready, framework, Types, TypeOK
  <1>14. CASE Clear
    <2>1. commands' \in Seq(Commands) /\ Len(commands') <= 5
      BY <1>14, RunFacts DEF Clear
    <2>2. gadget' \in GadgetType
      BY <1>14 DEF Clear, Types, GadgetType
    <2>3. QED
      BY <1>14, <2>1, <2>2 DEF Clear, properties, framework, Types, TypeOK, GadgetType
  <1>15. CASE UNCHANGED vars
    BY <1>15 DEF vars, properties, init, framework, Types, TypeOK
  <1>16. QED
    BY <1>1, <1>2, <1>3, <1>4, <1>5, <1>6, <1>7, <1>8, <1>9, <1>10, <1>11, <1>12, <1>13, <1>14,
       <1>15 DEF Next, InitStep

-----------------------------------------------------------------------------
(* Which commands run when                                                 *)

LEMMA RunDisabling ==
    ASSUME Types, GadgetOK, NEW do, Run(do), do \in {"disable", "stop", "unready", "clear"},
           Offs = {}
    PROVE  \/ Disabled /\ (Ons # {} \/ config \in {None, Unset})
           \/ Ons = {} /\ config \notin Configs /\ config \notin {None, Unset}
  <1>1. config \in Values
    BY DEF Types, TypeOK
  <1>2. ~Rest(commands, Activate(config))
    BY <1>1, RunOfActivate
  <1>3. ~Rest(commands, Start)
    BY RunOfStart
  <1>4. ~TooEarly /\ ~Plain /\ ~Adb
    BY <1>2, <1>3 DEF TooEarly, Plain, Adb
  <1>5. QED
    BY <1>4 DEF GadgetOK

LEMMA RunActivating ==
    ASSUME Types, GadgetOK, NEW do, Run(do), do \in {"configure", "enable"}, Offs = {}
    PROVE  \/ Ons # {} /\ TooEarly
           \/ /\ Ons = {} /\ config \in Configs /\ NoMore
              /\ Rest(commands, Activate(config))
              /\ IF config.adb THEN Adb ELSE Plain
           \/ Ons = {} /\ config \notin Configs /\ config \notin {None, Unset}
  <1>1. ~Rest(commands, Disable)
    BY RunOfDisable
  <1>2. ~Rest(commands, Start)
    BY RunOfStart
  <1>3. ~Disabled
    BY <1>1 DEF Disabled
  <1>4. Adb \/ Plain => Rest(commands, Activate(config))
    BY <1>2 DEF Adb, Plain
  <1>5. QED
    BY <1>3, <1>4 DEF GadgetOK

\* When nothing has come in between, the commands that run are those of the
\* switch that is underway.
LEMMA RunInStep ==
    ASSUME Types, QueueOK, GadgetOK, InStep, Undisturbed, NEW do, Run(do)
    PROVE  /\ Offs = {} /\ Ons = {} /\ commands # <<>>
           /\ \/ stage = "disabling" /\ DisablingOK /\ config = None /\ Disabled /\ state # None
              \/ /\ stage = "switching" /\ target = config /\ config \in Configs
                 /\ \/ config.adb /\ commands = Start /\ Readys = {} /\ adbd = "stopped" /\ Waiting
                    \/ Activated
  <1>1. commands # <<>>
    BY RunFacts
  <1>2. stage # "idle"
    BY <1>1 DEF InStep, Settled
  <1>3. CASE stage = "disabling"
    <2>1. DisablingOK /\ config = None
      BY <1>3 DEF InStep, QueueOK
    <2>2. Offs = {} /\ Ons = {} /\ state # None
      BY <1>1, <2>1 DEF DisablingOK, Settled
    <2>3. Disabled
      BY <2>1, <2>2 DEF GadgetOK
    <2>4. QED
      BY <1>1, <1>3, <2>1, <2>2, <2>3
  <1>4. CASE stage = "switching"
    <2>1. SwitchingOK /\ target = config
      BY <1>4 DEF InStep, QueueOK
    <2>2. Offs = {} /\ Ons = {} /\ config \in Configs
      BY <1>1, <2>1 DEF SwitchingOK, Settled
    <2>3. (AdbdStarts /\ Waiting) \/ Activated
      BY <2>1, <2>2 DEF SwitchingOK
    <2>4. AdbdStarts => config.adb /\ commands = Start /\ Readys = {} /\ adbd = "stopped"
      BY <1>1, <2>1 DEF AdbdStarts
    <2>5. QED
      BY <1>1, <1>4, <2>1, <2>2, <2>3, <2>4
  <1>5. QED
    BY <1>2, <1>3, <1>4 DEF Types, TypeOK

LEMMA IsConsistent == ASSUME NEW c \in Configs, Is(c) PROVE Consistent
  BY DEF Is, Consistent

\* The commands of a configuration make the gadget what it asks for.
LEMMA Configured ==
    ASSUME Types, Configure, config \in Configs, NoMore, Rest(commands, Activate(config))
    PROVE  /\ Left = 3 /\ Left' = 2 /\ Rest(commands', Activate(config))
           /\ Is(config)' /\ NoMore' /\ ~gadget'.enabled /\ config' = config
  <1>1. Left = 3 /\ Rest(commands', Activate(config)) /\ Head(commands).for = config
    BY RunOfActivate, ConfigFacts DEF Configure
  <1>2. Left' = 2
    BY <1>1, RunFacts DEF Configure
  <1>3. config' = config
    BY DEF Configure, properties
  <1>4. /\ gadget' = [enabled |-> FALSE, product |-> Product(config),
                      functions |-> IF config.base \in DOMAIN Literal THEN Functions(config)
                                    ELSE config,
                      class |-> IF WritesClass(config) THEN Class(config) ELSE gadget.class]
        /\ conn' = (conn \/ config.base \in Conn)
    BY <1>1 DEF Configure
  <1>5. /\ gadget'.functions = Functions(config) /\ gadget'.product = Product(config)
        /\ ~gadget'.enabled
    BY <1>4, FunctionsFacts
  <1>6. gadget'.class = Class(config)
    BY <1>4, ClassFacts DEF NoMore
  <1>7. conn' = (config.base \in Conn)
    BY <1>4 DEF NoMore, Types, TypeOK
  <1>8. Is(config)' /\ NoMore'
    BY <1>3, <1>5, <1>6, <1>7 DEF Is, NoMore
  <1>9. QED
    BY <1>1, <1>2, <1>3, <1>5, <1>8

LEMMA Enabled ==
    ASSUME Types, Enable, config \in Configs, Is(config), config.adb => adbd = "serving"
    PROVE  gadget'.enabled
  <1>1. gadget.functions # None /\ (gadget.functions.adb => adbd = "serving")
    BY FunctionsFacts DEF Is
  <1>2. QED
    BY <1>1 DEF Enable, Types, GadgetType

-----------------------------------------------------------------------------
(* Commands keep the invariant                                             *)

LEMMA ConfigureInv ==
    ASSUME GadgetInv, Configure
    PROVE  GadgetOK' /\ InStep'
  <1>1. /\ Types /\ QueueOK /\ GadgetOK /\ InStep /\ Run("configure")
        /\ UNCHANGED <<config, ready, state, queue, adbd, stage, target, hasty, deaths>>
    BY DEF GadgetInv, Configure, properties, framework
  <1>2. Offs' = Offs /\ Ons' = Ons /\ Readys' = Readys
    BY <1>1 DEF Offs, Ons, Readys
  <1>3. GadgetOK'
    <2> SUFFICES ASSUME Offs = {} PROVE GadgetOK'
      BY <1>2 DEF GadgetOK
    <2>1. CASE Ons # {} /\ TooEarly
      <3>1. TooEarly'
        BY <1>1, <2>1, Configured DEF TooEarly
      <3>2. QED
        BY <1>2, <2>1, <3>1 DEF GadgetOK
    <2>2. CASE /\ Ons = {} /\ config \in Configs /\ NoMore
               /\ Rest(commands, Activate(config))
               /\ IF config.adb THEN Adb ELSE Plain
      <3>1. /\ Left = 3 /\ Left' = 2 /\ Rest(commands', Activate(config))
            /\ Is(config)' /\ NoMore' /\ config' = config
        BY <1>1, <2>2, Configured
      <3>2. commands' # <<>>
        BY <3>1, EmptySeq DEF Left
      <3>3. commands # Start
        <4> SUFFICES ASSUME commands = Start PROVE FALSE
          OBVIOUS
        <4>1. Len(commands) = 1
          BY StartIs
        <4>2. Len(commands) = 3
          BY <3>1 DEF Left
        <4>3. QED
          BY <4>1, <4>2
      <3>4. IF config.adb THEN Adb' ELSE Plain'
        BY <1>1, <1>2, <2>2, <3>1, <3>2, <3>3 DEF Adb, Plain
      <3>5. QED
        BY <1>1, <1>2, <2>2, <3>1, <3>4, ConfigFacts DEF GadgetOK
    <2>3. CASE Ons = {} /\ config \notin Configs /\ config \notin {None, Unset}
      BY <1>1, <1>2, <2>3 DEF GadgetOK
    <2>4. QED
      BY <1>1, <2>1, <2>2, <2>3, RunActivating
  <1>4. InStep'
    <2> SUFFICES ASSUME Undisturbed PROVE InStep'
      BY <1>1 DEF InStep, Undisturbed
    <2>1. ~Rest(commands, Disable) /\ commands # Start
      BY <1>1, RunOfDisable, StartIs, RestSelf, RunOfStart
    <2>2. /\ Offs = {} /\ Ons = {} /\ stage = "switching" /\ target = config
          /\ config \in Configs /\ Activated
      BY <1>1, <2>1, RunInStep DEF Disabled
    <2>3. NoMore /\ Rest(commands, Activate(config))
      BY <1>1, <2>2, RunActivating DEF Activated
    <2>4. /\ Left = 3 /\ Left' = 2 /\ Rest(commands', Activate(config)) /\ ~gadget'.enabled
      BY <1>1, <2>2, <2>3, Configured
    <2>5. Activated'
      BY <1>1, <1>2, <2>2, <2>4 DEF Activated, Waiting
    <2>6. SwitchingOK'
      BY <1>1, <1>2, <2>2, <2>5 DEF SwitchingOK
    <2>7. QED
      BY <1>1, <2>2, <2>4, <2>6 DEF InStep
  <1>5. QED
    BY <1>3, <1>4

LEMMA EnableInv ==
    ASSUME GadgetInv, Enable
    PROVE  GadgetOK' /\ InStep'
  <1>1. /\ Types /\ QueueOK /\ GadgetOK /\ InStep /\ Run("enable")
        /\ UNCHANGED <<config, ready, state, queue, conn, adbd, stage, target, hasty, deaths>>
    BY DEF GadgetInv, Enable, properties, framework
  <1>2. Offs' = Offs /\ Ons' = Ons /\ Readys' = Readys
    BY <1>1 DEF Offs, Ons, Readys
  <1>3. /\ gadget'.functions = gadget.functions /\ gadget'.product = gadget.product
        /\ gadget'.class = gadget.class
    BY DEF Enable, GadgetInv, Types, GadgetType
  <1>4. NoMore' = NoMore /\ Is(config)' = Is(config)
    BY <1>1, <1>3 DEF NoMore, Is
  <1>5. Rest(commands, Activate(config)) =>
           Left = 2 /\ Left' = 1 /\ Rest(commands', Activate(config))
    BY <1>1, RunOfActivate, RunFacts DEF Types, TypeOK
  <1>6. GadgetOK'
    <2> SUFFICES ASSUME Offs = {} PROVE GadgetOK'
      BY <1>2 DEF GadgetOK
    <2>1. CASE Ons # {} /\ TooEarly
      <3>1. TooEarly'
        BY <1>1, <1>4, <1>5, <2>1 DEF TooEarly
      <3>2. QED
        BY <1>2, <2>1, <3>1 DEF GadgetOK
    <2>2. CASE /\ Ons = {} /\ config \in Configs /\ NoMore
               /\ Rest(commands, Activate(config))
               /\ IF config.adb THEN Adb ELSE Plain
      <3>1. commands # Start
        BY <1>5, <2>2, StartIs DEF Left
      <3>2. CASE config.adb
        <4>1. adbd # "stopped"
          BY <2>2, <3>1, <3>2 DEF Adb
        <4>2. adbd = "serving" => Readys # {} \/ (Is(config) /\ gadget'.enabled)
          BY <1>1, <1>5, <2>2, <3>2, Enabled DEF Adb
        <4>3. Adb'
          BY <1>1, <1>2, <1>4, <1>5, <2>2, <4>1, <4>2 DEF Adb
        <4>4. QED
          BY <1>1, <1>2, <1>4, <2>2, <3>2, <4>3, ConfigFacts DEF GadgetOK
      <3>3. CASE ~config.adb
        <4>1. Is(config) /\ gadget'.enabled
          BY <1>1, <1>5, <2>2, <3>3, Enabled DEF Plain
        <4>2. Plain'
          BY <1>1, <1>4, <1>5, <2>2, <4>1 DEF Plain
        <4>3. QED
          BY <1>1, <1>2, <1>4, <2>2, <3>3, <4>2, ConfigFacts DEF GadgetOK
      <3>4. QED
        BY <3>2, <3>3
    <2>3. CASE Ons = {} /\ config \notin Configs /\ config \notin {None, Unset}
      BY <1>1, <1>2, <2>3 DEF GadgetOK
    <2>4. QED
      BY <1>1, <2>1, <2>2, <2>3, RunActivating
  <1>7. InStep'
    <2> SUFFICES ASSUME Undisturbed PROVE InStep'
      BY <1>1 DEF InStep, Undisturbed
    <2>1. ~Rest(commands, Disable) /\ commands # Start
      BY <1>1, RunOfDisable, StartIs, RestSelf, RunOfStart
    <2>2. /\ Offs = {} /\ Ons = {} /\ stage = "switching" /\ target = config
          /\ config \in Configs /\ Activated
      BY <1>1, <2>1, RunInStep DEF Disabled
    <2>3. Left = 2 /\ Left' = 1 /\ Rest(commands', Activate(config))
      BY <1>5, <2>2 DEF Activated
    <2>4. IF config.adb THEN Adb ELSE Plain
      BY <1>1, <2>2, RunActivating
    <2>5. Is(config) /\ (config.adb => adbd = "serving")
      BY <2>2, <2>3, <2>4 DEF Activated, Adb, Plain
    <2>6. gadget'.enabled
      BY <1>1, <2>2, <2>5, Enabled
    <2>7. Is(config)' /\ Is(target)' /\ Consistent'
      BY <1>1, <1>3, <1>4, <2>2, <2>5 DEF Is, Consistent
    <2>8. Activated'
      BY <1>1, <1>2, <2>2, <2>3, <2>6, <2>7 DEF Activated, Waiting
    <2>9. SwitchingOK'
      BY <1>1, <1>2, <2>2, <2>8 DEF SwitchingOK
    <2>10. QED
      BY <1>1, <2>2, <2>7, <2>9 DEF InStep
  <1>8. QED
    BY <1>6, <1>7

LEMMA AckInv ==
    ASSUME GadgetInv, Ack
    PROVE  GadgetOK' /\ InStep'
  <1>1. /\ Types /\ QueueOK /\ GadgetOK /\ InStep /\ Run("ack") /\ state' = config
        /\ UNCHANGED <<config, ready, queue, gadget, conn, adbd, stage, target, hasty, deaths>>
    BY DEF GadgetInv, Ack, framework
  <1>2. Offs' = Offs /\ Ons' = Ons /\ Readys' = Readys
    BY <1>1 DEF Offs, Ons, Readys
  <1>3. NoMore' = NoMore /\ Is(config)' = Is(config) /\ Is(target)' = Is(target)
        /\ Consistent' = Consistent
    BY <1>1 DEF NoMore, Is, Consistent
  <1>4. Rest(commands, Activate(config)) =>
           Left = 1 /\ Left' = 0 /\ Rest(commands', Activate(config))
    BY <1>1, RunOfActivate, RunFacts DEF Types, TypeOK
  <1>5. Rest(commands, Disable) => Left = 1 /\ Left' = 0 /\ Rest(commands', Disable)
    BY <1>1, RunOfDisable, RunFacts
  <1>6. ~Rest(commands, Start) /\ commands # Start
    BY <1>1, RunOfStart, StartIs, RestSelf
  <1>7. GadgetOK'
    <2>1. Disabled => Disabled'
      BY <1>1, <1>5 DEF Disabled
    <2>2. TooEarly => TooEarly'
      BY <1>1, <1>3, <1>4 DEF TooEarly
    <2>3. Plain => Plain'
      BY <1>1, <1>3, <1>4 DEF Plain
    <2>4. Adb => Adb'
      BY <1>1, <1>2, <1>3, <1>4, <1>6 DEF Adb
    <2>5. QED
      BY <1>1, <1>2, <1>3, <2>1, <2>2, <2>3, <2>4 DEF GadgetOK
  <1>8. InStep'
    <2> SUFFICES ASSUME Undisturbed PROVE InStep'
      BY <1>1 DEF InStep, Undisturbed
    <2>1. gadget.enabled => Consistent
      BY DEF GadgetInv, InStep
    <2>2. CASE stage = "disabling" /\ DisablingOK /\ config = None /\ Disabled /\ state # None
      <3>1. commands' = <<>>
        BY <1>1, <1>5, <2>2, RunFacts DEF Disabled
      <3>2. DisablingOK'
        BY <1>1, <1>2, <2>2, <3>1, RunInStep DEF DisablingOK
      <3>3. QED
        BY <1>1, <1>3, <2>1, <2>2, <3>2 DEF InStep
    <2>3. CASE /\ stage = "switching" /\ target = config /\ config \in Configs
               /\ Activated
      <3>1. Activated'
        BY <1>1, <1>2, <1>3, <1>4, <2>3 DEF Activated
      <3>2. SwitchingOK'
        BY <1>1, <1>2, <2>3, <3>1, RunInStep DEF SwitchingOK
      <3>3. QED
        BY <1>1, <1>3, <2>1, <2>3, <3>2 DEF InStep
    <2>4. QED
      BY <1>1, <1>6, <2>2, <2>3, RunInStep
  <1>9. QED
    BY <1>7, <1>8

LEMMA StartAdbdInv ==
    ASSUME GadgetInv, StartAdbd
    PROVE  GadgetOK' /\ InStep'
  <1>1. /\ Types /\ QueueOK /\ GadgetOK /\ InStep /\ Run("start")
        /\ UNCHANGED <<config, ready, state, queue, gadget, conn, stage, target, hasty, deaths>>
    BY DEF GadgetInv, StartAdbd, properties, framework
  <1>2. Offs' = Offs /\ Ons' = Ons /\ Readys' = Readys
    BY <1>1 DEF Offs, Ons, Readys
  <1>3. NoMore' = NoMore /\ Is(config)' = Is(config) /\ Consistent' = Consistent
    BY <1>1 DEF NoMore, Is, Consistent
  <1>4. /\ ~Rest(commands, Activate(config)) /\ ~Rest(commands, Disable)
    BY <1>1, RunOfActivate, RunOfDisable DEF Types, TypeOK
  <1>5. Rest(commands, Start) => Left = 1 /\ commands' = <<>> /\ Left' = 0
    BY <1>1, RunOfStart, RunFacts
  <1>6. adbd' # "stopped" /\ (adbd' = "serving" => adbd = "serving")
        /\ (adbd = "stopped" => adbd' = "starting")
    BY DEF StartAdbd
  <1>7. GadgetOK'
    <2>1. ~Disabled /\ ~TooEarly /\ ~Plain
      BY <1>4 DEF Disabled, TooEarly, Plain
    <2>2. Adb => Adb'
      <3>1. Adb => Rest(commands, Start) /\ Left = 1 /\ commands' = <<>> /\ Rest(commands', Start)
        BY <1>4, <1>5, StartIs, RestSelf DEF Adb
      <3>2. QED
        BY <1>1, <1>2, <1>3, <1>6, <3>1 DEF Adb
    <2>3. QED
      BY <1>1, <1>2, <1>3, <2>1, <2>2 DEF GadgetOK
  <1>8. InStep'
    <2> SUFFICES ASSUME Undisturbed PROVE InStep'
      BY <1>1 DEF InStep, Undisturbed
    <2>1. gadget.enabled => Consistent
      BY <1>1 DEF InStep
    <2>2. /\ Offs = {} /\ Ons = {} /\ stage = "switching" /\ target = config
          /\ config \in Configs /\ config.adb /\ commands = Start /\ Readys = {}
          /\ adbd = "stopped" /\ Waiting
      BY <1>1, <1>4, RunInStep DEF Disabled, Activated
    <2>3. commands' = <<>> /\ adbd' = "starting"
      BY <1>5, <1>6, <2>2, StartIs, RestSelf
    <2>4. AdbdStarts' /\ Waiting'
      BY <1>1, <1>2, <2>2, <2>3 DEF AdbdStarts, Waiting
    <2>5. SwitchingOK'
      BY <1>1, <1>2, <2>2, <2>4 DEF SwitchingOK
    <2>6. QED
      BY <1>1, <1>3, <2>1, <2>2, <2>5 DEF InStep
  <1>9. QED
    BY <1>7, <1>8

\* The commands of "none", one by one.
LEMMA DisablingInv ==
    ASSUME GadgetInv, NEW do, Run(do), do \in {"disable", "stop", "unready", "clear"},
           UNCHANGED <<config, state, stage, target, hasty, deaths>>,
           Offs' = Offs, Ons' = Ons, Readys' = Readys,
           Disabled => Disabled' /\ adbd' \in {adbd, "stopped"} /\ (gadget.enabled => do = "disable")
                       /\ ~gadget'.enabled
    PROVE  GadgetOK' /\ InStep'
  <1>1. Types /\ QueueOK /\ GadgetOK /\ InStep
    BY DEF GadgetInv
  <1>2. GadgetOK'
    BY <1>1, RunDisabling DEF GadgetOK
  <1>3. InStep'
    <2> SUFFICES ASSUME Undisturbed PROVE InStep'
      BY DEF InStep, Undisturbed
    <2>1. ~Rest(commands, Activate(config)) /\ commands # Start
      BY <1>1, RunOfActivate, RunOfStart, StartIs, RestSelf DEF Types, TypeOK
    <2>2. /\ Offs = {} /\ Ons = {} /\ commands # <<>>
          /\ stage = "disabling" /\ DisablingOK /\ config = None /\ Disabled /\ state # None
      BY <1>1, <2>1, RunInStep DEF Activated
    <2>3. DisablingOK'
      BY <2>2 DEF DisablingOK
    <2>4. QED
      BY <2>2, <2>3 DEF InStep
  <1>4. QED
    BY <1>2, <1>3

LEMMA DisableGadgetInv ==
    ASSUME GadgetInv, DisableGadget PROVE GadgetOK' /\ InStep'
  <1>1. /\ Types /\ Run("disable") /\ UNCHANGED <<queue, adbd, ready, conn>>
        /\ UNCHANGED <<config, state, stage, target, hasty, deaths>>
    BY DEF GadgetInv, DisableGadget, properties, framework
  <1>2. Offs' = Offs /\ Ons' = Ons /\ Readys' = Readys
    BY <1>1 DEF Offs, Ons, Readys
  <1>3. ~gadget'.enabled
    BY DEF DisableGadget, GadgetInv, Types, GadgetType
  <1>4. Rest(commands, Disable) => Left = 5 /\ Left' = 4 /\ Rest(commands', Disable)
    BY <1>1, RunOfDisable, RunFacts
  <1>5. Disabled => Disabled'
    BY <1>1, <1>3, <1>4 DEF Disabled
  <1>6. QED
    BY <1>1, <1>2, <1>3, <1>5, DisablingInv

LEMMA StopAdbdInv ==
    ASSUME GadgetInv, StopAdbd PROVE GadgetOK' /\ InStep'
  <1>1. /\ Types /\ Run("stop") /\ UNCHANGED <<queue, gadget, ready, conn>> /\ adbd' = "stopped"
        /\ UNCHANGED <<config, state, stage, target, hasty, deaths>>
    BY DEF GadgetInv, StopAdbd, properties, framework
  <1>2. Offs' = Offs /\ Ons' = Ons /\ Readys' = Readys
    BY <1>1 DEF Offs, Ons, Readys
  <1>3. Rest(commands, Disable) => Left = 4 /\ Left' = 3 /\ Rest(commands', Disable)
    BY <1>1, RunOfDisable, RunFacts
  <1>4. Disabled => Disabled' /\ ~gadget.enabled
    BY <1>1, <1>3 DEF Disabled
  <1>5. QED
    BY <1>1, <1>2, <1>4, DisablingInv

LEMMA UnreadyInv ==
    ASSUME GadgetInv, Unready PROVE QueueOK' /\ GadgetOK' /\ InStep'
  <1>1. /\ Types /\ QueueOK /\ Run("unready") /\ UNCHANGED <<adbd, gadget, conn>> /\ ~ready'
        /\ UNCHANGED <<config, state, stage, target, hasty, deaths>>
    BY DEF GadgetInv, Unready, framework
  <1>2. PICK e \in Changes : e = [of |-> "unready", to |-> None]
    BY DEF Changes
  <1>3. /\ queue \in Seq(Changes) /\ queue' = Append(queue, e) /\ e.of = "unready"
    BY <1>1, <1>2 DEF Unready, Types, TypeOK
  <1>4. /\ Offs' = Offs /\ Ons' = Ons /\ LastOns' = LastOns /\ Readys' = Readys
        /\ \A i \in Ons : queue'[i] = queue[i]
    BY <1>3, OtherAppended, Appended
  <1>5. config # Unset
    <2>1. commands # <<>>
      BY <1>1, RunFacts
    <2>2. QED
      BY <1>1, <2>1 DEF QueueOK
  <1>6. QueueOK'
    BY <1>1, <1>4, <1>5, QueueStays
  <1>7. Rest(commands, Disable) => Left = 3 /\ Left' = 2 /\ Rest(commands', Disable)
    BY <1>1, RunOfDisable, RunFacts
  <1>8. Disabled => Disabled' /\ ~gadget.enabled
    BY <1>1, <1>7 DEF Disabled
  <1>9. QED
    BY <1>1, <1>4, <1>6, <1>8, DisablingInv

LEMMA ClearInv ==
    ASSUME GadgetInv, Clear PROVE GadgetOK' /\ InStep'
  <1>1. /\ Types /\ Run("clear") /\ UNCHANGED <<queue, adbd, ready>> /\ conn' = FALSE
        /\ UNCHANGED <<config, state, stage, target, hasty, deaths>>
    BY DEF GadgetInv, Clear, properties, framework
  <1>2. Offs' = Offs /\ Ons' = Ons /\ Readys' = Readys
    BY <1>1 DEF Offs, Ons, Readys
  <1>3. gadget'.enabled = gadget.enabled /\ gadget'.class = 0
    BY DEF Clear, GadgetInv, Types, GadgetType
  <1>4. Rest(commands, Disable) => Left = 2 /\ Left' = 1 /\ Rest(commands', Disable)
    BY <1>1, RunOfDisable, RunFacts
  <1>5. Disabled => Disabled' /\ ~gadget.enabled
    BY <1>1, <1>3, <1>4 DEF Disabled
  <1>6. QED
    BY <1>1, <1>2, <1>3, <1>5, DisablingInv

\* A command that leaves the queue leaves its order.
LEMMA RunQueue ==
    ASSUME GadgetInv, NEW do, Run(do), UNCHANGED <<queue, config, stage, target>>
    PROVE  QueueOK'
  <1>1. commands # <<>> /\ config # Unset
    BY RunFacts DEF GadgetInv, QueueOK
  <1>2. Offs' = Offs /\ Ons' = Ons /\ LastOns' = LastOns
    BY DEF Offs, Ons, LastOns
  <1>3. QED
    BY <1>1, <1>2, QueueStays DEF GadgetInv

-----------------------------------------------------------------------------
(* The framework, adbd and the queue keep it                               *)

LEMMA SwitchInv ==
    ASSUME GadgetInv, NEW c \in Requests, Switch(c)
    PROVE  QueueOK' /\ GadgetOK' /\ InStep'
  <1>1. /\ Types /\ QueueOK /\ InStep /\ stage = "idle" /\ stage' = "disabling"
        /\ queue \in Seq(Changes)
        /\ UNCHANGED <<ready, state, commands, gadget, conn, adbd, hasty, deaths>>
    BY DEF GadgetInv, Switch, Types, TypeOK
  <1>2. QueueOK' /\ Offs' = Offs \cup {Len(queue) + 1} /\ Ons' = Ons /\ Readys' = Readys
    BY <1>1, SwitchQueue
  <1>3. GadgetOK'
    BY <1>2 DEF GadgetOK
  <1>4. InStep'
    <2> SUFFICES ASSUME Undisturbed PROVE InStep'
      BY <1>1 DEF InStep, Undisturbed
    <2>1. (gadget.enabled => Consistent) /\ Consistent' = Consistent
      BY <1>1 DEF InStep, Consistent
    <2>2. Settled /\ Offs = {} /\ Ons = {} /\ state # None
      BY <1>1 DEF InStep
    <2>3. DisablingOK'
      BY <1>1, <1>2, <2>2 DEF DisablingOK, Settled
    <2>4. QED
      BY <1>1, <2>1, <2>3 DEF InStep
  <1>5. QED
    BY <1>2, <1>3, <1>4

LEMMA SwitchOnInv ==
    ASSUME GadgetInv, SwitchOn
    PROVE  QueueOK' /\ GadgetOK' /\ InStep'
  <1>1. /\ Types /\ QueueOK /\ GadgetOK /\ InStep /\ stage = "disabling" /\ stage' = "switching"
        /\ config = None /\ config' = target /\ target' = target /\ queue \in Seq(Changes)
        /\ UNCHANGED <<ready, state, commands, gadget, conn, adbd, deaths>>
    BY DEF GadgetInv, SwitchOn, SetConfig, QueueOK, Types, TypeOK
  <1>2. /\ QueueOK' /\ Offs' = Offs /\ Ons' = Ons \cup {Len(queue) + 1} /\ Readys' = Readys
        /\ (Offs = {} => Ons = {})
    BY <1>1, SwitchOnQueue
  <1>3. Disabled' = Disabled
    BY <1>1 DEF Disabled, Left
  <1>4. Offs = {} => Disabled
    BY <1>1, <1>2 DEF GadgetOK
  <1>5. GadgetOK'
    BY <1>2, <1>3, <1>4 DEF GadgetOK
  <1>6. InStep'
    <2> SUFFICES ASSUME Undisturbed' PROVE InStep'
      BY DEF InStep
    <2>1. Undisturbed /\ state = None
      <3>1. hasty' = 0 /\ hasty \in Nat /\ deaths = 0
        BY <1>1, BoundsType DEF Undisturbed, Types, TypeOK
      <3>2. state = None /\ hasty' = hasty
        BY <3>1 DEF SwitchOn, Waited
      <3>3. QED
        BY <3>1, <3>2 DEF Undisturbed
    <2>2. (gadget.enabled => Consistent) /\ Consistent' = Consistent
      BY <1>1, <2>1 DEF InStep, Consistent
    <2>3. DisablingOK
      BY <1>1, <2>1 DEF InStep
    <2>4. Offs = {} /\ Readys = {} /\ commands = <<>> /\ adbd # "starting"
      BY <2>1, <2>3 DEF DisablingOK
    <2>5. ~gadget.enabled
      <3>1. Left < 5
        BY <2>4, EmptySeq DEF Left
      <3>2. QED
        BY <1>4, <2>4, <3>1 DEF Disabled
    <2>6. SwitchingOK'
      BY <1>1, <1>2, <2>1, <2>4, <2>5 DEF SwitchingOK, Settled, Waiting
    <2>7. QED
      BY <1>1, <2>2, <2>6 DEF InStep
  <1>7. QED
    BY <1>2, <1>5, <1>6

LEMMA SwitchDoneInv ==
    ASSUME GadgetInv, SwitchDone
    PROVE  QueueOK' /\ GadgetOK' /\ InStep'
  <1>1. /\ Types /\ QueueOK /\ GadgetOK /\ InStep /\ stage = "switching" /\ stage' = "idle"
        /\ UNCHANGED <<config, ready, state, queue, commands, gadget, conn, adbd, target, deaths>>
    BY DEF GadgetInv, SwitchDone, properties, init
  <1>2. Offs' = Offs /\ Ons' = Ons /\ Readys' = Readys /\ LastOns' = LastOns
    BY <1>1 DEF Offs, Ons, Readys, LastOns
  <1>3. QueueOK'
    BY <1>1, <1>2, QueueStays DEF QueueOK
  <1>4. /\ NoMore' = NoMore /\ Is(config)' = Is(config) /\ Left' = Left
        /\ Consistent' = Consistent
    BY <1>1 DEF NoMore, Is, Left, Consistent
  <1>5. Disabled' = Disabled /\ TooEarly' = TooEarly /\ Plain' = Plain /\ Adb' = Adb
    BY <1>1, <1>2, <1>4 DEF Disabled, TooEarly, Plain, Adb
  <1>6. GadgetOK'
    BY <1>1, <1>2, <1>4, <1>5 DEF GadgetOK
  <1>7. InStep'
    <2> SUFFICES ASSUME Undisturbed' PROVE InStep'
      BY DEF InStep
    <2>1. Undisturbed /\ state = target
      <3>1. hasty' = 0 /\ hasty \in Nat /\ deaths = 0
        BY <1>1, BoundsType DEF Undisturbed, Types, TypeOK
      <3>2. state = target /\ hasty' = hasty
        BY <3>1 DEF SwitchDone, Waited
      <3>3. QED
        BY <3>1, <3>2 DEF Undisturbed
    <2>2. target # None
      BY <1>1, ConfigFacts DEF QueueOK
    <2>3. SwitchingOK /\ ~Waiting
      BY <1>1, <2>1, <2>2 DEF InStep, Waiting
    <2>4. Offs = {} /\ Ons = {} /\ Activated
      BY <2>3 DEF SwitchingOK
    <2>5. commands = <<>>
      <3>1. Left = 0
        <4>1. Left \in Nat
          BY <1>1 DEF Left, Types, TypeOK
        <4>2. ~(Left > 1) /\ Left # 1
          BY <2>1, <2>2, <2>3, <2>4 DEF Activated
        <4>3. QED
          BY <4>1, <4>2
      <3>2. commands \in Seq(Commands) /\ Len(commands) = 0
        BY <1>1, <3>1 DEF Left, Types, TypeOK
      <3>3. QED
        BY <3>2, EmptySeq
    <2>6. Settled /\ state # None
      BY <2>1, <2>2, <2>4, <2>5 DEF Activated, Settled
    <2>7. gadget.enabled => Consistent
      BY <1>1, <2>1 DEF InStep
    <2>8. QED
      BY <1>1, <1>2, <1>4, <2>4, <2>6, <2>7 DEF InStep, Settled
  <1>8. QED
    BY <1>3, <1>6, <1>7

LEMMA AdbdServesInv ==
    ASSUME GadgetInv, AdbdServes
    PROVE  QueueOK' /\ GadgetOK' /\ InStep'
  <1>1. /\ Types /\ QueueOK /\ GadgetOK /\ InStep /\ adbd = "starting" /\ adbd' = "serving"
        /\ queue \in Seq(Changes)
        /\ UNCHANGED <<config, state, commands, gadget, conn, stage, target, hasty, deaths>>
    BY DEF GadgetInv, AdbdServes, framework, Types, TypeOK
  <1>2. PICK e \in Changes : e = [of |-> "ready", to |-> None]
    BY DEF Changes
  <1>3. queue' = Append(queue, e) /\ e.of = "ready"
    BY <1>2 DEF AdbdServes
  <1>4. /\ Offs' = Offs /\ Ons' = Ons /\ LastOns' = LastOns
        /\ Readys' = Readys \cup {Len(queue) + 1} /\ \A i \in Ons : queue'[i] = queue[i]
    BY <1>1, <1>3, OtherAppended, Appended
  <1>5. ~TooEarly /\ (Disabled => ~(Left < 4))
    BY <1>1 DEF TooEarly, Disabled
  <1>6. config # Unset
    <2> SUFFICES ASSUME config = Unset PROVE FALSE
      OBVIOUS
    <2>1. queue = <<>> /\ commands = <<>>
      BY <1>1 DEF QueueOK
    <2>2. Offs = {} /\ Ons = {}
      BY <1>1, <2>1, QueueTypes
    <2>3. Left < 4
      BY <2>1, EmptySeq DEF Left
    <2>4. QED
      BY <1>1, <1>5, <2>2, <2>3 DEF GadgetOK
  <1>7. QueueOK'
    BY <1>1, <1>4, <1>6, QueueStays
  <1>8. GadgetOK'
    <2>1. /\ NoMore' = NoMore /\ Is(config)' = Is(config) /\ Left' = Left
      BY <1>1 DEF NoMore, Is, Left
    <2>2. Left \in Nat
      BY <1>1 DEF Left, Types, TypeOK
    <2>3. Disabled => Disabled'
      BY <1>1, <1>5, <2>1, <2>2 DEF Disabled
    <2>4. Plain' = Plain
      BY <1>1, <2>1 DEF Plain
    <2>5. Adb => Adb'
      BY <1>1, <1>4, <2>1 DEF Adb
    <2>6. QED
      BY <1>1, <1>4, <1>5, <2>1, <2>3, <2>4, <2>5 DEF GadgetOK
  <1>9. InStep'
    <2> SUFFICES ASSUME Undisturbed PROVE InStep'
      BY <1>1 DEF InStep, Undisturbed
    <2>1. (gadget.enabled => Consistent) /\ Consistent' = Consistent
      BY <1>1 DEF InStep, Consistent
    <2>2. stage = "switching"
      <3>1. stage # "idle"
        BY <1>1 DEF InStep, Settled
      <3>2. stage # "disabling"
        BY <1>1 DEF InStep, DisablingOK, Settled
      <3>3. QED
        BY <1>1, <3>1, <3>2 DEF Types, TypeOK
    <2>3. /\ Offs = {} /\ Ons = {} /\ target \in Configs /\ AdbdStarts /\ Waiting
      BY <1>1, <2>2 DEF InStep, SwitchingOK, Settled, Activated
    <2>4. AdbdStarts' /\ Waiting'
      BY <1>1, <1>4, <2>3 DEF AdbdStarts, Waiting
    <2>5. SwitchingOK'
      BY <1>1, <1>4, <2>3, <2>4 DEF SwitchingOK
    <2>6. QED
      BY <1>1, <2>1, <2>2, <2>5 DEF InStep
  <1>10. QED
    BY <1>7, <1>8, <1>9

LEMMA AdbdDiesInv ==
    ASSUME GadgetInv, AdbdDies
    PROVE  QueueOK' /\ GadgetOK' /\ InStep'
  <1>1. /\ Types /\ QueueOK /\ GadgetOK /\ adbd # "stopped" /\ adbd' = "starting"
        /\ UNCHANGED <<config, ready, state, queue, commands, conn, stage, target, hasty>>
    BY DEF GadgetInv, AdbdDies, properties, init, framework
  <1>2. Offs' = Offs /\ Ons' = Ons /\ LastOns' = LastOns
    BY <1>1 DEF Offs, Ons, LastOns
  <1>3. QueueOK'
    BY <1>1, <1>2, QueueStays DEF QueueOK
  <1>4. /\ gadget'.functions = gadget.functions /\ gadget'.product = gadget.product
        /\ gadget'.class = gadget.class
        /\ gadget'.enabled = (gadget.enabled /\ ~gadget.functions.adb)
    BY <1>1 DEF AdbdDies, Types, GadgetType
  <1>5. NoMore' = NoMore /\ Is(config)' = Is(config) /\ Left' = Left
    BY <1>1, <1>4 DEF NoMore, Is, Left
  <1>6. GadgetOK'
    <2>1. Left \in Nat
      BY <1>1 DEF Left, Types, TypeOK
    <2>2. Disabled => Disabled'
      BY <1>1, <1>4, <1>5, <2>1 DEF Disabled
    <2>3. ~TooEarly
      BY <1>1 DEF TooEarly
    <2>4. config \in Configs /\ ~config.adb /\ Plain => Plain'
      <3> SUFFICES ASSUME config \in Configs, ~config.adb, Plain PROVE Plain'
        OBVIOUS
      <3>1. Left < 3 => ~gadget.functions.adb
        BY FunctionsFacts DEF Plain, Is
      <3>2. Left < 2 => gadget'.enabled
        <4>1. Left < 2 => Left < 3
          BY <2>1
        <4>2. Left < 2 => gadget.enabled
          BY DEF Plain
        <4>3. QED
          BY <1>4, <3>1, <4>1, <4>2
      <3>3. QED
        BY <1>1, <1>5, <3>2 DEF Plain
    <2>5. Adb => Adb'
      BY <1>1, <1>5 DEF Adb
    <2>6. QED
      BY <1>1, <1>2, <1>5, <2>2, <2>3, <2>4, <2>5 DEF GadgetOK
  <1>7. InStep'
    <2>1. ~Undisturbed'
      <3>1. deaths \in 0..MaxDeaths /\ deaths' = deaths + 1
        BY <1>1 DEF AdbdDies, Types, TypeOK
      <3>2. QED
        BY <3>1, BoundsType DEF Undisturbed
    <2>2. QED
      BY <2>1 DEF InStep
  <1>8. QED
    BY <1>3, <1>6, <1>7

-----------------------------------------------------------------------------
(* init takes a change from the queue                                      *)

LEMMA Shifted ==
    ASSUME NEW S \in SUBSET (Nat \ {0}), NEW T \in SUBSET (Nat \ {0}),
           \A i \in Nat \ {0} : i \in T <=> i + 1 \in S
    PROVE  /\ T = {} <=> S \subseteq {1}
           /\ (\A i, j \in S : i = j) => \A i, j \in T : i = j
  <1>1. ASSUME NEW i \in S, i # 1 PROVE T # {}
    <2>1. PICK k \in Nat \ {0} : k + 1 = i
      BY <1>1
    <2>2. QED
      BY <2>1
  <1>2. ASSUME NEW i \in T PROVE i + 1 \in S /\ i + 1 # 1
    OBVIOUS
  <1>3. (\A i, j \in S : i = j) => \A i, j \in T : i = j
    BY <1>2
  <1>4. T = {} <=> S \subseteq {1}
    BY <1>1, <1>2
  <1>5. QED
    BY <1>3, <1>4

LEMMA DispatchSets ==
    ASSUME Types, Dispatch
    PROVE  LET e == queue[1] IN
           /\ e \in Changes /\ e.of \in {"config", "ready", "unready"}
           /\ 1 \in Offs <=> e.of = "config" /\ e.to = None
           /\ 1 \in Ons <=> e.of = "config" /\ e.to # None
           /\ 1 \in Readys <=> e.of = "ready"
           /\ Offs' = {} <=> Offs \subseteq {1}
           /\ Ons' = {} <=> Ons \subseteq {1}
           /\ Readys' = {} <=> Readys \subseteq {1}
           /\ (\A i, j \in Offs : i = j) => \A i, j \in Offs' : i = j
           /\ (\A i, j \in Readys : i = j) => \A i, j \in Readys' : i = j
  <1> DEFINE e == queue[1]
  <1>1. /\ queue \in Seq(Changes) /\ queue # <<>> /\ queue' = Tail(queue) /\ e \in Changes
    BY DispatchTypes
  <1>2. 1 \in DOMAIN queue
    BY <1>1, Dispatched
  <1>3. e.of \in {"config", "ready", "unready"}
    BY <1>1 DEF Changes
  <1>4. /\ 1 \in Offs <=> e.of = "config" /\ e.to = None
        /\ 1 \in Ons <=> e.of = "config" /\ e.to # None
        /\ 1 \in Readys <=> e.of = "ready"
    BY <1>2 DEF Offs, Ons, Readys
  <1>5. /\ Offs \in SUBSET (Nat \ {0}) /\ Ons \in SUBSET (Nat \ {0})
        /\ Readys \in SUBSET (Nat \ {0})
    BY <1>1, QueueTypes
  <1>6. /\ Offs' \in SUBSET (Nat \ {0}) /\ Ons' \in SUBSET (Nat \ {0})
        /\ Readys' \in SUBSET (Nat \ {0})
        /\ \A i \in Nat \ {0} : /\ i \in Offs' <=> i + 1 \in Offs
                                /\ i \in Ons' <=> i + 1 \in Ons
                                /\ i \in Readys' <=> i + 1 \in Readys
    BY <1>1, Dispatched
  <1>7. (Offs' = {} <=> Offs \subseteq {1})
        /\ ((\A i, j \in Offs : i = j) => \A i, j \in Offs' : i = j)
    <2>1. Offs \in SUBSET (Nat \ {0}) /\ Offs' \in SUBSET (Nat \ {0})
      BY <1>5, <1>6
    <2>2. \A i \in Nat \ {0} : i \in Offs' <=> i + 1 \in Offs
      BY <1>6
    <2>3. QED
      BY <2>1, <2>2, Shifted
  <1>8. Ons' = {} <=> Ons \subseteq {1}
    <2>1. Ons \in SUBSET (Nat \ {0}) /\ Ons' \in SUBSET (Nat \ {0})
      BY <1>5, <1>6
    <2>2. \A i \in Nat \ {0} : i \in Ons' <=> i + 1 \in Ons
      BY <1>6
    <2>3. QED
      BY <2>1, <2>2, Shifted
  <1>9. (Readys' = {} <=> Readys \subseteq {1})
        /\ ((\A i, j \in Readys : i = j) => \A i, j \in Readys' : i = j)
    <2>1. Readys \in SUBSET (Nat \ {0}) /\ Readys' \in SUBSET (Nat \ {0})
      BY <1>5, <1>6
    <2>2. \A i \in Nat \ {0} : i \in Readys' <=> i + 1 \in Readys
      BY <1>6
    <2>3. QED
      BY <2>1, <2>2, Shifted
  <1>10. QED
    BY <1>1, <1>3, <1>4, <1>7, <1>8, <1>9

\* A configuration whose turn it is finds adbd stopped and nothing left over.
LEMMA DispatchOn ==
    ASSUME Types, QueueOK, GadgetOK, Dispatch, 1 \in Ons, Offs = {}
    PROVE  /\ Ons = {1} /\ Ons' = {} /\ queue[1].to = config /\ config \in Requests
           /\ config \notin {None, Unset}
           /\ adbd = "stopped" /\ ~ready /\ NoMore
  <1>1. LastOns = Ons
    BY DEF LastOns
  <1>2. Ons = {1} /\ queue[1].to = config /\ config \in Requests
    BY <1>1 DEF QueueOK
  <1>3. Ons' = {}
    BY <1>2, DispatchSets
  <1>4. Left = 0
    BY DispatchTypes
  <1>5. Disabled => adbd = "stopped" /\ ~ready /\ gadget.class = 0 /\ ~conn
    BY <1>4 DEF Disabled
  <1>6. Disabled \/ TooEarly
    BY <1>2 DEF GadgetOK
  <1>7. QED
    BY <1>2, <1>3, <1>5, <1>6, ConfigFacts DEF TooEarly, NoMore

LEMMA Activating ==
    ASSUME Types, config' = config, commands' = Activate(config)
    PROVE  Left' = 3 /\ Rest(commands', Activate(config))
  <1>1. config \in Values
    BY DEF Types, TypeOK
  <1>2. PICK t \in Seq(Commands) : t = Activate(config) /\ Len(t) = 3
    BY <1>1, ActivateIs
  <1>3. Rest(t, t)
    BY <1>2, RestSelf
  <1>4. QED
    BY <1>2, <1>3 DEF Left

LEMMA DispatchGadget ==
    ASSUME GadgetInv, Dispatch
    PROVE  GadgetOK'
  <1> DEFINE e == queue[1]
  <1>1. /\ Types /\ QueueOK /\ GadgetOK /\ Left = 0 /\ commands = <<>> /\ e \in Changes
        /\ commands' = Triggered(e) /\ commands' \in Seq(Commands)
        /\ UNCHANGED <<config, ready, gadget, conn, adbd>>
    BY DispatchTypes DEF GadgetInv
  <1>2. /\ e.of \in {"config", "ready", "unready"}
        /\ 1 \in Offs <=> e.of = "config" /\ e.to = None
        /\ 1 \in Ons <=> e.of = "config" /\ e.to # None
        /\ 1 \in Readys <=> e.of = "ready"
        /\ Offs' = {} <=> Offs \subseteq {1}
        /\ Ons' = {} <=> Ons \subseteq {1}
        /\ Readys' = {} <=> Readys \subseteq {1}
    BY <1>1, DispatchSets
  <1>3. NoMore' = NoMore /\ Is(config)' = Is(config)
    BY <1>1 DEF NoMore, Is
  <1>4. config \in Values /\ Start \in Seq(Commands) /\ Disable \in Seq(Commands)
    BY <1>1, StartIs, DisableIs DEF Types, TypeOK
  <1>5. Activate(config) \in Seq(Commands) /\ Start # <<>>
    BY <1>4, ActivateIs, StartIs
  <1>6. commands' = <<>> => /\ Left' = 0 /\ Rest(commands', Disable) /\ Rest(commands', Start)
                            /\ Rest(commands', Activate(config))
    <2> SUFFICES ASSUME commands' = <<>>
                 PROVE  /\ Left' = 0 /\ Rest(commands', Disable) /\ Rest(commands', Start)
                        /\ Rest(commands', Activate(config))
      OBVIOUS
    <2>1. Left' = 0
      BY EmptySeq DEF Left
    <2>2. \A t \in Seq(Commands) : Rest(<<>>, t)
      BY RestSelf
    <2>3. QED
      BY <1>4, <1>5, <2>1, <2>2
  <1>7. commands' = Activate(config) => Left' = 3 /\ Rest(commands', Activate(config))
    BY <1>1, Activating
  <1>8. SUFFICES ASSUME Offs \subseteq {1} PROVE GadgetOK'
    BY <1>2 DEF GadgetOK
  <1>9. CASE 1 \in Offs
    <2>1. commands' = Disable
      BY <1>1, <1>2, <1>9, TriggeredIs
    <2>2. Left' = 5 /\ Rest(commands', Disable)
      BY <1>4, <2>1, DisableIs, RestSelf DEF Left
    <2>3. Disabled'
      BY <2>2 DEF Disabled
    <2>4. Ons' = {} => config = None
      <3> SUFFICES ASSUME Ons' = {} PROVE config = None
        OBVIOUS
      <3>1. Ons = {}
        BY <1>2, <1>9
      <3>2. QED
        BY <1>1, <1>9, <3>1 DEF QueueOK, LastOns
    <2>5. QED
      BY <1>1, <2>3, <2>4 DEF GadgetOK
  <1>10. CASE 1 \in Ons
    <2>1. Offs = {}
      BY <1>2, <1>8, <1>10
    <2>2. /\ Ons' = {} /\ e.to = config /\ config \notin {None, Unset}
          /\ adbd = "stopped" /\ ~ready /\ NoMore
      BY <1>1, <1>10, <2>1, DispatchOn
    <2>3. CASE config \in Configs
      <3>1. CASE config.adb
        <4>1. commands' = Start
          BY <1>1, <1>2, <1>10, <2>2, <2>3, <3>1, TriggeredIs
        <4>2. Adb'
          BY <1>1, <1>4, <2>2, <4>1, RestSelf DEF Adb
        <4>3. QED
          BY <1>1, <1>3, <2>2, <2>3, <3>1, <4>2 DEF GadgetOK
      <3>2. CASE ~config.adb
        <4>1. commands' = Activate(config)
          BY <1>1, <1>2, <1>10, <2>2, <2>3, <3>2, TriggeredIs
        <4>2. Plain'
          BY <1>1, <1>7, <4>1 DEF Plain
        <4>3. QED
          BY <1>1, <1>3, <2>2, <2>3, <3>2, <4>2 DEF GadgetOK
      <3>3. QED
        BY <3>1, <3>2
    <2>4. CASE config \notin Configs
      BY <1>1, <2>2, <2>4 DEF GadgetOK
    <2>5. QED
      BY <2>3, <2>4
  <1>11. CASE 1 \notin Offs /\ 1 \notin Ons
    <2>1. Offs = {} /\ (Ons' = {} <=> Ons = {}) /\ e.of \in {"ready", "unready"}
      BY <1>2, <1>8, <1>11
    <2>2. commands' = IF e.of = "ready" /\ config \in Configs /\ config.adb
                      THEN Activate(config) ELSE <<>>
      <3>1. e.of \notin {"config", "ready"} <=> e.of # "ready"
        BY <2>1
      <3>2. QED
        BY <1>1, <2>1, <3>1, TriggeredIs
    <2>3. TooEarly => TooEarly'
      BY <1>1, <1>3, <1>6, <1>7, <2>2 DEF TooEarly
    <2>4. Disabled => adbd = "stopped" /\ ~ready /\ NoMore
      BY <1>1 DEF Disabled, NoMore
    <2>5. Disabled => Disabled' \/ TooEarly'
      <3>1. CASE commands' = <<>>
        BY <1>1, <1>6, <3>1 DEF Disabled
      <3>2. CASE commands' # <<>>
        BY <1>1, <1>3, <1>7, <2>2, <2>4, <3>2 DEF TooEarly
      <3>3. QED
        BY <3>1, <3>2
    <2>6. config \notin Configs /\ Disabled => Disabled'
      <3>1. config \notin Configs => commands' = <<>>
        BY <2>2
      <3>2. QED
        BY <1>1, <1>6, <3>1 DEF Disabled
    <2>7. Plain /\ ~config.adb => Plain'
      <3>1. ~config.adb => commands' = <<>>
        BY <2>2
      <3>2. QED
        BY <1>1, <1>3, <1>6, <3>1 DEF Plain
    <2>8. Adb /\ config \in Configs /\ config.adb => Adb'
      <3>1. Adb => adbd # "stopped"
        BY <1>1, <1>5 DEF Adb
      <3>2. CASE e.of = "ready"
        BY <1>1, <1>7, <2>2, <3>1, <3>2 DEF Adb
      <3>3. CASE e.of = "unready"
        <4>1. commands' = <<>> /\ (Readys' = {} <=> Readys = {})
          BY <1>2, <2>2, <3>3
        <4>2. Adb /\ adbd = "serving" =>
                 \/ Readys' # {}
                 \/ Is(config) /\ gadget.enabled
          BY <1>1, <4>1 DEF Adb
        <4>3. QED
          BY <1>1, <1>3, <1>6, <3>1, <4>1, <4>2 DEF Adb
      <3>4. QED
        BY <2>1, <3>2, <3>3
    <2>9. CASE Ons # {}
      BY <1>1, <2>1, <2>3, <2>5, <2>9 DEF GadgetOK
    <2>10. CASE Ons = {}
      BY <1>1, <1>3, <2>1, <2>6, <2>7, <2>8, <2>10, ConfigFacts DEF GadgetOK
    <2>11. QED
      BY <2>9, <2>10
  <1>12. QED
    BY <1>9, <1>10, <1>11

LEMMA DispatchInStep ==
    ASSUME GadgetInv, Dispatch
    PROVE  InStep'
  <1> DEFINE e == queue[1]
  <1>1. /\ Types /\ QueueOK /\ GadgetOK /\ InStep /\ Left = 0 /\ commands = <<>>
        /\ e \in Changes /\ commands' = Triggered(e) /\ commands' \in Seq(Commands)
        /\ UNCHANGED <<config, ready, state, gadget, conn, adbd, stage, target, hasty, deaths>>
    BY DispatchTypes DEF GadgetInv
  <1>2. /\ e.of \in {"config", "ready", "unready"}
        /\ 1 \in Offs <=> e.of = "config" /\ e.to = None
        /\ 1 \in Ons <=> e.of = "config" /\ e.to # None
        /\ 1 \in Readys <=> e.of = "ready"
        /\ Offs' = {} <=> Offs \subseteq {1}
        /\ Ons' = {} <=> Ons \subseteq {1}
        /\ Readys' = {} <=> Readys \subseteq {1}
        /\ (\A i, j \in Offs : i = j) => \A i, j \in Offs' : i = j
        /\ (\A i, j \in Readys : i = j) => \A i, j \in Readys' : i = j
    BY <1>1, DispatchSets
  <1>3. e.of = "unready" => commands' = <<>>
    BY <1>1, TriggeredIs
  <1>4. SUFFICES ASSUME Undisturbed PROVE InStep'
    BY <1>1 DEF InStep, Undisturbed
  <1>5. (gadget.enabled => Consistent) /\ Consistent' = Consistent /\ Is(target)' = Is(target)
    BY <1>1, <1>4 DEF InStep, Consistent, Is
  <1>6. CASE stage = "idle"
    <2>1. Settled /\ Offs = {} /\ Ons = {} /\ state # None
      BY <1>1, <1>4, <1>6 DEF InStep
    <2>2. Offs' = {} /\ Ons' = {} /\ Readys' = {} /\ commands' = <<>>
      BY <1>2, <1>3, <2>1 DEF Settled
    <2>3. QED
      BY <1>1, <1>5, <1>6, <2>1, <2>2 DEF InStep, Settled
  <1>7. CASE stage = "disabling"
    <2>1. DisablingOK
      BY <1>1, <1>4, <1>7 DEF InStep
    <2>2. Ons = {} /\ Readys = {} /\ adbd # "starting" /\ \A i, j \in Offs : i = j
      BY <2>1 DEF DisablingOK, Settled
    <2>3. Ons' = {} /\ Readys' = {} /\ \A i, j \in Offs' : i = j
      BY <1>2, <2>2
    <2>4. CASE Offs = {}
      <3>1. Offs' = {} /\ commands' = <<>>
        BY <1>2, <1>3, <2>2, <2>4
      <3>2. QED
        BY <1>1, <1>5, <1>7, <2>2, <2>3, <3>1 DEF InStep, DisablingOK
    <2>5. CASE Offs # {}
      <3>1. state # None
        BY <2>1, <2>5 DEF DisablingOK
      <3>2. CASE 1 \in Offs
        <4>1. Offs' = {}
          BY <1>2, <2>2, <3>2
        <4>2. DisablingOK'
          BY <1>1, <2>2, <2>3, <3>1, <4>1 DEF DisablingOK
        <4>3. QED
          BY <1>1, <1>5, <1>7, <4>2 DEF InStep
      <3>3. CASE 1 \notin Offs
        <4>1. commands' = <<>>
          BY <1>2, <1>3, <2>2, <3>3
        <4>2. DisablingOK'
          BY <1>1, <2>2, <2>3, <3>1, <4>1 DEF DisablingOK, Settled
        <4>3. QED
          BY <1>1, <1>5, <1>7, <4>2 DEF InStep
      <3>4. QED
        BY <3>2, <3>3
    <2>6. QED
      BY <2>4, <2>5
  <1>8. CASE stage = "switching"
    <2>1. SwitchingOK /\ Offs = {} /\ Offs' = {} /\ target = config
      BY <1>1, <1>2, <1>4, <1>8 DEF InStep, SwitchingOK, QueueOK
    <2>2. SUFFICES SwitchingOK'
      BY <1>1, <1>5, <1>8 DEF InStep
    <2>3. CASE Ons # {} \/ target \notin Configs
      <3>1. Readys = {} /\ Readys' = {} /\ adbd # "starting" /\ Waiting
        BY <1>2, <2>1, <2>3 DEF SwitchingOK, Settled
      <3>2. Waiting'
        BY <1>1, <3>1 DEF Waiting
      <3>3. CASE 1 \in Ons
        <4>1. /\ Ons' = {} /\ e.to = config /\ config \notin {None, Unset} /\ adbd = "stopped"
              /\ ~ready
          BY <1>1, <2>1, <3>3, DispatchOn
        <4>2. CASE target \notin Configs
          <5>1. commands' = <<>>
            BY <1>1, <1>2, <2>1, <3>3, <4>1, <4>2, TriggeredIs
          <5>2. QED
            BY <1>1, <2>1, <3>1, <3>2, <4>1, <4>2, <5>1 DEF SwitchingOK, Settled
        <4>3. CASE target \in Configs /\ target.adb
          <5>1. commands' = Start
            BY <1>1, <1>2, <2>1, <3>3, <4>1, <4>3, TriggeredIs
          <5>2. AdbdStarts'
            BY <1>1, <3>1, <4>1, <4>3, <5>1 DEF AdbdStarts
          <5>3. QED
            BY <1>1, <2>1, <3>2, <4>1, <4>3, <5>2 DEF SwitchingOK
        <4>4. CASE target \in Configs /\ ~target.adb
          <5>1. commands' = Activate(config)
            BY <1>1, <1>2, <2>1, <3>3, <4>1, <4>4, TriggeredIs
          <5>2. Left' = 3 /\ Rest(commands', Activate(config))
            BY <1>1, <5>1, Activating
          <5>3. Activated'
            BY <1>1, <3>1, <3>2, <4>1, <4>4, <5>2 DEF Activated
          <5>4. QED
            BY <1>1, <2>1, <4>1, <4>4, <5>3 DEF SwitchingOK
        <4>5. QED
          BY <4>2, <4>3, <4>4
      <3>4. CASE 1 \notin Ons
        <4>1. commands' = <<>> /\ (Ons' = {} <=> Ons = {})
          BY <1>2, <1>3, <2>1, <3>1, <3>4
        <4>2. Settled'
          BY <1>1, <3>1, <4>1 DEF Settled
        <4>3. QED
          BY <1>1, <2>1, <2>3, <3>2, <4>1, <4>2 DEF SwitchingOK
      <3>5. QED
        BY <3>3, <3>4
    <2>4. CASE Ons = {} /\ target \in Configs
      <3>1. Ons' = {} /\ e.of \in {"ready", "unready"}
        BY <1>2, <2>1, <2>4
      <3>2. CASE AdbdStarts /\ Waiting
        <4>1. Waiting'
          BY <1>1, <3>2 DEF Waiting
        <4>2. target.adb /\ commands # Start
          BY <1>1, <3>2, StartIs DEF AdbdStarts
        <4>3. CASE Readys = {}
          <5>1. commands' = <<>> /\ Readys' = {} /\ adbd = "starting"
            BY <1>2, <1>3, <3>1, <3>2, <4>2, <4>3 DEF AdbdStarts
          <5>2. AdbdStarts'
            BY <1>1, <4>2, <5>1 DEF AdbdStarts
          <5>3. QED
            BY <1>1, <2>1, <2>4, <3>1, <4>1, <5>2 DEF SwitchingOK
        <4>4. CASE Readys # {}
          <5>1. adbd = "serving" /\ \A i, j \in Readys : i = j
            BY <3>2, <4>2, <4>4 DEF AdbdStarts
          <5>2. CASE e.of = "ready"
            <6>1. Readys' = {}
              BY <1>2, <5>1, <5>2
            <6>2. commands' = Activate(config)
              BY <1>1, <2>1, <2>4, <4>2, <5>2, TriggeredIs
            <6>3. Left' = 3 /\ Rest(commands', Activate(config))
              BY <1>1, <6>2, Activating
            <6>4. Activated'
              BY <1>1, <4>1, <4>2, <5>1, <6>1, <6>3 DEF Activated
            <6>5. QED
              BY <1>1, <2>1, <2>4, <3>1, <6>4 DEF SwitchingOK
          <5>3. CASE e.of = "unready"
            <6>1. commands' = <<>> /\ Readys' # {}
              BY <1>2, <1>3, <4>4, <5>3
            <6>2. AdbdStarts'
              BY <1>1, <1>2, <4>2, <5>1, <6>1 DEF AdbdStarts
            <6>3. QED
              BY <1>1, <2>1, <2>4, <3>1, <4>1, <6>2 DEF SwitchingOK
          <5>4. QED
            BY <3>1, <5>2, <5>3
        <4>5. QED
          BY <4>3, <4>4
      <3>3. CASE Activated
        <4>1. Readys = {} /\ Readys' = {} /\ commands' = <<>>
          BY <1>2, <1>3, <3>1, <3>3 DEF Activated
        <4>2. Left' = 0 /\ Left = 0
          BY <1>1, <4>1 DEF Left
        <4>3. Activated'
          BY <1>1, <1>5, <3>3, <4>1, <4>2 DEF Activated
        <4>4. QED
          BY <1>1, <2>1, <2>4, <3>1, <4>3 DEF SwitchingOK
      <3>4. QED
        BY <2>1, <2>4, <3>2, <3>3 DEF SwitchingOK
    <2>5. QED
      BY <2>3, <2>4
  <1>9. QED
    BY <1>1, <1>6, <1>7, <1>8 DEF Types, TypeOK

LEMMA DispatchInv ==
    ASSUME GadgetInv, Dispatch
    PROVE  QueueOK' /\ GadgetOK' /\ InStep'
  BY DispatchQueue, DispatchGadget, DispatchInStep DEF GadgetInv

-----------------------------------------------------------------------------
(* The invariant and what follows from it                                  *)

LEMMA StutterInv ==
    ASSUME GadgetInv, UNCHANGED vars
    PROVE  QueueOK' /\ GadgetOK' /\ InStep'
  <1>1. UNCHANGED <<config, ready, state, queue, commands, gadget, conn, adbd, stage, target,
                    hasty, deaths>>
    BY DEF vars, properties, init, framework
  <1>2. Offs' = Offs /\ Ons' = Ons /\ Readys' = Readys /\ LastOns' = LastOns
    BY <1>1 DEF Offs, Ons, Readys, LastOns
  <1>3. /\ NoMore' = NoMore /\ Is(config)' = Is(config) /\ Is(target)' = Is(target)
        /\ Left' = Left /\ Consistent' = Consistent /\ Waiting' = Waiting
    BY <1>1 DEF NoMore, Is, Left, Consistent, Waiting
  <1>4. QueueOK'
    BY <1>1, <1>2, QueueStays DEF GadgetInv, QueueOK
  <1>5. Disabled' = Disabled /\ TooEarly' = TooEarly /\ Plain' = Plain /\ Adb' = Adb
    BY <1>1, <1>2, <1>3 DEF Disabled, TooEarly, Plain, Adb
  <1>6. GadgetOK'
    BY <1>1, <1>2, <1>3, <1>5 DEF GadgetOK, GadgetInv
  <1>7. /\ Settled' = Settled /\ AdbdStarts' = AdbdStarts /\ Activated' = Activated
        /\ DisablingOK' = DisablingOK
    BY <1>1, <1>2, <1>3 DEF Settled, AdbdStarts, Activated, DisablingOK
  <1>8. SwitchingOK' = SwitchingOK
    BY <1>1, <1>2, <1>3, <1>7 DEF SwitchingOK
  <1>9. InStep'
    BY <1>1, <1>2, <1>3, <1>7, <1>8 DEF InStep, Undisturbed, GadgetInv
  <1>10. QED
    BY <1>4, <1>6, <1>9

LEMMA InitInv ==
    ASSUME Init
    PROVE  GadgetInv
  <1>1. /\ config = Unset /\ state = Unset /\ target = Unset /\ ready = FALSE
        /\ queue = <<>> /\ commands = <<>> /\ conn = FALSE /\ adbd = "stopped"
        /\ stage = "idle" /\ hasty = 0 /\ deaths = 0
        /\ gadget = [enabled |-> FALSE, functions |-> None, class |-> 0, product |-> "685d"]
    BY DEF Init
  <1>2. Unset \in Values /\ None \in Values
    BY ConfigFacts
  <1>3. Product(None) = "685d"
    BY DEF Product, None, Mtp, Charging
  <1>4. queue \in Seq(Changes) /\ commands \in Seq(Commands) /\ Len(commands) = 0
    BY <1>1, EmptySeq
  <1>5. Types
    <2>1. hasty \in 0..MaxHasty /\ deaths \in 0..MaxDeaths
      BY <1>1, BoundsType
    <2>2. gadget \in GadgetType
      BY <1>1, <1>2, <1>3 DEF GadgetType
    <2>3. /\ gadget.enabled \in BOOLEAN /\ gadget.class \in {0, 2}
          /\ gadget.functions \in Values \cup {Functions(c) : c \in Values}
          /\ gadget.product \in {Product(c) : c \in Values}
      BY <2>2 DEF GadgetType
    <2>4. TypeOK
      <3>1. config \in Values /\ state \in Values /\ target \in Values
        BY <1>1, <1>2
      <3>2. ready \in BOOLEAN /\ conn \in BOOLEAN /\ adbd = "stopped" /\ stage = "idle"
        BY <1>1
      <3>3. Len(commands) <= 5
        BY <1>4
      <3>4. QED
        BY <1>4, <2>1, <2>3, <3>1, <3>2, <3>3 DEF TypeOK
    <2>5. QED
      BY <2>2, <2>4 DEF Types
  <1>6. Offs = {} /\ Ons = {} /\ Readys = {} /\ LastOns = {}
    BY <1>1, <1>4, QueueTypes DEF LastOns
  <1>7. QueueOK
    BY <1>1, <1>6, ConfigFacts DEF QueueOK
  <1>8. Disabled
    <2>1. Rest(<<>>, Disable)
      BY DisableIs, RestSelf
    <2>2. QED
      BY <1>1, <2>1 DEF Disabled
  <1>9. GadgetOK
    BY <1>1, <1>6, <1>8 DEF GadgetOK
  <1>10. InStep
    BY <1>1, <1>6, ConfigFacts DEF InStep, Settled
  <1>11. QED
    BY <1>5, <1>7, <1>9, <1>10 DEF GadgetInv

LEMMA NextInv ==
    ASSUME GadgetInv, [Next]_vars
    PROVE  GadgetInv'
  <1>1. Types'
    BY TypesNext DEF GadgetInv
  <1>2. QueueOK' /\ GadgetOK' /\ InStep'
    <2>1. ASSUME NEW c \in Requests, Switch(c) PROVE QueueOK' /\ GadgetOK' /\ InStep'
      BY <2>1, SwitchInv
    <2>2. CASE SwitchOn
      BY <2>2, SwitchOnInv
    <2>3. CASE SwitchDone
      BY <2>3, SwitchDoneInv
    <2>4. CASE AdbdServes
      BY <2>4, AdbdServesInv
    <2>5. CASE AdbdDies
      BY <2>5, AdbdDiesInv
    <2>6. CASE Dispatch
      BY <2>6, DispatchInv
    <2>7. CASE Configure
      BY <2>7, ConfigureInv, RunQueue DEF Configure, properties, framework
    <2>8. CASE Enable
      BY <2>8, EnableInv, RunQueue DEF Enable, properties, framework
    <2>9. CASE Ack
      BY <2>9, AckInv, RunQueue DEF Ack, framework
    <2>10. CASE StartAdbd
      BY <2>10, StartAdbdInv, RunQueue DEF StartAdbd, properties, framework
    <2>11. CASE DisableGadget
      BY <2>11, DisableGadgetInv, RunQueue DEF DisableGadget, properties, framework
    <2>12. CASE StopAdbd
      BY <2>12, StopAdbdInv, RunQueue DEF StopAdbd, properties, framework
    <2>13. CASE Unready
      BY <2>13, UnreadyInv
    <2>14. CASE Clear
      BY <2>14, ClearInv, RunQueue DEF Clear, properties, framework
    <2>15. CASE UNCHANGED vars
      BY <2>15, StutterInv
    <2>16. QED
      BY <2>1, <2>2, <2>3, <2>4, <2>5, <2>6, <2>7, <2>8, <2>9, <2>10, <2>11, <2>12, <2>13, <2>14,
         <2>15 DEF Next, InitStep
  <1>3. QED
    BY <1>1, <1>2 DEF GadgetInv

LEMMA AlwaysInv == Spec => []GadgetInv
  BY InitInv, NextInv, PTL DEF Spec

\* The properties, the commands and the changes underway and the gadget are
\* always among their values, and init never has more than five commands to run.
THEOREM TypeCorrect == Spec => []TypeOK
  <1>1. GadgetInv => TypeOK
    BY DEF GadgetInv, Types
  <1>2. QED
    BY <1>1, AlwaysInv, PTL

\* However many switches, hurried or not, and deaths of adbd came in between:
\* when init has run every command and adbd is not on its way, the gadget is on
\* with the functions, ids, class and daemon of the sys.usb.config there is then,
\* or off and adbd stopped if that is "none".
THEOREM QuiescentRight == Spec => []QuiescentIsRight
  <1>1. ASSUME GadgetInv PROVE QuiescentIsRight
    <2> SUFFICES ASSUME queue = <<>>, commands = <<>>, adbd # "starting"
                 PROVE  IF config \in {None, Unset} THEN ~gadget.enabled /\ adbd = "stopped"
                        ELSE config \in Configs => Is(config) /\ gadget.enabled
      BY DEF QuiescentIsRight
    <2>1. Offs = {} /\ Ons = {} /\ Readys = {}
      BY <1>1, QueueTypes DEF GadgetInv, Types, TypeOK
    <2>2. Left = 0
      BY EmptySeq DEF Left
    <2>3. adbd \in {"stopped", "serving"} /\ commands # Start
      BY <1>1, StartIs DEF GadgetInv, Types, TypeOK
    <2>4. Disabled => ~gadget.enabled /\ adbd = "stopped"
      BY <2>2 DEF Disabled
    <2>5. Plain => Is(config) /\ gadget.enabled
      BY <2>2 DEF Plain
    <2>6. Adb => Is(config) /\ gadget.enabled
      BY <2>1, <2>2, <2>3 DEF Adb
    <2>7. QED
      BY <1>1, <2>1, <2>4, <2>5, <2>6 DEF GadgetInv, GadgetOK
  <1>2. QED
    BY <1>1, AlwaysInv, PTL

\* When no wait of the framework timed out and adbd did not die, sys.usb.state is
\* what the framework switches to only once the gadget is that and on.
THEOREM AcksAreTrue == Spec => []AckIsTrue
  <1>1. ASSUME GadgetInv PROVE AckIsTrue
    <2> SUFFICES ASSUME Undisturbed, stage = "switching", state = target
                 PROVE  Is(target) /\ gadget.enabled
      BY DEF AckIsTrue
    <2>1. target # None
      BY <1>1, ConfigFacts DEF GadgetInv, QueueOK
    <2>2. ~Waiting /\ state # None
      BY <2>1 DEF Waiting
    <2>3. Activated
      BY <1>1, <2>2 DEF GadgetInv, InStep, SwitchingOK
    <2>4. Left \in Nat
      BY <1>1 DEF Left, GadgetInv, Types, TypeOK
    <2>5. ~(Left > 1) /\ Left # 1
      BY <2>2, <2>3 DEF Activated
    <2>6. Left < 2
      BY <2>4, <2>5
    <2>7. QED
      BY <2>3, <2>6 DEF Activated
  <1>2. QED
    BY <1>1, AlwaysInv, PTL

\* When no wait of the framework timed out and adbd did not die, a gadget that is
\* on has the functions, the ids and the class of one configuration.
THEOREM OneDeviceSeen == Spec => []HostSeesOneDevice
  <1>1. GadgetInv => HostSeesOneDevice
    BY DEF GadgetInv, InStep, Consistent, HostSeesOneDevice
  <1>2. QED
    BY <1>1, AlwaysInv, PTL
=============================================================================
