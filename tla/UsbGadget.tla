----------------------------- MODULE UsbGadget -----------------------------
(***************************************************************************)
(* The USB gadget as init drives it from configs/init/                     *)
(* init.exynos9820.usb.rc: the triggers on sys.usb.config and              *)
(* sys.usb.ffs.ready, what their commands leave in the gadget, adbd, which *)
(* they start and which makes sys.usb.ffs.ready 1, and the framework,      *)
(* which switches by way of "none" and waits for sys.usb.state.            *)
(*                                                                         *)
(* init takes one change of a property from its queue at a time, with the  *)
(* value the property was changed to, looks the other properties up as     *)
(* they are then, and runs the commands one by one; a ${property} in a     *)
(* command is what it is when the command runs.  Commands between two that *)
(* read a property or that another process sees are one command here.      *)
(***************************************************************************)
EXTENDS Naturals, Sequences

CONSTANTS
    Requests,       \* configurations the framework switches to
    MaxHasty,       \* bound: waits of the framework that time out
    MaxDeaths       \* bound: deaths of adbd

\* A value of sys.usb.config: [base |-> "mtp", adb |-> TRUE] is "mtp,adb",
\* [base |-> "", adb |-> TRUE] is "adb".
With(bases, adb) == [base : bases, adb : {adb}]
None == [base |-> "none", adb |-> FALSE]
Unset == [base |-> "unset", adb |-> FALSE]

Mtp == {"mtp", "mtp,acm", "mtp,categories", "mtp,categories,acm", "mtp,conn_gadget",
        "mtp,categories,conn_gadget"}
Charging == {"sec_charging", "vzw_charging"}
Conn == {"mtp,conn_gadget", "mtp,categories,conn_gadget"}
Accessory == {"accessory", "audio_source", "accessory,audio_source"}
Diag == {"rndis,diag", "diag,acm", "rndis,acm,diag"}
AdbOnly == {"", "mtp,acm", "mtp,categories,acm"}
PlainOnly == Diag \cup {"rndis,dm", "mass_storage,acm"}
Both == ((Mtp \cup Charging \cup Accessory) \ AdbOnly)
        \cup {"rndis", "ptp", "rndis,acm,dm", "rndis,acm,dm,dm1", "acm,dm", "acm,dm,dm1",
              "dm,acm", "mass_storage", "midi", "ncm"}

\* The values that a trigger names.
Configs == With(Both \cup AdbOnly, TRUE) \cup With(Both \cup PlainOnly, FALSE)

\* The functions a configuration has, where the file does not write the value
\* of sys.usb.config itself.
Literal == [base \in (Mtp \ {"mtp,acm"}) \cup Charging |->
    CASE base \in Charging -> "mtp" [] base \in Conn -> "mtp,acm,conn_gadget" [] OTHER -> "mtp,acm"]

Functions(c) == IF c.base \in DOMAIN Literal THEN [c EXCEPT !.base = Literal[c.base]] ELSE c

\* idProduct; idVendor is Google's for Accessory and Samsung's for all others.
Product(c) ==
    CASE c.base \in Mtp \cup Charging -> "6860"
      [] c.base = "rndis" -> IF c.adb THEN "6864" ELSE "6863"
      [] c.base = "rndis,acm,diag" -> "6864"
      [] c.base \in {"rndis,dm", "rndis,acm,dm", "rndis,acm,dm,dm1", "rndis,diag"} -> "6862"
      [] c.base = "ptp" -> "6865"
      [] c.base = "mass_storage" -> IF c.adb THEN "685e" ELSE "685b"
      [] c.base = "mass_storage,acm" -> "685e"
      [] c.base = "accessory" -> IF c.adb THEN "2d01" ELSE "2d00"
      [] c.base = "audio_source" -> IF c.adb THEN "2d03" ELSE "2d02"
      [] c.base = "accessory,audio_source" -> IF c.adb THEN "2d05" ELSE "2d04"
      [] c.base = "midi" -> "686c"
      [] OTHER -> "685d"

\* bDeviceClass of a gadget with c; Mtp and ncm alone write it.
Class(c) == IF c.base = "ncm" THEN 2 ELSE 0
WritesClass(c) == c.base \in Mtp \cup {"ncm"}

ASSUME GadgetAssumption ==
    /\ Requests \subseteq Configs \cup {[base |-> "diag,acm", adb |-> TRUE]}
    /\ MaxHasty \in Nat /\ MaxDeaths \in Nat

VARIABLES
    config,         \* sys.usb.config
    ready,          \* sys.usb.ffs.ready
    state,          \* sys.usb.state
    queue,          \* init: changes of properties not looked at yet
    commands,       \* init: commands to run before it looks at the next one
    gadget,         \* the gadget in the kernel
    conn,           \* ss_conn_daemon2_service runs
    adbd,           \* "stopped", "starting", "serving"
    stage,          \* framework: "idle", "disabling", "switching"
    target,         \* framework: what it switches to
    hasty,          \* bound: waits that timed out
    deaths          \* bound: deaths of adbd

properties == <<config, ready, state>>
init == <<queue, commands>>
framework == <<stage, target, hasty>>
vars == <<properties, init, gadget, conn, adbd, framework, deaths>>

Values == Configs \cup Requests \cup {None, Unset}
\* A change of sys.usb.config to a value, of sys.usb.ffs.ready to 1 or to 0.
Changes == [of : {"config"}, to : Values] \cup [of : {"ready", "unready"}, to : {None}]
Commands == [do : {"configure", "enable", "ack", "start", "disable", "stop", "unready",
                   "clear"}, for : Values]

TypeOK ==
    /\ config \in Values /\ state \in Values /\ target \in Values
    /\ ready \in BOOLEAN /\ conn \in BOOLEAN
    /\ queue \in Seq(Changes)
    /\ commands \in Seq(Commands) /\ Len(commands) <= 5
    /\ gadget.enabled \in BOOLEAN /\ gadget.functions \in Values \cup {Functions(c) : c \in Values}
    /\ gadget.class \in {0, 2}
    /\ gadget.product \in {Product(c) : c \in Values}
    /\ adbd \in {"stopped", "starting", "serving"}
    /\ stage \in {"idle", "disabling", "switching"}
    /\ hasty \in 0..MaxHasty /\ deaths \in 0..MaxDeaths

\* "on boot" is done: no trigger has fired.
Init ==
    /\ config = Unset /\ state = Unset /\ target = Unset
    /\ ready = FALSE
    /\ queue = <<>> /\ commands = <<>>
    /\ gadget = [enabled |-> FALSE, functions |-> None, class |-> 0, product |-> "685d"]
    /\ conn = FALSE
    /\ adbd = "stopped"
    /\ stage = "idle"
    /\ hasty = 0 /\ deaths = 0

-----------------------------------------------------------------------------
(* The framework and adbd                                                  *)

SetConfig(c) == config' = c /\ queue' = Append(queue, [of |-> "config", to |-> c])

\* The framework switches off what there is.
Switch(c) ==
    /\ stage = "idle"
    /\ SetConfig(None)
    /\ stage' = "disabling"
    /\ target' = c
    /\ UNCHANGED <<ready, state, commands, gadget, conn, adbd, hasty, deaths>>

\* It has waited for sys.usb.state, or long enough.
Waited(value) ==
    \/ state = value /\ hasty' = hasty
    \/ state # value /\ hasty < MaxHasty /\ hasty' = hasty + 1

SwitchOn ==
    /\ stage = "disabling"
    /\ Waited(None)
    /\ SetConfig(target)
    /\ stage' = "switching"
    /\ UNCHANGED <<ready, state, commands, gadget, conn, adbd, target, deaths>>

SwitchDone ==
    /\ stage = "switching"
    /\ Waited(target)
    /\ stage' = "idle"
    /\ UNCHANGED <<properties, init, gadget, conn, adbd, target, deaths>>

\* adbd has opened its endpoints.
AdbdServes ==
    /\ adbd = "starting"
    /\ adbd' = "serving"
    /\ ready' = TRUE
    /\ queue' = Append(queue, [of |-> "ready", to |-> None])
    /\ UNCHANGED <<config, state, commands, gadget, conn, framework, deaths>>

\* It dies, which closes its function and so the gadget; init starts it again.
AdbdDies ==
    /\ adbd # "stopped"
    /\ deaths < MaxDeaths
    /\ deaths' = deaths + 1
    /\ adbd' = "starting"
    /\ gadget' = [gadget EXCEPT !.enabled = @ /\ ~gadget.functions.adb]
    /\ UNCHANGED <<properties, init, conn, framework>>

-----------------------------------------------------------------------------
(* init                                                                    *)

Do(do, c) == [do |-> do, for |-> c]

Activate(c) == <<Do("configure", c), Do("enable", c), Do("ack", None)>>

Disable == <<Do("disable", None), Do("stop", None), Do("unready", None),
             Do("clear", None), Do("ack", None)>>

\* Mutant: a configuration set up once adbd is ready is not reported.
TriggeredQuietly(e) ==
    CASE e.of = "config" /\ e.to = None -> Disable
      [] e.of = "config" /\ e.to \in Configs /\ e.to.adb ->
            <<Do("start", None)>> \o (IF ready THEN Activate(e.to) ELSE <<>>)
      [] e.of = "config" /\ e.to \in Configs /\ ~e.to.adb -> Activate(e.to)
      [] e.of = "ready" /\ config \in Configs /\ config.adb ->
            <<Do("configure", config), Do("enable", config)>>
      [] OTHER -> <<>>

\* The commands of all triggers that a change fires.
Triggered(e) ==
    CASE e.of = "config" /\ e.to = None -> Disable
      [] e.of = "config" /\ e.to \in Configs /\ e.to.adb ->
            <<Do("start", None)>> \o (IF ready THEN Activate(e.to) ELSE <<>>)
      [] e.of = "config" /\ e.to \in Configs /\ ~e.to.adb -> Activate(e.to)
      [] e.of = "ready" /\ config \in Configs /\ config.adb -> Activate(config)
      [] OTHER -> <<>>

Dispatch ==
    /\ commands = <<>> /\ queue # <<>>
    /\ commands' = Triggered(Head(queue))
    /\ queue' = Tail(queue)
    /\ UNCHANGED <<properties, gadget, conn, adbd, framework, deaths>>

Run(do) ==
    /\ commands # <<>> /\ Head(commands).do = do
    /\ commands' = Tail(commands)

\* enable 0, the ids, the functions and the class; the daemon of Conn before it.
Configure ==
    LET c == Head(commands).for IN
    /\ Run("configure")
    /\ gadget' = [enabled |-> FALSE, product |-> Product(c),
                  functions |-> IF c.base \in DOMAIN Literal THEN Functions(c) ELSE config,
                  class |-> IF WritesClass(c) THEN Class(c) ELSE gadget.class]
    /\ conn' = (conn \/ c.base \in Conn)
    /\ UNCHANGED <<properties, queue, adbd, framework, deaths>>

\* UDC and enable 1, which fails without a function, or without adbd's.
Enable ==
    /\ Run("enable")
    /\ gadget' = [gadget EXCEPT !.enabled = /\ gadget.functions # None
                                            /\ gadget.functions.adb => adbd = "serving"]
    /\ UNCHANGED <<properties, queue, conn, adbd, framework, deaths>>

\* setprop sys.usb.state ${sys.usb.config}
Ack ==
    /\ Run("ack")
    /\ state' = config
    /\ UNCHANGED <<config, ready, queue, gadget, conn, adbd, framework, deaths>>

StartAdbd ==
    /\ Run("start")
    /\ adbd' = IF adbd = "stopped" THEN "starting" ELSE adbd
    /\ UNCHANGED <<properties, queue, gadget, conn, framework, deaths>>

\* Mutant: adbd serves on.
StopAdbdNot ==
    /\ Run("stop")
    /\ UNCHANGED <<properties, queue, gadget, conn, adbd, framework, deaths>>

StopAdbd ==
    /\ Run("stop")
    /\ adbd' = "stopped"
    /\ UNCHANGED <<properties, queue, gadget, conn, framework, deaths>>

\* Mutant: leaves sys.usb.ffs.ready of the adbd that was stopped.
UnreadyNot ==
    /\ Run("unready")
    /\ UNCHANGED <<properties, queue, gadget, conn, adbd, framework, deaths>>

Unready ==
    /\ Run("unready")
    /\ ready' = FALSE
    /\ queue' = Append(queue, [of |-> "unready", to |-> None])
    /\ UNCHANGED <<config, state, gadget, conn, adbd, framework, deaths>>

DisableGadget ==
    /\ Run("disable")
    /\ gadget' = [gadget EXCEPT !.enabled = FALSE]
    /\ UNCHANGED <<properties, queue, conn, adbd, framework, deaths>>

\* Mutant: leaves the device class.
ClearDaemon ==
    /\ Run("clear")
    /\ conn' = FALSE
    /\ UNCHANGED <<properties, queue, gadget, adbd, framework, deaths>>

\* Stops the daemon and sets the device class to 0.
Clear ==
    /\ Run("clear")
    /\ conn' = FALSE
    /\ gadget' = [gadget EXCEPT !.class = 0]
    /\ UNCHANGED <<properties, queue, adbd, framework, deaths>>

InitStep ==
    \/ Dispatch \/ Configure \/ Enable \/ Ack \/ StartAdbd
    \/ DisableGadget \/ StopAdbd \/ Unready \/ Clear

Next ==
    \/ \E c \in Requests : Switch(c)
    \/ SwitchOn \/ SwitchDone \/ AdbdServes \/ AdbdDies \/ InitStep

\* init runs its main loop, adbd opens its endpoints, the framework goes on
\* when it has seen what it waits for.
Fairness == WF_vars(InitStep) /\ WF_vars(AdbdServes) /\ WF_vars(SwitchOn) /\ WF_vars(SwitchDone)

Spec == Init /\ [][Next]_vars
FairSpec == Spec /\ Fairness

-----------------------------------------------------------------------------
(* Properties                                                              *)

\* The gadget is what configuration c asks for.
Is(c) ==
    /\ gadget.functions = Functions(c)
    /\ gadget.product = Product(c)
    /\ gadget.class = Class(c)
    /\ conn = (c.base \in Conn)

\* When init has nothing left to do and adbd is not starting, the gadget is what
\* sys.usb.config asks for and on: whatever was switched in the middle of what,
\* and with however little waiting.
QuiescentIsRight ==
    queue = <<>> /\ commands = <<>> /\ adbd # "starting" =>
        IF config \in {None, Unset} THEN ~gadget.enabled /\ adbd = "stopped"
        ELSE config \in Configs => Is(config) /\ gadget.enabled

\* Nothing has come in between: no wait has timed out, and adbd has not died
\* and made init set the gadget up once more.
Undisturbed == hasty = 0 /\ deaths = 0

\* sys.usb.state answers the framework: what it waited for is so, although init
\* writes there what sys.usb.config is by then.
AckIsTrue ==
    Undisturbed /\ stage = "switching" /\ state = target => Is(target) /\ gadget.enabled

\* A host never finds functions under the ids or the class of others.
HostSeesOneDevice ==
    Undisturbed /\ gadget.enabled =>
        \E c \in Configs : gadget.functions = Functions(c) /\ gadget.product = Product(c)
                           /\ gadget.class = Class(c)

\* Every switch to a configuration that has a trigger ends.
SwitchEnds == stage # "idle" /\ target \in Configs ~> stage = "idle"
=============================================================================
