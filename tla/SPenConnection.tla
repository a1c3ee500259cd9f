--------------------------- MODULE SPenConnection ---------------------------
(***************************************************************************)
(* How SPenActions keeps the pen connected: SPenConnectionManager, driven  *)
(* by BluetoothReceiver, SPenActionsService, SPenSettingsFragment and the  *)
(* connection callback of SPenGattCallback, with BluetoothUtils to find    *)
(* the address of a new pen.                                               *)
(*                                                                         *)
(* The app's main thread takes broadcasts, user actions, scan results and  *)
(* timers one at a time.  The callbacks of every GATT client run on binder *)
(* threads beside it, one at a time per client, and nothing is locked: the *)
(* fields of a manager are shared, and a step below is what a thread does  *)
(* between two accesses that another thread can notice.  A call of the S   *)
(* Pen HAL is one step, which is what SPenHal is proved to offer.          *)
(*                                                                         *)
(* The Bluetooth stack is external and modelled by what it may do to the   *)
(* app.                                                                    *)
(***************************************************************************)
EXTENDS Naturals, Sequences, FiniteSets

CONSTANTS
    Managers,       \* the connection managers a process may create
    Gatts,          \* the BluetoothGatt clients alive at the same time
    Scans,          \* the scans whose callback or timer is pending
    Addrs,          \* addresses of pens
    NoAddr,         \* "00:00:00:00:00:00"
    None,           \* null
    Main,           \* the main thread
    LinkLingers,    \* the adapter forgets a link some time after its last
                    \* client is closed, and not at once
    MaxUser,        \* bound: user actions
    MaxDrops,       \* bound: clients told that they are disconnected
    MaxHalFaults,   \* bound: deaths of the HAL
    MaxStarts,      \* bound: onStartCommand
    MaxFinds,       \* bound: scan results
    MaxEvents       \* bound: user actions, drops and deaths together

ASSUME ConnectionAssumption ==
    /\ NoAddr \notin Addrs /\ None \notin Addrs \cup {NoAddr}
    /\ None \notin Managers \cup Gatts
    /\ Main \notin Gatts /\ IsFiniteSet(Gatts)
    /\ LinkLingers \in BOOLEAN
    /\ {MaxUser, MaxDrops, MaxHalFaults, MaxStarts, MaxFinds, MaxEvents} \subseteq Nat

VARIABLES
    enabled,    \* the preference SPEN_BLUETOOTH_ENABLE
    bt,         \* the adapter
    linked,     \* pens the adapter has a GATT link to
    client,     \* client[g]: a BluetoothGatt, its callbacks still to be run
    receivers,  \* the managers whose BluetoothReceiver is registered, in order
    inbox,      \* ACTION_STATE_CHANGED broadcasts not yet delivered
    mSpen, mGatt, mCurBleSpenAddr,  \* the fields of a manager
    frame,      \* frame[t]: what thread t is executing
    scan,       \* scan[s]: a BLE scan, its results posted and its 60 s timer
    mac, charging,  \* what the HAL would answer
    stale,      \* holders of an ISPen binder whose HAL died
    lastFound,  \* history: the pen the last scan found, or None
    wentOff,    \* history: the adapter has been off or going off
    misled,     \* history: since an address was last read, connect() was
                \* content with a link that no client has any more
    overtaken,  \* history: since an address was last read, a thread stored one
                \* that had been replaced since that thread read it
    user, drops, halFaults, starts, finds  \* counters of what the bounds limit

\* The bounds leave room for n more events.
Room(n) == user + drops + halFaults + n <= MaxEvents

prefVars == <<enabled>>
stackVars == <<bt, linked, client>>
managerVars == <<receivers, mSpen, mGatt, mCurBleSpenAddr>>
halVars == <<mac, charging, stale>>
counters == <<user, drops, halFaults, starts, finds>>
history == <<lastFound, wentOff, misled, overtaken>>
vars == <<enabled, bt, linked, client, receivers, inbox, mSpen, mGatt,
          mCurBleSpenAddr, frame, scan, mac, charging, stale,
          lastFound, wentOff, misled, overtaken, user, drops, halFaults, starts, finds>>

Threads == {Main} \cup Gatts
Value == Addrs \cup {NoAddr}

\* Where a thread may be, named for the call it makes next.
Steps == {"idle",
          "gattDisconnect", "gattClose", "stopCharging",                 \* disconnect()
          "getMAC", "enable", "startCharging", "check", "connectGatt",   \* connect()
          "assign",
          "save",                                                        \* onConnected()
          "reset", "toggleOff", "toggleOn", "startScan"}                 \* resetSPenMAC()

\* What a thread executes: for which manager, with which blespenAddr, with
\* which client connectGatt returned, and whether connect() follows disconnect().
Frame == [step : Steps, mgr : Managers \cup {None}, addr : Value,
          gatt : Gatts \cup {None}, again : BOOLEAN]
Idle == [step |-> "idle", mgr |-> None, addr |-> NoAddr, gatt |-> None, again |-> FALSE]

Open == {"connecting", "connected", "closing"}
Client == [state : Open \cup {"lost", "closed"}, addr : Value,
           mgr : Managers \cup {None}, events : Seq({"up", "down"})]
Closed == [state |-> "closed", addr |-> NoAddr, mgr |-> None, events |-> <<>>]

Scan == [running : BOOLEAN, found : SUBSET Addrs, timer : BOOLEAN]
NoScan == [running |-> FALSE, found |-> {}, timer |-> FALSE]

Holders == Managers \cup Threads \cup Scans

TypeOK ==
    /\ enabled \in BOOLEAN
    /\ bt \in {"on", "turningOff", "restarting", "off", "turningOn"}
    /\ linked \subseteq Addrs
    /\ client \in [Gatts -> Client]
    /\ receivers \in Seq(Managers)
    /\ inbox \in Seq([mgr : Managers, on : BOOLEAN])
    /\ mSpen \in [Managers -> Addrs \cup {None}]
    /\ mGatt \in [Managers -> Gatts \cup {None}]
    /\ mCurBleSpenAddr \in [Managers -> Value]
    /\ frame \in [Threads -> Frame]
    /\ scan \in [Scans -> Scan]
    /\ mac \in Value
    /\ charging \in BOOLEAN
    /\ stale \subseteq Holders
    /\ lastFound \in Addrs \cup {None}
    /\ {wentOff, misled, overtaken} \subseteq BOOLEAN
    /\ user \in 0..MaxUser
    /\ drops \in 0..MaxDrops
    /\ halFaults \in 0..MaxHalFaults
    /\ starts \in 0..MaxStarts
    /\ finds \in 0..MaxFinds

Init ==
    /\ enabled \in BOOLEAN
    /\ bt \in {"on", "off"}
    /\ linked = {}
    /\ client = [g \in Gatts |-> Closed]
    /\ receivers = <<>>
    /\ inbox = <<>>
    /\ mSpen = [m \in Managers |-> None]
    /\ mGatt = [m \in Managers |-> None]
    /\ mCurBleSpenAddr = [m \in Managers |-> NoAddr]
    /\ frame = [t \in Threads |-> Idle]
    /\ scan = [s \in Scans |-> NoScan]
    /\ mac \in Value
    /\ charging \in BOOLEAN
    /\ stale = {}
    /\ lastFound = None
    /\ wentOff = (bt # "on")
    /\ misled = FALSE /\ overtaken = FALSE
    /\ user = 0 /\ drops = 0 /\ halFaults = 0 /\ starts = 0 /\ finds = 0

-----------------------------------------------------------------------------
(* Helpers                                                                 *)

At(t, step) == frame[t].step = step
Goto(t, step) == frame' = [frame EXCEPT ![t].step = step]
Finish(t) == frame' = [frame EXCEPT ![t] = Idle]

\* A broadcast of the adapter state, real or faked, reaches every registered
\* receiver of the package.
Posted(on) == [i \in 1..Len(receivers) |-> [mgr |-> receivers[i], on |-> on]]

\* The broadcasts "off" and then "on" that fake a switch of the adapter.
OffOn == Posted(FALSE) \o Posted(TRUE)

HasLink(g) == client[g].state \in {"connected", "closing"}

\* The client g has the link to pen a, or had it until disconnect() was called
\* and will be told.
Has(g, a) == HasLink(g) /\ client[g].addr = a

\* The links that are left when the clients in gs give theirs up.
LinksWithout(gs) ==
    IF LinkLingers THEN linked
    ELSE linked \ {a \in Addrs : /\ \E g \in gs : Has(g, a)
                                 /\ \A h \in Gatts \ gs : ~Has(h, a)}

\* BluetoothGatt.close: the client is unregistered, and its callbacks with it.
Close(g) ==
    /\ client' = [client EXCEPT ![g] = Closed]
    /\ linked' = LinksWithout({g})

\* An uncaught exception on the main thread ends the process, with all its
\* clients, scans, receivers and threads.
ProcessDies ==
    /\ client' = [g \in Gatts |-> Closed]
    /\ linked' = LinksWithout(Gatts)
    /\ receivers' = <<>>
    /\ inbox' = <<>>
    /\ mSpen' = [m \in Managers |-> None]
    /\ mGatt' = [m \in Managers |-> None]
    /\ mCurBleSpenAddr' = [m \in Managers |-> NoAddr]
    /\ frame' = [t \in Threads |-> Idle]
    /\ scan' = [s \in Scans |-> NoScan]
    /\ stale' = {}
    /\ UNCHANGED <<enabled, bt, charging, counters, wentOff, misled, overtaken>>

-----------------------------------------------------------------------------
(* The service and the main thread's events                                *)

\* onStartCommand, also after the process died: a new receiver with a new
\* manager, then a broadcast of the current state.  Transitional states are
\* ignored by onReceive, so they are not posted.
StartService(m) ==
    /\ At(Main, "idle")
    /\ starts < MaxStarts
    /\ \A i \in 1..Len(receivers) : receivers[i] # m
    /\ starts' = starts + 1
    /\ receivers' = Append(receivers, m)
    /\ stale' = stale \ {m}
    /\ inbox' = inbox \o
          (IF bt \in {"on", "off"}
           THEN [i \in 1..(Len(receivers) + 1) |->
                    [mgr |-> Append(receivers, m)[i], on |-> bt = "on"]]
           ELSE <<>>)
    /\ UNCHANGED <<prefVars, stackVars, mSpen, mGatt, mCurBleSpenAddr, frame, scan,
                   mac, charging, user, drops, halFaults, finds, history>>

\* Mutant: "on" connects without disconnecting first.
ReceiveOnlyConnects ==
    /\ At(Main, "idle")
    /\ inbox # <<>>
    /\ inbox' = Tail(inbox)
    /\ frame' = IF Head(inbox).on /\ ~enabled THEN frame
                ELSE [frame EXCEPT ![Main] =
                         [Idle EXCEPT !.step = IF Head(inbox).on THEN "getMAC"
                                               ELSE "gattDisconnect",
                                      !.mgr = Head(inbox).mgr]]
    /\ UNCHANGED <<prefVars, stackVars, managerVars, scan, halVars, counters, history>>

\* BluetoothReceiver.onReceive: "on" reconnects if the preference allows it,
\* "off" always disconnects.
Receive ==
    /\ At(Main, "idle")
    /\ inbox # <<>>
    /\ inbox' = Tail(inbox)
    /\ frame' = IF Head(inbox).on /\ ~enabled THEN frame
                ELSE [frame EXCEPT ![Main] =
                         [Idle EXCEPT !.step = "gattDisconnect",
                                      !.mgr = Head(inbox).mgr,
                                      !.again = Head(inbox).on]]
    /\ UNCHANGED <<prefVars, stackVars, managerVars, scan, halVars, counters, history>>

\* SPenSettingsFragment.onPreferenceChange.
TogglePreference ==
    /\ At(Main, "idle")
    /\ user < MaxUser /\ Room(1)
    /\ user' = user + 1
    /\ enabled' = ~enabled
    /\ inbox' = inbox \o (IF bt = "on" THEN OffOn ELSE <<>>)
    /\ UNCHANGED <<stackVars, managerVars, frame, scan, halVars, drops, halFaults, starts, finds, history>>

\* SPenSettingsFragment.onClick.
ClickReset ==
    /\ At(Main, "idle")
    /\ user < MaxUser /\ Room(1)
    /\ user' = user + 1
    /\ Goto(Main, "reset")
    /\ UNCHANGED <<prefVars, stackVars, managerVars, inbox, scan, halVars,
                   drops, halFaults, starts, finds, history>>

\* onScanResult: remember the pen, stop the scan, fake a switch of the adapter.
\* A result that was posted before the scan was stopped is delivered as well.
\* stopScan may throw while the adapter is not on.
ScanResult(s) ==
    /\ At(Main, "idle")
    /\ \E a \in scan[s].found :
          /\ mac' = IF s \in stale THEN mac ELSE a
          /\ lastFound' = a
          /\ \/ /\ scan' = [scan EXCEPT ![s].running = FALSE, ![s].found = @ \ {a}]
                /\ inbox' = inbox \o OffOn
                /\ UNCHANGED <<prefVars, stackVars, managerVars, frame, charging, stale,
                               counters, wentOff, misled, overtaken>>
             \/ bt # "on" /\ ProcessDies

\* The delayed stopScan.
ScanTimeout(s) ==
    /\ At(Main, "idle")
    /\ scan[s].timer
    /\ \/ /\ scan' = [scan EXCEPT ![s].timer = FALSE, ![s].running = FALSE]
          /\ UNCHANGED <<prefVars, stackVars, managerVars, inbox, frame, halVars, counters, history>>
       \/ bt # "on" /\ ProcessDies /\ UNCHANGED <<mac, lastFound>>

-----------------------------------------------------------------------------
(* disconnect(), on the main thread                                        *)

\* Mutant: no null check.
GattDisconnectUnchecked(t) ==
    /\ At(t, "gattDisconnect")
    /\ Goto(t, "gattClose")
    /\ UNCHANGED <<prefVars, stackVars, managerVars, inbox, scan, halVars, counters, history>>

\* mGatt is read for the null check and the disconnect, and again for close.
GattDisconnect(t) ==
    /\ At(t, "gattDisconnect")
    /\ LET g == mGatt[frame[t].mgr] IN
          IF g = None
          THEN Goto(t, "stopCharging") /\ UNCHANGED client
          ELSE /\ Goto(t, "gattClose")
               /\ client' = IF client[g].state = "connected"
                            THEN [client EXCEPT ![g].state = "closing"] ELSE client
    /\ UNCHANGED <<prefVars, bt, linked, managerVars, inbox, scan, halVars, counters, history>>

\* Mutant: disconnect() also forgets the address.
GattCloseForgets(t) ==
    /\ At(t, "gattClose")
    /\ LET g == mGatt[frame[t].mgr] IN g # None /\ Close(g)
    /\ mCurBleSpenAddr' = [mCurBleSpenAddr EXCEPT ![frame[t].mgr] = NoAddr]
    /\ Goto(t, "stopCharging")
    /\ UNCHANGED <<prefVars, bt, receivers, mSpen, mGatt, inbox, scan, halVars,
                   counters, history>>

GattClose(t) ==
    /\ At(t, "gattClose")
    /\ LET g == mGatt[frame[t].mgr] IN
          \/ /\ g # None
             /\ Close(g)
             /\ Goto(t, "stopCharging")
             /\ UNCHANGED <<prefVars, bt, managerVars, inbox, scan, halVars, counters, history>>
          \/ /\ g = None  \* NullPointerException
             /\ ProcessDies
             /\ UNCHANGED <<mac, lastFound>>

\* setCharging(false), and then connect() if the broadcast was "on".  A
\* RemoteException ends onReceive.
StopCharging(t) ==
    /\ At(t, "stopCharging")
    /\ \/ /\ frame[t].mgr \notin stale
          /\ charging' = FALSE
          /\ IF frame[t].again THEN Goto(t, "getMAC") ELSE Finish(t)
       \/ /\ frame[t].mgr \in stale
          /\ Finish(t)
          /\ UNCHANGED charging
    /\ UNCHANGED <<prefVars, stackVars, managerVars, inbox, scan, mac, stale, counters, history>>

-----------------------------------------------------------------------------
(* connect(), on the main thread or in a GATT callback                     *)

GetMAC(t) ==
    /\ At(t, "getMAC")
    /\ \/ /\ frame[t].mgr \notin stale
          /\ frame' = [frame EXCEPT ![t].addr = mac, ![t].step = "enable"]
          /\ misled' = FALSE /\ overtaken' = FALSE
       \/ /\ frame[t].mgr \in stale
          /\ Finish(t)
          /\ UNCHANGED <<misled, overtaken>>
    /\ UNCHANGED <<prefVars, stackVars, managerVars, inbox, scan, halVars, counters,
                   lastFound, wentOff>>

\* Mutant: waits until the broadcasts have arrived, which the main thread
\* would have to receive.
EnableAwaits(t) ==
    /\ At(t, "enable")
    /\ inbox = <<>>
    /\ mCurBleSpenAddr' = [mCurBleSpenAddr EXCEPT ![frame[t].mgr] = frame[t].addr]
    /\ bt' = IF bt = "off" THEN "turningOn" ELSE IF bt = "turningOff" THEN "restarting" ELSE bt
    /\ Goto(t, IF frame[t].addr = NoAddr THEN "reset" ELSE "startCharging")
    /\ UNCHANGED <<prefVars, linked, client, receivers, mSpen, mGatt, inbox, scan,
                   halVars, counters, history>>

\* The adapter is switched on, whatever the user did with it; without an
\* address the pen is searched for.
Enable(t) ==
    /\ At(t, "enable")
    /\ mCurBleSpenAddr' = [mCurBleSpenAddr EXCEPT ![frame[t].mgr] = frame[t].addr]
    /\ bt' = IF bt = "off" THEN "turningOn" ELSE IF bt = "turningOff" THEN "restarting" ELSE bt
    /\ Goto(t, IF frame[t].addr = NoAddr THEN "reset" ELSE "startCharging")
    /\ UNCHANGED <<prefVars, linked, client, receivers, mSpen, mGatt, inbox, scan,
                   halVars, counters, history>>

\* getRemoteDevice, then the pen is charged unless it is already.
StartCharging(t) ==
    /\ At(t, "startCharging")
    /\ mSpen' = [mSpen EXCEPT ![frame[t].mgr] = frame[t].addr]
    /\ overtaken' = (overtaken \/ frame[t].addr # mac)
    /\ \/ /\ frame[t].mgr \notin stale
          /\ charging' = TRUE
          /\ Goto(t, "check")
       \/ /\ frame[t].mgr \in stale
          /\ Finish(t)
          /\ UNCHANGED charging
    /\ UNCHANGED <<prefVars, stackVars, receivers, mGatt, mCurBleSpenAddr, inbox, scan,
                   mac, stale, counters, lastFound, wentOff, misled>>

\* No new client while there is one and the adapter has a link to the pen.
Check(t) ==
    /\ At(t, "check")
    /\ IF mGatt[frame[t].mgr] = None \/ mSpen[frame[t].mgr] \notin linked
       THEN Goto(t, "connectGatt") /\ UNCHANGED misled
       ELSE Finish(t) /\ misled' = (misled \/ \A g \in Gatts : ~Has(g, mSpen[frame[t].mgr]))
    /\ UNCHANGED <<prefVars, stackVars, managerVars, inbox, scan, halVars, counters,
                   lastFound, wentOff, overtaken>>

\* Nothing refers to the client g any more.
Unused(g) ==
    /\ client[g].state = "closed"
    /\ At(g, "idle")
    /\ \A m \in Managers : mGatt[m] # g
    /\ \A t \in Threads : frame[t].gatt # g

\* connectGatt returns null when the stack is not there.
ConnectGatt(t) ==
    /\ At(t, "connectGatt")
    /\ \/ /\ bt \in {"on", "turningOff", "restarting"}
          /\ \E g \in Gatts :
                /\ Unused(g)
                /\ client' = [client EXCEPT ![g] =
                                 [state |-> "connecting", addr |-> mSpen[frame[t].mgr],
                                  mgr |-> frame[t].mgr, events |-> <<>>]]
                /\ frame' = [frame EXCEPT ![t].gatt = g, ![t].step = "assign"]
       \/ /\ bt # "on"
          /\ frame' = [frame EXCEPT ![t].gatt = None, ![t].step = "assign"]
          /\ UNCHANGED client
    /\ UNCHANGED <<prefVars, bt, linked, managerVars, inbox, scan, halVars, counters, history>>

Assign(t) ==
    /\ At(t, "assign")
    /\ mGatt' = [mGatt EXCEPT ![frame[t].mgr] = frame[t].gatt]
    /\ Finish(t)
    /\ UNCHANGED <<prefVars, stackVars, receivers, mSpen, mCurBleSpenAddr, inbox, scan,
                   halVars, counters, history>>

-----------------------------------------------------------------------------
(* resetSPenMAC(), on the main thread or in a GATT callback                *)

\* waitForDeclaredService gives a binder of the HAL that runs now.
Reset(t) ==
    /\ At(t, "reset")
    /\ IF bt = "on"
       THEN Goto(t, "toggleOff") /\ stale' = stale \ {t}
       ELSE Finish(t) /\ UNCHANGED stale
    /\ UNCHANGED <<prefVars, stackVars, managerVars, inbox, scan, mac, charging, counters, history>>

\* setCharging(false); setCharging(true) makes the pen discoverable.
Toggle(t) ==
    /\ \/ /\ At(t, "toggleOff") /\ t \notin stale
          /\ charging' = FALSE
          /\ Goto(t, "toggleOn")
       \/ /\ At(t, "toggleOn") /\ t \notin stale
          /\ charging' = TRUE
          /\ Goto(t, "startScan")
       \/ /\ At(t, "toggleOff") \/ At(t, "toggleOn")
          /\ t \in stale
          /\ Goto(t, "startScan")
          /\ UNCHANGED charging
    /\ UNCHANGED <<prefVars, stackVars, managerVars, inbox, scan, mac, stale, counters, history>>

\* Without the adapter there is no scanner: the exception ends the process on
\* the main thread and only the callback on a binder thread.  The stack may
\* also refuse the scan, whose stopScan is posted all the same.
StartScan(t) ==
    /\ At(t, "startScan")
    /\ \/ /\ bt = "on"
          /\ \E s \in Scans, accepted \in BOOLEAN :
                /\ scan[s] = NoScan
                /\ scan' = [scan EXCEPT ![s] =
                               [NoScan EXCEPT !.running = accepted, !.timer = TRUE]]
                /\ stale' = IF t \in stale THEN stale \cup {s} ELSE stale \ {s}
          /\ Finish(t)
          /\ UNCHANGED <<prefVars, stackVars, managerVars, inbox, mac, charging, counters, history>>
       \/ /\ bt # "on" /\ t # Main
          /\ Finish(t)
          /\ UNCHANGED <<prefVars, stackVars, managerVars, inbox, scan, halVars, counters, history>>
       \/ /\ bt # "on" /\ t = Main
          /\ ProcessDies
          /\ UNCHANGED <<mac, lastFound>>

-----------------------------------------------------------------------------
(* SPenGattCallback.onConnectionStateChange, on the client's binder thread *)

\* STATE_CONNECTED: onConnected reads the manager's current address.
Connected(g) ==
    /\ At(g, "idle")
    /\ client[g].events # <<>> /\ Head(client[g].events) = "up"
    /\ client' = [client EXCEPT ![g].events = Tail(@)]
    /\ frame' = [frame EXCEPT ![g] =
                    [Idle EXCEPT !.step = "save", !.mgr = client[g].mgr,
                                 !.addr = mCurBleSpenAddr[client[g].mgr]]]
    /\ UNCHANGED <<prefVars, bt, linked, managerVars, inbox, scan, halVars, counters, history>>

\* onConnected: setMACAddress.
Save(g) ==
    /\ At(g, "save")
    /\ mac' = IF frame[g].mgr \in stale THEN mac ELSE frame[g].addr
    /\ overtaken' = (overtaken \/ mac' # mac)
    /\ Finish(g)
    /\ UNCHANGED <<prefVars, stackVars, managerVars, inbox, scan, charging, stale, counters,
                   lastFound, wentOff, misled>>

\* Mutant: a lost client is only closed.
DisconnectedForGood(g) ==
    /\ At(g, "idle")
    /\ client[g].events # <<>> /\ Head(client[g].events) = "down"
    /\ Close(g)
    /\ UNCHANGED <<prefVars, bt, managerVars, inbox, frame, scan, halVars, counters, history>>

\* STATE_DISCONNECTED: close the client and connect() again, whatever the
\* preference says by now.
Disconnected(g) ==
    /\ At(g, "idle")
    /\ client[g].events # <<>> /\ Head(client[g].events) = "down"
    /\ Close(g)
    /\ frame' = [frame EXCEPT ![g] = [Idle EXCEPT !.step = "getMAC", !.mgr = client[g].mgr]]
    /\ UNCHANGED <<prefVars, bt, managerVars, inbox, scan, halVars, counters, history>>

-----------------------------------------------------------------------------
(* The environment: Bluetooth stack, pens, HAL                             *)

LinkUp(g) ==
    /\ client[g].state = "connecting"
    /\ bt = "on"
    /\ client' = [client EXCEPT ![g].state = "connected", ![g].events = Append(@, "up")]
    /\ linked' = linked \cup {client[g].addr}
    /\ UNCHANGED <<prefVars, bt, managerVars, inbox, frame, scan, halVars, counters, history>>

\* The clients in gs lose their link and will be told.
Lose(gs) ==
    /\ drops + Cardinality(gs) <= MaxDrops /\ Room(Cardinality(gs))
    /\ drops' = drops + Cardinality(gs)
    /\ client' = [g \in Gatts |->
                     IF g \in gs
                     THEN [client[g] EXCEPT !.state = "lost", !.events = Append(@, "down")]
                     ELSE client[g]]

\* A pen goes out of range, is switched off, or the stack drops the links
\* because the adapter is going down.
LinkDrop(a) ==
    /\ a \in linked
    /\ Lose({g \in Gatts : Has(g, a)})
    /\ linked' = linked \ {a}
    /\ UNCHANGED <<prefVars, bt, managerVars, inbox, frame, scan, halVars,
                   user, halFaults, starts, finds, history>>

\* A connection attempt fails.
ConnectFails(g) ==
    /\ client[g].state = "connecting"
    /\ Lose({g})
    /\ UNCHANGED <<prefVars, bt, linked, managerVars, inbox, frame, scan, halVars,
                   user, halFaults, starts, finds, history>>

\* The stack carries out BluetoothGatt.disconnect before it hears of close.
DisconnectDone(g) ==
    /\ client[g].state = "closing"
    /\ Lose({g})
    /\ linked' = LinksWithout({g})
    /\ UNCHANGED <<prefVars, bt, managerVars, inbox, frame, scan, halVars,
                   user, halFaults, starts, finds, history>>

\* A link without a client is torn down, where that takes time.
LinkGone(a) ==
    /\ LinkLingers
    /\ a \in linked
    /\ \A g \in Gatts : ~(Has(g, a))
    /\ linked' = linked \ {a}
    /\ UNCHANGED <<prefVars, bt, client, managerVars, inbox, frame, scan, halVars, counters, history>>

\* The user switches the adapter.
UserSwitch ==
    /\ user < MaxUser /\ Room(1)
    /\ user' = user + 1
    /\ \/ bt = "on" /\ bt' = "turningOff"
       \/ bt = "off" /\ bt' = "turningOn"
    /\ wentOff' = TRUE
    /\ UNCHANGED <<prefVars, linked, client, managerVars, inbox, frame, scan, halVars,
                   drops, halFaults, starts, finds, lastFound, misled, overtaken>>

\* The adapter is off: clients not told before are not told any more, scans end.
BtDown ==
    /\ bt \in {"turningOff", "restarting"}
    /\ bt' = IF bt = "restarting" THEN "turningOn" ELSE "off"
    /\ client' = [g \in Gatts |-> IF client[g].state \in Open
                                   THEN [client[g] EXCEPT !.state = "lost"] ELSE client[g]]
    /\ linked' = {}
    /\ scan' = [s \in Scans |-> [scan[s] EXCEPT !.running = FALSE]]
    /\ inbox' = inbox \o Posted(FALSE)
    /\ UNCHANGED <<prefVars, managerVars, frame, halVars, counters, history>>

BtUp ==
    /\ bt = "turningOn"
    /\ bt' = "on"
    /\ inbox' = inbox \o Posted(TRUE)
    /\ UNCHANGED <<prefVars, linked, client, managerVars, frame, scan, halVars, counters, history>>

\* A discoverable pen answers a scan; its result is posted to the main thread.
\* CALLBACK_TYPE_FIRST_MATCH: one result per pen that comes into range.
PenFound(s) ==
    /\ finds < MaxFinds
    /\ scan[s].running
    /\ \E a \in Addrs \ scan[s].found : scan' = [scan EXCEPT ![s].found = @ \cup {a}]
    /\ finds' = finds + 1
    /\ UNCHANGED <<prefVars, stackVars, managerVars, inbox, frame, halVars,
                   user, drops, halFaults, starts, history>>

\* The HAL dies and is restarted: SPenStore's Fault.  Binders of the old
\* process stay dead.
HalDies ==
    /\ halFaults < MaxHalFaults /\ Room(1)
    /\ halFaults' = halFaults + 1
    /\ stale' = Holders
    /\ mac' \in {mac, NoAddr}
    /\ UNCHANGED <<prefVars, stackVars, managerVars, inbox, frame, scan, charging,
                   user, drops, starts, finds, history>>

-----------------------------------------------------------------------------
\* The steps of thread t within connect() and resetSPenMAC().
ThreadStep(t) ==
    \/ GetMAC(t) \/ Enable(t) \/ StartCharging(t) \/ Check(t) \/ ConnectGatt(t) \/ Assign(t)
    \/ Reset(t) \/ Toggle(t) \/ StartScan(t)

MainStep ==
    \/ Receive
    \/ GattDisconnect(Main) \/ GattClose(Main) \/ StopCharging(Main)
    \/ ThreadStep(Main)
    \/ \E s \in Scans : ScanResult(s)

CallbackStep(g) == Connected(g) \/ Save(g) \/ Disconnected(g) \/ ThreadStep(g)

Environment ==
    \/ \E m \in Managers : StartService(m)
    \/ TogglePreference
    \/ ClickReset
    \/ \E s \in Scans : ScanTimeout(s) \/ PenFound(s)
    \/ \E g \in Gatts : LinkUp(g) \/ ConnectFails(g) \/ DisconnectDone(g)
    \/ \E a \in Addrs : LinkDrop(a) \/ LinkGone(a)
    \/ UserSwitch
    \/ BtDown
    \/ BtUp
    \/ HalDies

Next == MainStep \/ (\E g \in Gatts : CallbackStep(g)) \/ Environment

Spec == Init /\ [][Next]_vars

\* The main looper and the binder threads run; the adapter ends its
\* transitions, carries out disconnect() and tears down links.  Nobody is
\* obliged to use the pen, and a pen is not obliged to be in range.
Fairness ==
    /\ WF_vars(MainStep)
    /\ \A g \in Gatts : WF_vars(CallbackStep(g))
    /\ \A g \in Gatts : WF_vars(DisconnectDone(g))
    /\ \A a \in Addrs : WF_vars(LinkGone(a))
    /\ WF_vars(BtDown) /\ WF_vars(BtUp)

FairSpec == Spec /\ Fairness

-----------------------------------------------------------------------------
(* Properties                                                              *)

InUse == {g \in Gatts : client[g].state \in {"connecting", "connected"}}

\* Nothing is left to be done by the app or by the stack on its own.
Quiet ==
    /\ bt \in {"on", "off"}
    /\ inbox = <<>>
    /\ \A t \in Threads : At(t, "idle")
    /\ \A g \in Gatts : client[g].state # "closing" /\ client[g].events = <<>>
    /\ \A s \in Scans : scan[s].found = {}
    /\ \A a \in linked : \E g \in InUse : client[g].addr = a

\* The pen that the HAL remembers has a client, and unless a link was lost its
\* manager knows it (OrphanPerDrop says how many clients are not known).
PenHasClient ==
    \E g \in InUse : client[g].addr = mac /\ (mGatt[client[g].mgr] = g \/ drops > 0)

\* The app shall have a client for the pen, and no race has spoilt it since the
\* address was last read: connect() asks the adapter for a link, which may
\* still report the one whose client disconnect() has closed (misled), and a
\* callback may store the address that a scan has just replaced (overtaken).
Wanted ==
    /\ enabled /\ bt = "on" /\ receivers # <<>>
    /\ mac # NoAddr /\ halFaults = 0
    /\ ~misled /\ ~overtaken

\* The feature works: when all is done, the adapter is on, the pen known and
\* the preference set, a client is waiting for the pen or has it, in whatever
\* order links dropped and broadcasts, scan results and callbacks arrived.
ClientWhenQuiet == Quiet /\ Wanted => PenHasClient

\* Unless the HAL dies, a stored pen address is never replaced by the default,
\* although onConnected stores a field that another thread may be writing.
MacNeverLost == [][halFaults' = 0 /\ mac # NoAddr => mac' # NoAddr]_vars

\* Clients that are open but that no manager could close any more.
Orphans == {g \in InUse : mGatt[client[g].mgr] # g /\ \A t \in Threads : frame[t].gatt # g}

\* A STATE_DISCONNECTED callback leaves at most one client behind that no
\* manager remembers; without one, connect() and disconnect() are in step.
OrphanPerDrop == Cardinality(Orphans) <= drops

\* An uncaught exception ends the process only if the adapter has been off:
\* disconnect() finds its client between the null check and close(), and the
\* scanner is there.
DiesOnlyAfterOff == [][receivers # <<>> /\ receivers' = <<>> => wentOff]_vars

\* Lost links are made good: as long as a client for the pen is wanted, one is
\* opened, whatever the threads are doing.  A client that is closing will be
\* reported as disconnected, and connect() runs then: MaxDrops may leave no
\* room for it.
Closing == {g \in Gatts : client[g].state = "closing"}

Reconnects == Wanted /\ ~PenHasClient ~> PenHasClient \/ Closing # {} \/ ~Wanted

\* SPenSettingsFragment.java:61, "Simulate bluetooth switch on/off to apply
\* the new settings", for the setting "off": no client stays open.
DisabledCloses ==
    Quiet /\ bt = "on" /\ ~enabled /\ receivers # <<>> => InUse = {}

\* BluetoothUtils.java:71, "Simulate bluetooth switch on/off to apply the new
\* MAC": when all is done, the pen found last has a client.
FoundPenConnects ==
    Quiet /\ bt = "on" /\ enabled /\ receivers # <<>> /\ lastFound # None /\ halFaults = 0
        => \E g \in InUse : client[g].addr = lastFound

\* connect() always finds a free client within the bounds of a run.
ClientsSuffice == \A t \in Threads : At(t, "connectGatt") => \E g \in Gatts : Unused(g)

\* A scan can always be started within the bounds of a run.
ScansSuffice == \A t \in Threads : At(t, "startScan") => \E s \in Scans : scan[s] = NoScan
=============================================================================
