------------------------ MODULE SPenConnection_proofs ------------------------
(***************************************************************************)
(* Proofs about SPenConnection: its types; that no order of callbacks and  *)
(* broadcasts loses the address of the pen; that the process does not die  *)
(* while the adapter stays on; that the clients nobody remembers are not   *)
(* more than the disconnections reported; and that the pen gets a client.  *)
(***************************************************************************)
EXTENDS SPenConnection, FiniteSetTheorems, TLAPS

\* What a thread relies on at its step, and what is known of a client and of
\* a scan: the conditions under which the accesses of the code make sense.
Sound(f, spens) ==
    /\ ~(f.step \in {"idle", "reset", "toggleOff", "toggleOn", "startScan"}) => f.mgr \in Managers
    /\ f.step = "startCharging" => f.addr \in Addrs
    /\ f.step \in {"check", "connectGatt"} => spens[f.mgr] \in Addrs

FrameOK == \A t \in Threads : Sound(frame[t], mSpen)

ClientOK ==
    \A g \in Gatts :
        /\ client[g].state # "closed" => client[g].mgr \in Managers /\ client[g].addr \in Addrs
        /\ client[g].state = "closed" => client[g] = Closed

\* The inductive part of MacNeverLost: whoever may store an address, now or
\* later, does so while an address is stored, and has one that is not the
\* default.
Targeting == {"startCharging", "check", "connectGatt", "assign"}

ClientInformed(g) ==
    client[g].state # "closed" => mac # NoAddr /\ mCurBleSpenAddr[client[g].mgr] # NoAddr

Informed(t) ==
    /\ t \in Gatts /\ ~At(t, "idle") => mac # NoAddr
    /\ frame[t].step \in Targeting => mac # NoAddr /\ mCurBleSpenAddr[frame[t].mgr] # NoAddr
    /\ At(t, "enable") => (frame[t].addr = NoAddr <=> mac = NoAddr)
    /\ At(t, "save") => frame[t].addr # NoAddr

MacInv ==
    halFaults = 0 =>
        /\ \A g \in Gatts : ClientInformed(g)
        /\ \A t \in Threads : Informed(t)

-----------------------------------------------------------------------------
(* Types                                                                   *)

TypeInv == TypeOK /\ FrameOK /\ ClientOK

LEMMA InitTypes == Init => TypeInv
<1> SUFFICES ASSUME Init PROVE TypeInv
  OBVIOUS
<1>1. {wentOff, misled, overtaken} \subseteq BOOLEAN
  <2>1. misled \in BOOLEAN /\ overtaken \in BOOLEAN
    BY DEF Init
  <2>2. wentOff \in BOOLEAN
    <3>1. wentOff = (bt # "on")
      BY DEF Init
    <3> QED
      BY <3>1, Zenon
  <2> QED
    BY <2>1, <2>2, Zenon
<1> QED
  BY <1>1, ConnectionAssumption
     DEF Init, TypeInv, TypeOK, FrameOK, Sound, ClientOK, Value, Frame, Idle, Steps,
         Client, Closed, Open, Scan, NoScan, Holders, Threads, At

Broadcast == [mgr : Managers, on : BOOLEAN]

\* A broadcast reaches registered receivers only.
LEMMA PostedType ==
    ASSUME receivers \in Seq(Managers), NEW on \in BOOLEAN
    PROVE  Posted(on) \in Seq(Broadcast)
  BY DEF Posted, Broadcast

LEMMA BroadcastsType ==
    ASSUME NEW n \in Nat, NEW f \in [1..n -> Broadcast]
    PROVE  f \in Seq(Broadcast)
  OBVIOUS

LEMMA ConcatType ==
    ASSUME NEW u \in Seq(Broadcast), NEW v \in Seq(Broadcast)
    PROVE  u \o v \in Seq(Broadcast)
  OBVIOUS

\* Values with which fields of a process start over.
LEMMA FreshTypes ==
    /\ Idle \in Frame
    /\ Closed \in Client
    /\ NoScan \in Scan
  BY DEF Idle, Frame, Steps, Value, Closed, Client, NoScan, Scan

LEMMA DeathTypes == TypeInv /\ ProcessDies /\ mac' \in Value /\ lastFound' \in Addrs \cup {None} => TypeInv'
<1> SUFFICES ASSUME TypeInv, ProcessDies, mac' \in Value, lastFound' \in Addrs \cup {None}
             PROVE  TypeInv'
  OBVIOUS
<1>1. TypeOK'
  <2>1. linked' \subseteq Addrs
    BY DEF TypeInv, TypeOK, ProcessDies, LinksWithout
  <2>2. /\ client' \in [Gatts -> Client]
        /\ frame' \in [Threads -> Frame]
        /\ scan' \in [Scans -> Scan]
    BY FreshTypes DEF ProcessDies
  <2> QED
    BY <2>1, <2>2 DEF TypeInv, TypeOK, ProcessDies, Value, counters
<1>2. FrameOK' /\ ClientOK'
  BY DEF ProcessDies, FrameOK, Sound, ClientOK, Idle, Closed, NoScan, At
<1> QED
  BY <1>1, <1>2 DEF TypeInv

\* A step of one thread leaves the frames of the others sound.
LEMMA MoveFrame ==
    ASSUME TypeInv, NEW t \in Threads, NEW f \in Frame,
           frame' = [frame EXCEPT ![t] = f],
           Sound(f, mSpen'),
           \A m \in Managers : mSpen[m] \in Addrs => mSpen'[m] \in Addrs
    PROVE  frame' \in [Threads -> Frame] /\ FrameOK'
<1>1. frame \in [Threads -> Frame]
  BY DEF TypeInv, TypeOK
<1>2. frame' \in [Threads -> Frame]
  BY <1>1
<1>3. ASSUME NEW u \in Threads
      PROVE  Sound(frame'[u], mSpen')
  <2>1. CASE u = t
    BY <2>1, <1>1
  <2>2. CASE u # t
    BY <2>2, <1>1 DEF TypeInv, FrameOK, Sound
  <2> QED
    BY <2>1, <2>2
<1> QED
  BY <1>2, <1>3 DEF FrameOK

LEMMA GotoFrame ==
    ASSUME TypeInv, NEW t \in Threads, NEW step \in Steps, Goto(t, step),
           Sound([frame[t] EXCEPT !.step = step], mSpen'),
           \A m \in Managers : mSpen[m] \in Addrs => mSpen'[m] \in Addrs
    PROVE  frame' \in [Threads -> Frame] /\ FrameOK'
<1>1. frame \in [Threads -> Frame]
  BY DEF TypeInv, TypeOK
<1>2. [frame[t] EXCEPT !.step = step] \in Frame
  BY <1>1 DEF Frame
<1>3. frame' = [frame EXCEPT ![t] = [frame[t] EXCEPT !.step = step]]
  BY DEF Goto
<1> QED
  BY <1>2, <1>3, MoveFrame

LEMMA FinishFrame ==
    ASSUME TypeInv, NEW t \in Threads, Finish(t),
           \A m \in Managers : mSpen[m] \in Addrs => mSpen'[m] \in Addrs
    PROVE  frame' \in [Threads -> Frame] /\ FrameOK'
<1>1. Sound(Idle, mSpen')
  BY DEF Sound, Idle
<1> QED
  BY <1>1, FreshTypes, MoveFrame DEF Finish

\* Where no frame changes.
LEMMA SameFrame ==
    ASSUME TypeInv, UNCHANGED <<frame, mSpen>>
    PROVE  frame' \in [Threads -> Frame] /\ FrameOK'
BY DEF TypeInv, TypeOK, FrameOK, Sound

-----------------------------------------------------------------------------
(* connect() and resetSPenMAC() keep the types                             *)

LEMMA GetMACTypes ==
    ASSUME TypeInv, NEW t \in Threads, GetMAC(t)
    PROVE  TypeInv'
<1>1. frame' \in [Threads -> Frame] /\ FrameOK'
  <2> DEFINE f == [frame[t] EXCEPT !.addr = mac, !.step = "enable"]
  <2>1. f \in Frame /\ Sound(f, mSpen')
    BY DEF TypeInv, TypeOK, FrameOK, Sound, GetMAC, At, Frame, Steps, managerVars
  <2>2. frame' = [frame EXCEPT ![t] = f] \/ Finish(t)
    BY DEF GetMAC
  <2>3. UNCHANGED mSpen
    BY DEF GetMAC, managerVars
  <2> HIDE DEF f
  <2> QED
    BY <2>1, <2>2, <2>3, MoveFrame, FinishFrame
<1>2. TypeOK'
  BY <1>1 DEF TypeInv, TypeOK, GetMAC, prefVars, stackVars, managerVars, halVars, counters, history
<1>3. ClientOK'
  BY DEF TypeInv, ClientOK, GetMAC, stackVars
<1> QED
  BY <1>1, <1>2, <1>3 DEF TypeInv

LEMMA EnableTypes ==
    ASSUME TypeInv, NEW t \in Threads, Enable(t)
    PROVE  TypeInv'
<1>1. frame[t] \in Frame /\ Sound(frame[t], mSpen) /\ frame[t].step = "enable" /\ mSpen' = mSpen
  BY DEF TypeInv, TypeOK, FrameOK, Enable, At
<1>2. frame' \in [Threads -> Frame] /\ FrameOK'
  <2>1. PICK step \in {"reset", "startCharging"} :
           Goto(t, step) /\ (step = "startCharging" => frame[t].addr # NoAddr)
    BY DEF Enable
  <2>2. Sound([frame[t] EXCEPT !.step = step], mSpen')
    BY <1>1, <2>1 DEF Sound, Frame, Value
  <2> QED
    BY <1>1, <2>1, <2>2, GotoFrame DEF Steps
<1>3. TypeOK'
  <2>1. mCurBleSpenAddr' \in [Managers -> Value]
    BY <1>1 DEF TypeInv, TypeOK, Enable, Frame
  <2>2. bt' \in {"on", "turningOff", "restarting", "off", "turningOn"}
    BY DEF TypeInv, TypeOK, Enable
  <2> QED
    BY <1>2, <2>1, <2>2 DEF TypeInv, TypeOK, Enable, prefVars, halVars, counters, history
<1>4. ClientOK'
  BY DEF TypeInv, ClientOK, Enable
<1> QED
  BY <1>2, <1>3, <1>4 DEF TypeInv

LEMMA StartChargingTypes ==
    ASSUME TypeInv, NEW t \in Threads, StartCharging(t)
    PROVE  TypeInv'
<1>1. /\ frame[t] \in Frame /\ frame[t].mgr \in Managers /\ frame[t].addr \in Addrs
      /\ mSpen \in [Managers -> Addrs \cup {None}]
      /\ mSpen' = [mSpen EXCEPT ![frame[t].mgr] = frame[t].addr]
  BY DEF TypeInv, TypeOK, FrameOK, Sound, StartCharging, At
<1>2. frame' \in [Threads -> Frame] /\ FrameOK'
  <2>1. Goto(t, "check") \/ Finish(t)
    BY DEF StartCharging
  <2>2. Sound([frame[t] EXCEPT !.step = "check"], mSpen')
    BY <1>1 DEF Sound, Frame
  <2>3. \A m \in Managers : mSpen[m] \in Addrs => mSpen'[m] \in Addrs
    BY <1>1
  <2> QED
    BY <2>1, <2>2, <2>3, GotoFrame, FinishFrame DEF Steps
<1>3. TypeOK'
  <2>1. mSpen' \in [Managers -> Addrs \cup {None}] /\ charging' \in BOOLEAN
    BY <1>1 DEF TypeInv, TypeOK, StartCharging
  <2> QED
    BY <1>2, <2>1 DEF TypeInv, TypeOK, StartCharging, prefVars, stackVars, counters, history
<1>4. ClientOK'
  BY DEF TypeInv, ClientOK, StartCharging, stackVars
<1> QED
  BY <1>2, <1>3, <1>4 DEF TypeInv

LEMMA CheckTypes ==
    ASSUME TypeInv, NEW t \in Threads, Check(t)
    PROVE  TypeInv'
<1>1. /\ frame[t] \in Frame /\ Sound(frame[t], mSpen) /\ frame[t].step = "check"
      /\ UNCHANGED mSpen
  BY DEF TypeInv, TypeOK, FrameOK, Check, At, managerVars
<1>2. frame' \in [Threads -> Frame] /\ FrameOK'
  <2>1. Goto(t, "connectGatt") \/ Finish(t)
    BY DEF Check
  <2>2. Sound([frame[t] EXCEPT !.step = "connectGatt"], mSpen')
    BY <1>1 DEF Sound, Frame
  <2> QED
    BY <1>1, <2>1, <2>2, GotoFrame, FinishFrame DEF Steps
<1>3. TypeOK'
  BY <1>2 DEF TypeInv, TypeOK, Check, prefVars, stackVars, managerVars, halVars, counters, history
<1>4. ClientOK'
  BY DEF TypeInv, ClientOK, Check, stackVars
<1> QED
  BY <1>2, <1>3, <1>4 DEF TypeInv

LEMMA ConnectGattTypes ==
    ASSUME TypeInv, NEW t \in Threads, ConnectGatt(t)
    PROVE  TypeInv'
<1>1. /\ frame[t] \in Frame /\ frame[t].mgr \in Managers /\ mSpen[frame[t].mgr] \in Addrs
      /\ UNCHANGED mSpen
  BY DEF TypeInv, TypeOK, FrameOK, Sound, ConnectGatt, At, managerVars
<1>2. frame' \in [Threads -> Frame] /\ FrameOK'
  <2>1. PICK g \in Gatts \cup {None} :
           frame' = [frame EXCEPT ![t] = [frame[t] EXCEPT !.gatt = g, !.step = "assign"]]
    BY DEF ConnectGatt
  <2> DEFINE f == [frame[t] EXCEPT !.gatt = g, !.step = "assign"]
  <2>2. f \in Frame /\ Sound(f, mSpen')
    BY <1>1 DEF Sound, Frame, Steps
  <2>3. frame' = [frame EXCEPT ![t] = f]
    BY <2>1
  <2> HIDE DEF f
  <2> QED
    BY <1>1, <2>2, <2>3, MoveFrame
<1>3. client' \in [Gatts -> Client] /\ ClientOK'
  <2>1. CASE UNCHANGED client
    BY <2>1 DEF TypeInv, TypeOK, ClientOK
  <2>2. ASSUME NEW g \in Gatts,
               client' = [client EXCEPT ![g] =
                   [state |-> "connecting", addr |-> mSpen[frame[t].mgr],
                    mgr |-> frame[t].mgr, events |-> <<>>]]
        PROVE  client' \in [Gatts -> Client] /\ ClientOK'
    BY <2>2, <1>1 DEF TypeInv, TypeOK, ClientOK, Client, Open, Value
  <2> QED
    BY <2>1, <2>2 DEF ConnectGatt
<1>4. TypeOK'
  BY <1>2, <1>3 DEF TypeInv, TypeOK, ConnectGatt, prefVars, managerVars, halVars,
                    counters, history
<1> QED
  BY <1>2, <1>3, <1>4 DEF TypeInv

LEMMA AssignTypes ==
    ASSUME TypeInv, NEW t \in Threads, Assign(t)
    PROVE  TypeInv'
<1>1. frame' \in [Threads -> Frame] /\ FrameOK'
  BY FinishFrame DEF Assign
<1>2. TypeOK'
  <2>1. mGatt' \in [Managers -> Gatts \cup {None}]
    BY DEF TypeInv, TypeOK, Assign, Frame
  <2> QED
    BY <1>1, <2>1 DEF TypeInv, TypeOK, Assign, prefVars, stackVars, halVars, counters, history
<1>3. ClientOK'
  BY DEF TypeInv, ClientOK, Assign, stackVars
<1> QED
  BY <1>1, <1>2, <1>3 DEF TypeInv

LEMMA ResetTypes ==
    ASSUME TypeInv, NEW t \in Threads, Reset(t)
    PROVE  TypeInv'
<1>1. frame[t] \in Frame /\ UNCHANGED mSpen
  BY DEF TypeInv, TypeOK, Reset, managerVars
<1>2. frame' \in [Threads -> Frame] /\ FrameOK'
  <2>1. Goto(t, "toggleOff") \/ Finish(t)
    BY DEF Reset
  <2>2. Sound([frame[t] EXCEPT !.step = "toggleOff"], mSpen')
    BY <1>1 DEF Sound, Frame
  <2> QED
    BY <1>1, <2>1, <2>2, GotoFrame, FinishFrame DEF Steps
<1>3. TypeOK'
  BY <1>2 DEF TypeInv, TypeOK, Reset, prefVars, stackVars, managerVars, counters, history
<1>4. ClientOK'
  BY DEF TypeInv, ClientOK, Reset, stackVars
<1> QED
  BY <1>2, <1>3, <1>4 DEF TypeInv

LEMMA ToggleTypes ==
    ASSUME TypeInv, NEW t \in Threads, Toggle(t)
    PROVE  TypeInv'
<1>1. frame[t] \in Frame /\ UNCHANGED mSpen
  BY DEF TypeInv, TypeOK, Toggle, managerVars
<1>2. frame' \in [Threads -> Frame] /\ FrameOK'
  <2>1. Goto(t, "toggleOn") \/ Goto(t, "startScan")
    BY DEF Toggle
  <2>2. /\ Sound([frame[t] EXCEPT !.step = "toggleOn"], mSpen')
        /\ Sound([frame[t] EXCEPT !.step = "startScan"], mSpen')
    BY <1>1 DEF Sound, Frame
  <2> QED
    BY <1>1, <2>1, <2>2, GotoFrame DEF Steps
<1>3. TypeOK'
  <2>1. charging' = FALSE \/ charging' = TRUE \/ charging' = charging
    BY DEF Toggle
  <2>2. charging' \in BOOLEAN
    BY <2>1 DEF TypeInv, TypeOK
  <2> QED
    BY <1>2, <2>2 DEF TypeInv, TypeOK, Toggle, prefVars, stackVars, managerVars, counters, history
<1>4. ClientOK'
  BY DEF TypeInv, ClientOK, Toggle, stackVars
<1> QED
  BY <1>2, <1>3, <1>4 DEF TypeInv

LEMMA StartScanTypes ==
    ASSUME TypeInv, NEW t \in Threads, StartScan(t)
    PROVE  TypeInv'
<1>1. CASE ProcessDies /\ UNCHANGED <<mac, lastFound>>
  BY <1>1, DeathTypes DEF TypeInv, TypeOK
<1>2. CASE Finish(t) /\ UNCHANGED <<prefVars, stackVars, managerVars, inbox, mac, charging,
                                    counters, history>>
           /\ (UNCHANGED <<scan, stale>> \/
               \E s \in Scans, accepted \in BOOLEAN :
                  /\ scan' = [scan EXCEPT ![s] =
                                 [NoScan EXCEPT !.running = accepted, !.timer = TRUE]]
                  /\ stale' = IF t \in stale THEN stale \cup {s} ELSE stale \ {s})
  <2>1. frame' \in [Threads -> Frame] /\ FrameOK'
    BY <1>2, FinishFrame DEF managerVars
  <2>2. scan' \in [Scans -> Scan] /\ stale' \subseteq Holders
    <3>1. stale' \subseteq Holders
      BY <1>2 DEF TypeInv, TypeOK, Holders
    <3>2. CASE UNCHANGED scan
      BY <3>1, <3>2 DEF TypeInv, TypeOK
    <3>3. ASSUME NEW s \in Scans, NEW accepted \in BOOLEAN,
                 scan' = [scan EXCEPT ![s] =
                             [NoScan EXCEPT !.running = accepted, !.timer = TRUE]]
          PROVE  scan' \in [Scans -> Scan]
      <4>1. [NoScan EXCEPT !.running = accepted, !.timer = TRUE] \in Scan
        BY DEF NoScan, Scan
      <4> QED
        BY <3>3, <4>1 DEF TypeInv, TypeOK
    <3> QED
      BY <1>2, <3>1, <3>2, <3>3
  <2>3. TypeOK' /\ ClientOK'
    BY <1>2, <2>1, <2>2 DEF TypeInv, TypeOK, ClientOK, prefVars, stackVars, managerVars,
                            counters, history
  <2> QED
    BY <2>1, <2>2, <2>3 DEF TypeInv
<1> QED
  BY <1>1, <1>2 DEF StartScan, halVars

LEMMA ThreadStepTypes ==
    ASSUME TypeInv, NEW t \in Threads, ThreadStep(t)
    PROVE  TypeInv'
  BY GetMACTypes, EnableTypes, StartChargingTypes, CheckTypes, ConnectGattTypes, AssignTypes,
     ResetTypes, ToggleTypes, StartScanTypes DEF ThreadStep

-----------------------------------------------------------------------------
(* disconnect() and the events of the main thread keep the types           *)

LEMMA CloseTypes ==
    ASSUME TypeInv, NEW g \in Gatts, Close(g)
    PROVE  client' \in [Gatts -> Client] /\ ClientOK' /\ linked' \subseteq Addrs
<1>1. client' = [client EXCEPT ![g] = Closed] /\ client \in [Gatts -> Client]
  BY DEF Close, TypeInv, TypeOK
<1>2. client' \in [Gatts -> Client] /\ ClientOK'
  BY <1>1, FreshTypes DEF TypeInv, ClientOK, Closed
<1>3. linked' \subseteq Addrs
  BY DEF TypeInv, TypeOK, Close, LinksWithout
<1> QED
  BY <1>2, <1>3

\* A client whose state alone changes, for another that is not "closed".
LEMMA ClientStateTypes ==
    ASSUME TypeInv, NEW g \in Gatts, NEW state \in Open \cup {"lost"}, client[g].state # "closed",
           client' = [client EXCEPT ![g].state = state]
    PROVE  client' \in [Gatts -> Client] /\ ClientOK'
<1>1. client \in [Gatts -> Client]
  BY DEF TypeInv, TypeOK
<1>2. [client[g] EXCEPT !.state = state] \in Client
  BY <1>1 DEF Client
<1>3. client' = [client EXCEPT ![g] = [client[g] EXCEPT !.state = state]]
  OBVIOUS
<1>4. client' \in [Gatts -> Client]
  BY <1>1, <1>2, <1>3
<1>5. state # "closed"
  BY DEF Open
<1>6. ClientOK'
  BY <1>1, <1>5 DEF TypeInv, ClientOK, Client
<1> QED
  BY <1>4, <1>6

LEMMA GattDisconnectTypes ==
    ASSUME TypeInv, NEW t \in Threads, GattDisconnect(t)
    PROVE  TypeInv'
<1>1. /\ frame[t] \in Frame /\ frame[t].mgr \in Managers
      /\ mGatt \in [Managers -> Gatts \cup {None}] /\ UNCHANGED mSpen
  BY DEF TypeInv, TypeOK, FrameOK, Sound, GattDisconnect, At, managerVars
<1>2. frame' \in [Threads -> Frame] /\ FrameOK'
  <2>1. Goto(t, "stopCharging") \/ Goto(t, "gattClose")
    BY DEF GattDisconnect
  <2>2. /\ Sound([frame[t] EXCEPT !.step = "stopCharging"], mSpen')
        /\ Sound([frame[t] EXCEPT !.step = "gattClose"], mSpen')
    BY <1>1 DEF Sound, Frame
  <2> QED
    BY <1>1, <2>1, <2>2, GotoFrame DEF Steps
<1>3. client' \in [Gatts -> Client] /\ ClientOK'
  <2>1. CASE UNCHANGED client
    BY <2>1 DEF TypeInv, TypeOK, ClientOK
  <2>2. ASSUME NEW g \in Gatts, client[g].state = "connected",
               client' = [client EXCEPT ![g].state = "closing"]
        PROVE  client' \in [Gatts -> Client] /\ ClientOK'
    BY <2>2, ClientStateTypes DEF Open
  <2> QED
    BY <1>1, <2>1, <2>2 DEF GattDisconnect
<1>4. TypeOK'
  BY <1>2, <1>3 DEF TypeInv, TypeOK, GattDisconnect, prefVars, managerVars, halVars,
                    counters, history
<1> QED
  BY <1>2, <1>3, <1>4 DEF TypeInv

LEMMA GattCloseTypes ==
    ASSUME TypeInv, NEW t \in Threads, GattClose(t)
    PROVE  TypeInv'
<1>1. /\ frame[t] \in Frame /\ frame[t].mgr \in Managers
      /\ mGatt \in [Managers -> Gatts \cup {None}]
  BY DEF TypeInv, TypeOK, FrameOK, Sound, GattClose, At
<1>2. CASE ProcessDies /\ UNCHANGED <<mac, lastFound>>
  BY <1>2, DeathTypes DEF TypeInv, TypeOK
<1>3. ASSUME NEW g \in Gatts, Close(g), Goto(t, "stopCharging"),
             UNCHANGED <<prefVars, bt, managerVars, inbox, scan, halVars, counters, history>>
      PROVE  TypeInv'
  <2>1. frame' \in [Threads -> Frame] /\ FrameOK'
    <3>1. Sound([frame[t] EXCEPT !.step = "stopCharging"], mSpen')
      BY <1>1 DEF Sound, Frame
    <3> QED
      BY <1>3, <3>1, GotoFrame DEF Steps, managerVars
  <2>2. client' \in [Gatts -> Client] /\ ClientOK' /\ linked' \subseteq Addrs
    BY <1>3, CloseTypes
  <2>3. TypeOK'
    BY <1>3, <2>1, <2>2 DEF TypeInv, TypeOK, prefVars, managerVars, halVars,
                            counters, history
  <2> QED
    BY <2>1, <2>2, <2>3 DEF TypeInv
<1> QED
  BY <1>1, <1>2, <1>3 DEF GattClose

LEMMA StopChargingTypes ==
    ASSUME TypeInv, NEW t \in Threads, StopCharging(t)
    PROVE  TypeInv'
<1>1. frame[t] \in Frame /\ frame[t].mgr \in Managers /\ UNCHANGED mSpen
  BY DEF TypeInv, TypeOK, FrameOK, Sound, StopCharging, At, managerVars
<1>2. frame' \in [Threads -> Frame] /\ FrameOK'
  <2>1. Goto(t, "getMAC") \/ Finish(t)
    BY DEF StopCharging
  <2>2. Sound([frame[t] EXCEPT !.step = "getMAC"], mSpen')
    BY <1>1 DEF Sound, Frame
  <2> QED
    BY <1>1, <2>1, <2>2, GotoFrame, FinishFrame DEF Steps
<1>3. TypeOK'
  <2>1. charging' = FALSE \/ charging' = charging
    BY DEF StopCharging
  <2>2. charging' \in BOOLEAN
    BY <2>1 DEF TypeInv, TypeOK
  <2> QED
    BY <1>2, <2>2 DEF TypeInv, TypeOK, StopCharging, prefVars, stackVars, managerVars,
                      counters, history
<1>4. ClientOK'
  BY DEF TypeInv, ClientOK, StopCharging, stackVars
<1> QED
  BY <1>2, <1>3, <1>4 DEF TypeInv

LEMMA StartServiceTypes ==
    ASSUME TypeInv, NEW m \in Managers, StartService(m)
    PROVE  TypeInv'
<1>1. frame' \in [Threads -> Frame] /\ FrameOK'
  BY SameFrame DEF StartService
<1>2. receivers' \in Seq(Managers)
  BY DEF TypeInv, TypeOK, StartService
<1>3. inbox' \in Seq(Broadcast)
  <2> DEFINE news == [i \in 1..(Len(receivers) + 1) |->
                         [mgr |-> Append(receivers, m)[i], on |-> bt = "on"]]
  <2>1. receivers \in Seq(Managers) /\ inbox \in Seq(Broadcast)
    BY DEF TypeInv, TypeOK, Broadcast
  <2>2. \A i \in 1..(Len(receivers) + 1) : Append(receivers, m)[i] \in Managers
    BY <2>1
  <2>3. Len(receivers) + 1 \in Nat
    BY <2>1
  <2>4. \A b \in BOOLEAN : \A n \in Managers : [mgr |-> n, on |-> b] \in Broadcast
    BY DEF Broadcast
  <2>5. (bt = "on") \in BOOLEAN
    OBVIOUS
  <2>6. news \in Seq(Broadcast)
    <3>1. \A i \in 1..(Len(receivers) + 1) :
             [mgr |-> Append(receivers, m)[i], on |-> bt = "on"] \in Broadcast
      BY <2>2, <2>4, <2>5
    <3>2. news \in [1..(Len(receivers) + 1) -> Broadcast]
      BY <3>1
    <3> HIDE DEF news
    <3> QED
      BY <2>3, <3>2, BroadcastsType
  <2>7. inbox' = inbox \o news \/ inbox' = inbox \o <<>>
    <3>1. CASE bt \in {"on", "off"}
      BY <3>1 DEF StartService
    <3>2. CASE ~(bt \in {"on", "off"})
      BY <3>2 DEF StartService
    <3> QED
      BY <3>1, <3>2
  <2>8. <<>> \in Seq(Broadcast)
    OBVIOUS
  <2> HIDE DEF news
  <2> QED
    BY <2>1, <2>6, <2>7, <2>8, ConcatType
<1>4. starts' \in 0..MaxStarts
  BY ConnectionAssumption DEF TypeInv, TypeOK, StartService
<1>5. TypeOK'
  BY <1>1, <1>2, <1>3, <1>4 DEF Broadcast, TypeInv, TypeOK, StartService, prefVars, stackVars, history
<1>6. ClientOK'
  BY DEF TypeInv, ClientOK, StartService, stackVars
<1> QED
  BY <1>1, <1>5, <1>6 DEF TypeInv


LEMMA ReceiveTypes == TypeInv /\ Receive => TypeInv'
<1> SUFFICES ASSUME TypeInv, Receive PROVE TypeInv'
  OBVIOUS
<1>1. /\ inbox \in Seq(Broadcast) /\ inbox # <<>>
      /\ Head(inbox) \in Broadcast /\ Tail(inbox) \in Seq(Broadcast)
  <2>1. inbox \in Seq(Broadcast) /\ inbox # <<>>
    BY DEF TypeInv, TypeOK, Broadcast, Receive
  <2> QED
    BY <2>1
<1>2. frame' \in [Threads -> Frame] /\ FrameOK'
  <2> DEFINE f == [Idle EXCEPT !.step = "gattDisconnect", !.mgr = Head(inbox).mgr,
                               !.again = Head(inbox).on]
  <2>1. f \in Frame /\ Sound(f, mSpen')
    BY <1>1 DEF Broadcast, Idle, Frame, Sound, Steps, Value
  <2>2. UNCHANGED mSpen /\ Main \in Threads
    BY DEF Receive, managerVars, Threads
  <2>3. UNCHANGED frame \/ frame' = [frame EXCEPT ![Main] = f]
    BY DEF Receive
  <2> HIDE DEF f
  <2> QED
    BY <2>1, <2>2, <2>3, SameFrame, MoveFrame
<1>3. TypeOK'
  BY <1>1, <1>2 DEF Broadcast, TypeInv, TypeOK, Receive, prefVars, stackVars, managerVars,
                    halVars, counters, history
<1>4. ClientOK'
  BY DEF TypeInv, ClientOK, Receive, stackVars
<1> QED
  BY <1>2, <1>3, <1>4 DEF TypeInv

LEMMA OffOnType == TypeInv => OffOn \in Seq(Broadcast)
  BY PostedType, ConcatType DEF TypeInv, TypeOK, OffOn

LEMMA TogglePreferenceTypes == TypeInv /\ TogglePreference => TypeInv'
<1> SUFFICES ASSUME TypeInv, TogglePreference PROVE TypeInv'
  OBVIOUS
<1>1. frame' \in [Threads -> Frame] /\ FrameOK'
  BY SameFrame DEF TogglePreference, managerVars
<1>2. inbox' \in Seq(Broadcast)
  <2>1. inbox' = inbox \o OffOn \/ inbox' = inbox \o <<>>
    BY DEF TogglePreference
  <2>2. inbox \in Seq(Broadcast) /\ <<>> \in Seq(Broadcast)
    BY DEF TypeInv, TypeOK, Broadcast
  <2> QED
    BY <2>1, <2>2, OffOnType, ConcatType
<1>3. user' \in 0..MaxUser
  BY ConnectionAssumption DEF TypeInv, TypeOK, TogglePreference
<1>4. enabled' \in BOOLEAN
  BY DEF TypeInv, TypeOK, TogglePreference
<1>5. TypeOK'
  BY <1>1, <1>2, <1>3, <1>4 DEF Broadcast, TypeInv, TypeOK, TogglePreference, stackVars,
                                managerVars, halVars, history
<1>6. ClientOK'
  BY DEF TypeInv, ClientOK, TogglePreference, stackVars
<1> QED
  BY <1>1, <1>5, <1>6 DEF TypeInv

LEMMA ClickResetTypes == TypeInv /\ ClickReset => TypeInv'
<1> SUFFICES ASSUME TypeInv, ClickReset PROVE TypeInv'
  OBVIOUS
<1>1. frame' \in [Threads -> Frame] /\ FrameOK'
  <2>1. Goto(Main, "reset") /\ Main \in Threads /\ UNCHANGED mSpen
    BY DEF ClickReset, Threads, managerVars
  <2>2. frame[Main] \in Frame
    BY <2>1 DEF TypeInv, TypeOK
  <2>3. Sound([frame[Main] EXCEPT !.step = "reset"], mSpen')
    BY <2>2 DEF Sound, Frame
  <2> QED
    BY <2>1, <2>3, GotoFrame DEF Steps
<1>2. user' \in 0..MaxUser
  BY ConnectionAssumption DEF TypeInv, TypeOK, ClickReset
<1>3. TypeOK'
  BY <1>1, <1>2 DEF TypeInv, TypeOK, ClickReset, prefVars, stackVars, managerVars, halVars, history
<1>4. ClientOK'
  BY DEF TypeInv, ClientOK, ClickReset, stackVars
<1> QED
  BY <1>1, <1>3, <1>4 DEF TypeInv

\* What a scan has found are pens.
LEMMA FoundPens ==
    ASSUME TypeInv, NEW s \in Scans
    PROVE  scan \in [Scans -> Scan] /\ scan[s] \in Scan /\ scan[s].found \subseteq Addrs
<1>1. scan \in [Scans -> Scan]
  BY DEF TypeInv, TypeOK
<1>2. scan[s] \in Scan
  BY <1>1
<1> QED
  BY <1>1, <1>2 DEF Scan

LEMMA ScanResultTypes ==
    ASSUME TypeInv, NEW s \in Scans, ScanResult(s)
    PROVE  TypeInv'
<1>1. PICK a \in scan[s].found :
         /\ mac' = (IF s \in stale THEN mac ELSE a)
         /\ lastFound' = a
         /\ \/ /\ scan' = [scan EXCEPT ![s].running = FALSE, ![s].found = @ \ {a}]
               /\ inbox' = inbox \o OffOn
               /\ UNCHANGED <<prefVars, stackVars, managerVars, frame, charging, stale,
                              counters, wentOff, misled, overtaken>>
            \/ bt # "on" /\ ProcessDies
  BY DEF ScanResult
<1>2. mac' \in Value /\ lastFound' \in Addrs
  BY <1>1, FoundPens DEF TypeInv, TypeOK, Value
<1>3. CASE ProcessDies
  BY <1>2, <1>3, DeathTypes
<1>4. CASE /\ scan' = [scan EXCEPT ![s].running = FALSE, ![s].found = @ \ {a}]
           /\ inbox' = inbox \o OffOn
           /\ UNCHANGED <<prefVars, stackVars, managerVars, frame, charging, stale,
                          counters, wentOff, misled, overtaken>>
  <2>1. frame' \in [Threads -> Frame] /\ FrameOK'
    BY <1>4, SameFrame DEF managerVars
  <2>2. inbox' \in Seq(Broadcast)
    BY <1>4, OffOnType, ConcatType DEF TypeInv, TypeOK, Broadcast
  <2>3. scan' \in [Scans -> Scan]
    BY <1>4, FoundPens DEF Scan
  <2>4. TypeOK' /\ ClientOK'
    BY <1>2, <1>4, <2>1, <2>2, <2>3 DEF Broadcast, TypeInv, TypeOK, ClientOK, prefVars, stackVars,
                                        managerVars, counters
  <2> QED
    BY <2>1, <2>3, <2>4 DEF TypeInv
<1> QED
  BY <1>1, <1>3, <1>4

LEMMA ScanTimeoutTypes ==
    ASSUME TypeInv, NEW s \in Scans, ScanTimeout(s)
    PROVE  TypeInv'
<1>1. CASE ProcessDies /\ UNCHANGED <<mac, lastFound>>
  BY <1>1, DeathTypes DEF TypeInv, TypeOK
<1>2. CASE /\ scan' = [scan EXCEPT ![s].timer = FALSE, ![s].running = FALSE]
           /\ UNCHANGED <<prefVars, stackVars, managerVars, inbox, frame, halVars, counters, history>>
  <2>1. frame' \in [Threads -> Frame] /\ FrameOK'
    BY <1>2, SameFrame DEF managerVars
  <2>2. scan' \in [Scans -> Scan]
    BY <1>2, FoundPens DEF Scan
  <2>3. TypeOK' /\ ClientOK'
    BY <1>2, <2>1, <2>2 DEF TypeInv, TypeOK, ClientOK, prefVars, stackVars, managerVars,
                            halVars, counters, history
  <2> QED
    BY <2>1, <2>2, <2>3 DEF TypeInv
<1> QED
  BY <1>1, <1>2 DEF ScanTimeout

-----------------------------------------------------------------------------
(* The callbacks and the environment keep the types                        *)

LEMMA ConnectedTypes ==
    ASSUME TypeInv, NEW g \in Gatts, Connected(g)
    PROVE  TypeInv'
<1>1. /\ g \in Threads /\ client \in [Gatts -> Client] /\ UNCHANGED mSpen
      /\ client[g].events \in Seq({"up", "down"}) /\ client[g].events # <<>>
  BY DEF TypeInv, TypeOK, Connected, Threads, Client, managerVars
<1>2. client[g].state # "closed"
  BY <1>1 DEF TypeInv, ClientOK, Closed
<1>3. client[g].mgr \in Managers
  BY <1>2 DEF TypeInv, ClientOK
<1>4. frame' \in [Threads -> Frame] /\ FrameOK'
  <2> DEFINE f == [Idle EXCEPT !.step = "save", !.mgr = client[g].mgr,
                               !.addr = mCurBleSpenAddr[client[g].mgr]]
  <2>1. f \in Frame /\ Sound(f, mSpen')
    BY <1>3 DEF TypeInv, TypeOK, Idle, Frame, Sound, Steps
  <2>2. frame' = [frame EXCEPT ![g] = f]
    BY DEF Connected
  <2> HIDE DEF f
  <2> QED
    BY <1>1, <2>1, <2>2, MoveFrame
<1>5. client' \in [Gatts -> Client] /\ ClientOK'
  <2>1. client' = [client EXCEPT ![g] = [client[g] EXCEPT !.events = Tail(@)]]
    BY DEF Connected
  <2>2. Tail(client[g].events) \in Seq({"up", "down"})
    BY <1>1
  <2> QED
    BY <1>1, <1>2, <2>1, <2>2 DEF TypeInv, ClientOK, Client
<1>6. TypeOK'
  BY <1>4, <1>5 DEF TypeInv, TypeOK, Connected, prefVars, managerVars, halVars,
                    counters, history
<1> QED
  BY <1>4, <1>5, <1>6 DEF TypeInv

LEMMA SaveTypes ==
    ASSUME TypeInv, NEW g \in Gatts, Save(g)
    PROVE  TypeInv'
<1>1. g \in Threads
  BY DEF Threads
<1>2. frame' \in [Threads -> Frame] /\ FrameOK'
  BY <1>1, FinishFrame DEF Save, managerVars
<1>3. mac' \in Value
  BY <1>1 DEF TypeInv, TypeOK, Save, Frame
<1>4. TypeOK'
  BY <1>2, <1>3 DEF TypeInv, TypeOK, Save, prefVars, stackVars, managerVars, counters, history
<1>5. ClientOK'
  BY DEF TypeInv, ClientOK, Save, stackVars
<1> QED
  BY <1>2, <1>4, <1>5 DEF TypeInv

LEMMA DisconnectedTypes ==
    ASSUME TypeInv, NEW g \in Gatts, Disconnected(g)
    PROVE  TypeInv'
<1>1. /\ g \in Threads /\ client[g].events # <<>> /\ UNCHANGED mSpen
  BY DEF Disconnected, Threads, managerVars
<1>2. client[g].mgr \in Managers
  BY <1>1 DEF TypeInv, ClientOK, Closed
<1>3. frame' \in [Threads -> Frame] /\ FrameOK'
  <2> DEFINE f == [Idle EXCEPT !.step = "getMAC", !.mgr = client[g].mgr]
  <2>1. f \in Frame /\ Sound(f, mSpen')
    BY <1>2 DEF Idle, Frame, Sound, Steps, Value
  <2>2. frame' = [frame EXCEPT ![g] = f]
    BY DEF Disconnected
  <2> HIDE DEF f
  <2> QED
    BY <1>1, <2>1, <2>2, MoveFrame
<1>4. client' \in [Gatts -> Client] /\ ClientOK' /\ linked' \subseteq Addrs
  BY CloseTypes DEF Disconnected
<1>5. TypeOK'
  BY <1>3, <1>4 DEF TypeInv, TypeOK, Disconnected, prefVars, managerVars, halVars,
                    counters, history
<1> QED
  BY <1>3, <1>4, <1>5 DEF TypeInv

LEMMA LinkUpTypes ==
    ASSUME TypeInv, NEW g \in Gatts, LinkUp(g)
    PROVE  TypeInv'
<1>1. /\ client \in [Gatts -> Client] /\ client[g].events \in Seq({"up", "down"})
      /\ client[g].addr \in Addrs /\ client[g].state = "connecting"
  BY DEF TypeInv, TypeOK, ClientOK, LinkUp, Client
<1>2. frame' \in [Threads -> Frame] /\ FrameOK'
  BY SameFrame DEF LinkUp, managerVars
<1>3. client' \in [Gatts -> Client] /\ ClientOK'
  <2>1. client' = [client EXCEPT ![g] = [client[g] EXCEPT !.state = "connected",
                                                          !.events = Append(@, "up")]]
    BY <1>1 DEF LinkUp
  <2>2. Append(client[g].events, "up") \in Seq({"up", "down"})
    BY <1>1
  <2> QED
    BY <1>1, <2>1, <2>2 DEF TypeInv, ClientOK, Client, Open
<1>4. linked' \subseteq Addrs
  BY <1>1 DEF TypeInv, TypeOK, LinkUp
<1>5. TypeOK'
  BY <1>2, <1>3, <1>4 DEF TypeInv, TypeOK, LinkUp, prefVars, managerVars, halVars,
                          counters, history
<1> QED
  BY <1>2, <1>3, <1>5 DEF TypeInv

LEMMA LoseTypes ==
    ASSUME TypeInv, NEW gs \in SUBSET Gatts, \A g \in gs : client[g].state # "closed", Lose(gs)
    PROVE  client' \in [Gatts -> Client] /\ ClientOK' /\ drops' \in 0..MaxDrops
<1>1. drops' \in 0..MaxDrops
  <2>1. Cardinality(gs) \in Nat
    BY ConnectionAssumption, FS_Subset, FS_CardinalityType
  <2>2. /\ drops \in 0..MaxDrops /\ MaxDrops \in Nat
        /\ drops' = drops + Cardinality(gs) /\ drops' <= MaxDrops
    BY ConnectionAssumption DEF TypeInv, TypeOK, Lose
  <2> QED
    BY <2>1, <2>2
<1>2. client \in [Gatts -> Client]
  BY DEF TypeInv, TypeOK
<1>3. \A g \in gs : [client[g] EXCEPT !.state = "lost", !.events = Append(@, "down")] \in Client
  <2> SUFFICES ASSUME NEW g \in gs
               PROVE  [client[g] EXCEPT !.state = "lost", !.events = Append(@, "down")] \in Client
    OBVIOUS
  <2>1. client[g] \in Client /\ client[g].events \in Seq({"up", "down"})
    BY <1>2 DEF Client
  <2>2. Append(client[g].events, "down") \in Seq({"up", "down"})
    BY <2>1
  <2> QED
    BY <2>1, <2>2 DEF Client
<1>4. client' = [g \in Gatts |-> IF g \in gs
                    THEN [client[g] EXCEPT !.state = "lost", !.events = Append(@, "down")]
                    ELSE client[g]]
  BY DEF Lose
<1>5. client' \in [Gatts -> Client]
  BY <1>2, <1>3, <1>4
<1>6. ClientOK'
  <2> SUFFICES ASSUME NEW g \in Gatts
               PROVE  /\ client'[g].state # "closed"
                            => client'[g].mgr \in Managers /\ client'[g].addr \in Addrs
                      /\ client'[g].state = "closed" => client'[g] = Closed
    BY DEF ClientOK
  <2>1. CASE g \in gs
    BY <2>1, <1>2, <1>4 DEF TypeInv, ClientOK, Client
  <2>2. CASE g \notin gs
    BY <2>2, <1>4 DEF TypeInv, ClientOK
  <2> QED
    BY <2>1, <2>2
<1> QED
  BY <1>1, <1>5, <1>6

LEMMA LinkDropTypes ==
    ASSUME TypeInv, NEW a \in Addrs, LinkDrop(a)
    PROVE  TypeInv'
<1>1. frame' \in [Threads -> Frame] /\ FrameOK'
  BY SameFrame DEF LinkDrop, managerVars
<1>2. client' \in [Gatts -> Client] /\ ClientOK' /\ drops' \in 0..MaxDrops
  BY LoseTypes DEF LinkDrop, Has, HasLink
<1>3. TypeOK'
  BY <1>1, <1>2 DEF TypeInv, TypeOK, LinkDrop, prefVars, managerVars, halVars, history
<1> QED
  BY <1>1, <1>2, <1>3 DEF TypeInv

LEMMA ConnectFailsTypes ==
    ASSUME TypeInv, NEW g \in Gatts, ConnectFails(g)
    PROVE  TypeInv'
<1>1. frame' \in [Threads -> Frame] /\ FrameOK'
  BY SameFrame DEF ConnectFails, managerVars
<1>2. client' \in [Gatts -> Client] /\ ClientOK' /\ drops' \in 0..MaxDrops
  BY LoseTypes DEF ConnectFails
<1>3. TypeOK'
  BY <1>1, <1>2 DEF TypeInv, TypeOK, ConnectFails, prefVars, managerVars, halVars, history
<1> QED
  BY <1>1, <1>2, <1>3 DEF TypeInv

LEMMA DisconnectDoneTypes ==
    ASSUME TypeInv, NEW g \in Gatts, DisconnectDone(g)
    PROVE  TypeInv'
<1>1. frame' \in [Threads -> Frame] /\ FrameOK'
  BY SameFrame DEF DisconnectDone, managerVars
<1>2. client' \in [Gatts -> Client] /\ ClientOK' /\ drops' \in 0..MaxDrops
  BY LoseTypes DEF DisconnectDone
<1>3. linked' \subseteq Addrs
  BY DEF TypeInv, TypeOK, DisconnectDone, LinksWithout
<1>4. TypeOK'
  BY <1>1, <1>2, <1>3 DEF TypeInv, TypeOK, DisconnectDone, prefVars, managerVars,
                          halVars, history
<1> QED
  BY <1>1, <1>2, <1>4 DEF TypeInv

LEMMA LinkGoneTypes ==
    ASSUME TypeInv, NEW a \in Addrs, LinkGone(a)
    PROVE  TypeInv'
<1>1. frame' \in [Threads -> Frame] /\ FrameOK'
  BY SameFrame DEF LinkGone, managerVars
<1>2. TypeOK' /\ ClientOK'
  BY <1>1 DEF TypeInv, TypeOK, ClientOK, LinkGone, prefVars, managerVars, halVars,
              counters, history
<1> QED
  BY <1>1, <1>2 DEF TypeInv

LEMMA AdapterTypes == TypeInv /\ (UserSwitch \/ BtDown \/ BtUp) => TypeInv'
<1> SUFFICES ASSUME TypeInv, UserSwitch \/ BtDown \/ BtUp PROVE TypeInv'
  OBVIOUS
<1>1. frame' \in [Threads -> Frame] /\ FrameOK'
  BY SameFrame DEF UserSwitch, BtDown, BtUp, managerVars
<1>2. client' \in [Gatts -> Client] /\ ClientOK'
  <2>1. CASE UNCHANGED client
    BY <2>1 DEF TypeInv, TypeOK, ClientOK
  <2>2. CASE client' = [g \in Gatts |-> IF client[g].state \in Open
                           THEN [client[g] EXCEPT !.state = "lost"] ELSE client[g]]
    <3>1. client \in [Gatts -> Client]
      BY DEF TypeInv, TypeOK
    <3>2. client' \in [Gatts -> Client]
      BY <3>1, <2>2 DEF Client
    <3>3. ClientOK'
      BY <3>1, <2>2 DEF TypeInv, ClientOK, Client, Open
    <3> QED
      BY <3>2, <3>3
  <2> QED
    BY <2>1, <2>2 DEF UserSwitch, BtDown, BtUp
<1>3. scan' \in [Scans -> Scan]
  <2>1. CASE UNCHANGED scan
    BY <2>1 DEF TypeInv, TypeOK
  <2>2. CASE scan' = [s \in Scans |-> [scan[s] EXCEPT !.running = FALSE]]
    BY <2>2 DEF TypeInv, TypeOK, Scan
  <2> QED
    BY <2>1, <2>2 DEF UserSwitch, BtDown, BtUp
<1>4. inbox' \in Seq(Broadcast)
  <2>1. \/ UNCHANGED inbox
        \/ \E on \in BOOLEAN : inbox' = inbox \o Posted(on)
    BY DEF UserSwitch, BtDown, BtUp
  <2>2. inbox \in Seq(Broadcast) /\ receivers \in Seq(Managers)
    BY DEF TypeInv, TypeOK, Broadcast
  <2> QED
    BY <2>1, <2>2, PostedType, ConcatType
<1>5. bt' \in {"on", "turningOff", "restarting", "off", "turningOn"} /\ linked' \subseteq Addrs
  BY DEF TypeInv, TypeOK, UserSwitch, BtDown, BtUp
<1>6. user' \in 0..MaxUser /\ wentOff' \in BOOLEAN
  <2>1. user' = user \/ (user < MaxUser /\ user' = user + 1)
    <3>1. UserSwitch => user < MaxUser /\ user' = user + 1
      BY DEF UserSwitch
    <3>2. BtDown \/ BtUp => user' = user
      BY DEF BtDown, BtUp, counters
    <3> QED
      BY <3>1, <3>2
  <2>2. wentOff' = TRUE \/ wentOff' = wentOff
    BY DEF UserSwitch, BtDown, BtUp, history
  <2>3. user \in 0..MaxUser /\ MaxUser \in Nat /\ wentOff \in BOOLEAN
    BY ConnectionAssumption DEF TypeInv, TypeOK
  <2>4. user' \in 0..MaxUser
    BY <2>1, <2>3
  <2> QED
    BY <2>2, <2>3, <2>4
<1>7. TypeOK'
  BY <1>1, <1>2, <1>3, <1>4, <1>5, <1>6
     DEF Broadcast, TypeInv, TypeOK, UserSwitch, BtDown, BtUp, prefVars, managerVars, halVars,
         counters, history
<1> QED
  BY <1>1, <1>2, <1>3, <1>7 DEF TypeInv

LEMMA PenFoundTypes ==
    ASSUME TypeInv, NEW s \in Scans, PenFound(s)
    PROVE  TypeInv'
<1>1. frame' \in [Threads -> Frame] /\ FrameOK'
  BY SameFrame DEF PenFound, managerVars
<1>2. scan' \in [Scans -> Scan]
  <2>1. PICK a \in Addrs : scan' = [scan EXCEPT ![s].found = @ \cup {a}]
    BY DEF PenFound
  <2> QED
    BY <2>1, FoundPens DEF Scan
<1>3. finds' \in 0..MaxFinds
  <2>1. finds \in 0..MaxFinds /\ MaxFinds \in Nat /\ finds < MaxFinds /\ finds' = finds + 1
    BY ConnectionAssumption DEF TypeInv, TypeOK, PenFound
  <2> QED
    BY <2>1
<1>4. TypeOK' /\ ClientOK'
  BY <1>1, <1>2, <1>3 DEF TypeInv, TypeOK, ClientOK, PenFound, prefVars, stackVars, managerVars,
                    halVars, history
<1> QED
  BY <1>1, <1>2, <1>4 DEF TypeInv

LEMMA HalDiesTypes == TypeInv /\ HalDies => TypeInv'
<1> SUFFICES ASSUME TypeInv, HalDies PROVE TypeInv'
  OBVIOUS
<1>1. frame' \in [Threads -> Frame] /\ FrameOK'
  BY SameFrame DEF HalDies, managerVars
<1>2. mac' \in Value /\ halFaults' \in 0..MaxHalFaults /\ stale' \subseteq Holders
  BY ConnectionAssumption DEF TypeInv, TypeOK, HalDies, Value
<1>3. TypeOK' /\ ClientOK'
  BY <1>1, <1>2 DEF TypeInv, TypeOK, ClientOK, HalDies, prefVars, stackVars,
                    managerVars, history
<1> QED
  BY <1>1, <1>3 DEF TypeInv

LEMMA StutterTypes == TypeInv /\ UNCHANGED vars => TypeInv'
<1> SUFFICES ASSUME TypeInv, UNCHANGED vars PROVE TypeInv'
  OBVIOUS
<1>1. frame' \in [Threads -> Frame] /\ FrameOK'
  BY SameFrame DEF vars
<1> QED
  BY <1>1 DEF TypeInv, TypeOK, ClientOK, vars

LEMMA NextTypes == TypeInv /\ [Next]_vars => TypeInv'
<1> SUFFICES ASSUME TypeInv, [Next]_vars PROVE TypeInv'
  OBVIOUS
<1>1. CASE MainStep
  BY <1>1, ReceiveTypes, GattDisconnectTypes, GattCloseTypes, StopChargingTypes,
     ThreadStepTypes, ScanResultTypes DEF MainStep, Threads
<1>2. ASSUME NEW g \in Gatts, CallbackStep(g)
      PROVE  TypeInv'
  BY <1>2, ConnectedTypes, SaveTypes, DisconnectedTypes, ThreadStepTypes
     DEF CallbackStep, Threads
<1>3. CASE Environment
  BY <1>3, StartServiceTypes, TogglePreferenceTypes, ClickResetTypes, ScanTimeoutTypes,
     PenFoundTypes, LinkUpTypes, ConnectFailsTypes, DisconnectDoneTypes, LinkDropTypes,
     LinkGoneTypes, AdapterTypes, HalDiesTypes DEF Environment
<1> QED
  BY <1>1, <1>2, <1>3, StutterTypes DEF Next

LEMMA TypesHold == Spec => []TypeInv
<1>1. TypeInv /\ [Next]_vars => TypeInv'
  BY NextTypes
<1> QED
  BY InitTypes, <1>1, PTL DEF Spec

\* The fields of the managers, the frames of the threads and the records of
\* the stack always hold what their code expects of them.
THEOREM TypeCorrect == Spec => []TypeOK
<1>1. TypeInv => TypeOK
  BY DEF TypeInv
<1> QED
  BY TypesHold, <1>1, PTL

-----------------------------------------------------------------------------
(* The address of the pen                                                  *)

LEMMA InitMacInv == Init => MacInv
  BY DEF Init, MacInv, ClientInformed, Informed, Closed, Idle, At, Targeting

\* Clients are opened by ConnectGatt only; other steps close them or change
\* their states.
ClientsKept ==
    \A g \in Gatts : client'[g].state # "closed" =>
        client[g].state # "closed" /\ client'[g].mgr = client[g].mgr

AddressesKept == UNCHANGED <<halFaults, mac, mCurBleSpenAddr>>

\* A step that stores no address needs to be looked at where it moves a thread.
LEMMA MacKept ==
    ASSUME MacInv, AddressesKept, ClientsKept,
           \A t \in Threads : frame'[t] = frame[t] \/ (halFaults = 0 => Informed(t)')
    PROVE  MacInv'
<1>1. SUFFICES ASSUME halFaults = 0
               PROVE  (\A g \in Gatts : ClientInformed(g)') /\ (\A t \in Threads : Informed(t)')
  BY DEF MacInv, AddressesKept
<1>2. ASSUME NEW g \in Gatts PROVE ClientInformed(g)'
  BY <1>1 DEF MacInv, ClientInformed, ClientsKept, AddressesKept
<1>3. ASSUME NEW t \in Threads PROVE Informed(t)'
  <2>1. CASE frame'[t] = frame[t]
    BY <1>1, <2>1 DEF MacInv, Informed, AddressesKept, At
  <2>2. CASE halFaults = 0 => Informed(t)'
    BY <1>1, <2>2
  <2> QED
    BY <2>1, <2>2
<1> QED
  BY <1>2, <1>3

LEMMA MacKeptIdle ==
    ASSUME MacInv, AddressesKept, ClientsKept, UNCHANGED frame
    PROVE  MacInv'
  BY MacKept

\* One thread moves.
LEMMA MacKeptMove ==
    ASSUME TypeInv, MacInv, AddressesKept, ClientsKept, NEW t \in Threads, NEW f,
           frame' = [frame EXCEPT ![t] = f], halFaults = 0 => Informed(t)'
    PROVE  MacInv'
<1>1. \A u \in Threads : frame'[u] = frame[u] \/ u = t
  BY DEF TypeInv, TypeOK
<1> QED
  BY <1>1, MacKept

\* A thread that ends, or goes on with a step that stores no address.
LEMMA MacFinish ==
    ASSUME TypeInv, MacInv, AddressesKept, ClientsKept, NEW t \in Threads, Finish(t)
    PROVE  MacInv'
<1>1. frame' = [frame EXCEPT ![t] = Idle] /\ frame'[t] = Idle
  BY DEF Finish, TypeInv, TypeOK
<1>2. Informed(t)'
  BY <1>1 DEF Informed, At, Idle, Targeting
<1> QED
  BY <1>1, <1>2, MacKeptMove

LEMMA MacGoto ==
    ASSUME TypeInv, MacInv, AddressesKept, ClientsKept, NEW t \in Threads,
           NEW step \in Steps \ (Targeting \cup {"enable", "save"}),
           ~At(t, "idle") \/ t = Main, Goto(t, step)
    PROVE  MacInv'
<1>1. /\ frame' = [frame EXCEPT ![t] = [frame[t] EXCEPT !.step = step]]
      /\ frame'[t].step = step
  BY DEF Goto, TypeInv, TypeOK, Frame
<1>2. halFaults = 0 => Informed(t)'
  BY <1>1, ConnectionAssumption DEF MacInv, Informed, At, AddressesKept
<1> QED
  BY <1>1, <1>2, MacKeptMove

LEMMA MacTarget ==
    ASSUME TypeInv, MacInv, AddressesKept, ClientsKept, NEW t \in Threads,
           frame[t].step \in Targeting, NEW step \in Targeting, Goto(t, step)
    PROVE  MacInv'
<1>1. /\ frame' = [frame EXCEPT ![t] = [frame[t] EXCEPT !.step = step]]
      /\ frame'[t].step = step /\ frame'[t].mgr = frame[t].mgr
  BY DEF Goto, TypeInv, TypeOK, Frame
<1>2. halFaults = 0 => Informed(t)'
  BY <1>1 DEF MacInv, Informed, At, AddressesKept, Targeting
<1> QED
  BY <1>1, <1>2, MacKeptMove

LEMMA MacDeath == ProcessDies => MacInv'
  BY DEF ProcessDies, MacInv, ClientInformed, Informed, Closed, Idle, At, Targeting

LEMMA MacThreadStep ==
    ASSUME TypeInv, MacInv, NEW t \in Threads, ThreadStep(t)
    PROVE  MacInv'
<1>1. CASE GetMAC(t)
  <2>1. AddressesKept /\ ClientsKept /\ ~At(t, "idle")
    BY <1>1 DEF GetMAC, AddressesKept, ClientsKept, At, halVars, counters, managerVars, stackVars
  <2>2. CASE Finish(t)
    BY <2>1, <2>2, MacFinish
  <2>3. CASE frame' = [frame EXCEPT ![t].addr = mac, ![t].step = "enable"]
    <3>1. /\ frame' = [frame EXCEPT ![t] = [frame[t] EXCEPT !.addr = mac, !.step = "enable"]]
          /\ frame'[t].step = "enable" /\ frame'[t].addr = mac
      BY <2>3 DEF TypeInv, TypeOK, Frame
    <3>2. halFaults = 0 => Informed(t)'
      BY <2>1, <3>1 DEF MacInv, Informed, At, AddressesKept, Targeting
    <3> QED
      BY <2>1, <3>1, <3>2, MacKeptMove
  <2> QED
    BY <1>1, <2>2, <2>3 DEF GetMAC
<1>2. CASE Enable(t)
  <2>1. SUFFICES ASSUME halFaults' = 0
                 PROVE  (\A g \in Gatts : ClientInformed(g)') /\ (\A u \in Threads : Informed(u)')
    BY DEF MacInv
  <2>2. /\ halFaults = 0 /\ At(t, "enable") /\ UNCHANGED <<mac, client>>
        /\ frame[t].mgr \in Managers
        /\ mCurBleSpenAddr' = [mCurBleSpenAddr EXCEPT ![frame[t].mgr] = frame[t].addr]
        /\ mCurBleSpenAddr \in [Managers -> Value]
        /\ Goto(t, IF frame[t].addr = NoAddr THEN "reset" ELSE "startCharging")
    BY <1>2, <2>1 DEF Enable, TypeInv, TypeOK, FrameOK, Sound, At, halVars, counters
  <2>3. frame[t].addr = NoAddr <=> mac = NoAddr
    BY <2>2 DEF MacInv, Informed
  <2>4. ASSUME NEW g \in Gatts PROVE ClientInformed(g)'
    BY <2>2, <2>3 DEF MacInv, ClientInformed, TypeInv, ClientOK
  <2>5. ASSUME NEW u \in Threads, u # t PROVE Informed(u)'
    <3>1. frame'[u] = frame[u]
      BY <2>2, <2>5 DEF Goto, TypeInv, TypeOK
    <3>2. frame[u].step \in Targeting => frame[u].mgr \in Managers
      BY DEF TypeInv, FrameOK, Sound, Targeting
    <3> QED
      BY <2>2, <2>3, <3>1, <3>2 DEF MacInv, Informed, At
  <2>6. Informed(t)'
    <3>1. /\ frame'[t].step = IF frame[t].addr = NoAddr THEN "reset" ELSE "startCharging"
          /\ frame'[t].mgr = frame[t].mgr
      BY <2>2 DEF Goto, TypeInv, TypeOK, Frame
    <3> QED
      BY <2>2, <2>3, <3>1 DEF MacInv, Informed, At, Targeting
  <2> QED
    BY <2>4, <2>5, <2>6
<1>3. CASE StartCharging(t)
  <2>1. AddressesKept /\ ClientsKept
    BY <1>3 DEF StartCharging, AddressesKept, ClientsKept, counters, stackVars
  <2>2. frame[t].step \in Targeting /\ (Goto(t, "check") \/ Finish(t))
    BY <1>3 DEF StartCharging, At, Targeting
  <2> QED
    BY <2>1, <2>2, MacTarget, MacFinish DEF Targeting
<1>4. CASE Check(t)
  <2>1. AddressesKept /\ ClientsKept
    BY <1>4 DEF Check, AddressesKept, ClientsKept, halVars, counters, managerVars, stackVars
  <2>2. frame[t].step \in Targeting /\ (Goto(t, "connectGatt") \/ Finish(t))
    BY <1>4 DEF Check, At, Targeting
  <2> QED
    BY <2>1, <2>2, MacTarget, MacFinish DEF Targeting
<1>5. CASE ConnectGatt(t)
  <2>1. AddressesKept /\ frame[t].step = "connectGatt" /\ client \in [Gatts -> Client]
    BY <1>5 DEF ConnectGatt, AddressesKept, At, halVars, counters, managerVars, TypeInv, TypeOK
  <2>2. PICK g \in Gatts \cup {None} :
           frame' = [frame EXCEPT ![t] = [frame[t] EXCEPT !.gatt = g, !.step = "assign"]]
    BY <1>5 DEF ConnectGatt
  <2>3. frame'[t].step = "assign" /\ frame'[t].mgr = frame[t].mgr
    BY <2>2 DEF TypeInv, TypeOK, Frame
  <2>4. ASSUME NEW u \in Threads, halFaults = 0 PROVE Informed(u)'
    <3>1. CASE u = t
      BY <2>1, <2>3, <2>4, <3>1 DEF MacInv, Informed, At, AddressesKept, Targeting
    <3>2. CASE u # t
      <4>1. frame'[u] = frame[u]
        BY <2>2, <3>2 DEF TypeInv, TypeOK
      <4> QED
        BY <2>1, <2>4, <4>1 DEF MacInv, Informed, At, AddressesKept
    <3> QED
      BY <3>1, <3>2
  <2>5. ASSUME NEW h \in Gatts, halFaults = 0 PROVE ClientInformed(h)'
    <3>1. mac # NoAddr /\ mCurBleSpenAddr[frame[t].mgr] # NoAddr
      BY <2>1, <2>5 DEF MacInv, Informed, Targeting
    <3>2. client'[h] = client[h] \/ client'[h].mgr = frame[t].mgr
      <4>1. CASE UNCHANGED client
        BY <4>1
      <4>2. ASSUME NEW g2 \in Gatts,
                   client' = [client EXCEPT ![g2] =
                       [state |-> "connecting", addr |-> mSpen[frame[t].mgr],
                        mgr |-> frame[t].mgr, events |-> <<>>]]
            PROVE  client'[h] = client[h] \/ client'[h].mgr = frame[t].mgr
        BY <2>1, <4>2
      <4> QED
        BY <1>5, <4>1, <4>2 DEF ConnectGatt
    <3> QED
      BY <2>1, <2>5, <3>1, <3>2 DEF MacInv, ClientInformed, AddressesKept
  <2> QED
    BY <2>1, <2>4, <2>5 DEF MacInv, AddressesKept
<1>6. CASE Assign(t)
  <2>1. AddressesKept /\ ClientsKept /\ Finish(t)
    BY <1>6 DEF Assign, AddressesKept, ClientsKept, halVars, counters, stackVars
  <2> QED
    BY <2>1, MacFinish
<1>7. CASE Reset(t)
  <2>1. AddressesKept /\ ClientsKept /\ ~At(t, "idle")
    BY <1>7 DEF Reset, AddressesKept, ClientsKept, At, counters, managerVars, stackVars
  <2>2. Goto(t, "toggleOff") \/ Finish(t)
    BY <1>7 DEF Reset
  <2> QED
    BY <2>1, <2>2, MacGoto, MacFinish DEF Steps, Targeting
<1>8. CASE Toggle(t)
  <2>1. AddressesKept /\ ClientsKept /\ ~At(t, "idle")
    BY <1>8 DEF Toggle, AddressesKept, ClientsKept, At, counters, managerVars, stackVars
  <2>2. Goto(t, "toggleOn") \/ Goto(t, "startScan")
    BY <1>8 DEF Toggle
  <2> QED
    BY <2>1, <2>2, MacGoto DEF Steps, Targeting
<1>9. CASE StartScan(t)
  <2>1. CASE ProcessDies
    BY <2>1, MacDeath
  <2>2. CASE Finish(t) /\ AddressesKept /\ ClientsKept
    BY <2>2, MacFinish
  <2> QED
    BY <1>9, <2>1, <2>2 DEF StartScan, AddressesKept, ClientsKept, halVars, counters,
                            managerVars, stackVars
<1> QED
  BY <1>1, <1>2, <1>3, <1>4, <1>5, <1>6, <1>7, <1>8, <1>9 DEF ThreadStep

LEMMA MacMainStep == TypeInv /\ MacInv /\ MainStep => MacInv'
<1> SUFFICES ASSUME TypeInv, MacInv, MainStep PROVE MacInv'
  OBVIOUS
<1>1. Main \in Threads
  BY DEF Threads
<1>2. CASE Receive
  <2>1. AddressesKept /\ ClientsKept
    BY <1>2 DEF Receive, AddressesKept, ClientsKept, halVars, counters, managerVars, stackVars
  <2>2. CASE UNCHANGED frame
    BY <2>1, <2>2, MacKeptIdle
  <2>3. ASSUME NEW f, f.step = "gattDisconnect", frame' = [frame EXCEPT ![Main] = f]
        PROVE  MacInv'
    <3>1. frame'[Main].step = "gattDisconnect"
      BY <1>1, <2>3 DEF TypeInv, TypeOK
    <3>2. Informed(Main)'
      BY <3>1, ConnectionAssumption DEF Informed, At, Targeting
    <3> QED
      BY <1>1, <2>1, <2>3, <3>2, MacKeptMove
  <2> QED
    BY <1>2, <2>2, <2>3 DEF Receive, Idle
<1>3. CASE GattDisconnect(Main)
  <2>1. AddressesKept /\ ClientsKept /\ ~At(Main, "idle")
    <3>1. AddressesKept /\ ~At(Main, "idle")
      BY <1>3 DEF GattDisconnect, AddressesKept, At, halVars, counters, managerVars
    <3>2. CASE UNCHANGED client
      BY <3>1, <3>2 DEF ClientsKept
    <3>3. ASSUME NEW g, client[g].state = "connected",
                 client' = [client EXCEPT ![g].state = "closing"]
          PROVE  ClientsKept
      BY <3>3 DEF ClientsKept, TypeInv, TypeOK, Client
    <3> QED
      BY <1>3, <3>1, <3>2, <3>3 DEF GattDisconnect
  <2>2. Goto(Main, "stopCharging") \/ Goto(Main, "gattClose")
    BY <1>3 DEF GattDisconnect
  <2> QED
    BY <1>1, <2>1, <2>2, MacGoto DEF Steps, Targeting
<1>4. CASE GattClose(Main)
  <2>1. CASE ProcessDies
    BY <2>1, MacDeath
  <2>2. ASSUME NEW g, Close(g), Goto(Main, "stopCharging"), AddressesKept, ~At(Main, "idle")
        PROVE  MacInv'
    <3>1. ClientsKept
      BY <2>2 DEF Close, ClientsKept, TypeInv, TypeOK, Closed
    <3> QED
      BY <1>1, <2>2, <3>1, MacGoto DEF Steps, Targeting
  <2> QED
    BY <1>4, <2>1, <2>2 DEF GattClose, AddressesKept, At, halVars, counters, managerVars
<1>5. CASE StopCharging(Main)
  <2>1. AddressesKept /\ ClientsKept /\ ~At(Main, "idle")
    BY <1>5 DEF StopCharging, AddressesKept, ClientsKept, At, counters, managerVars, stackVars
  <2>2. Goto(Main, "getMAC") \/ Finish(Main)
    BY <1>5 DEF StopCharging
  <2> QED
    BY <1>1, <2>1, <2>2, MacGoto, MacFinish DEF Steps, Targeting
<1>6. CASE ThreadStep(Main)
  BY <1>1, <1>6, MacThreadStep
<1>7. ASSUME NEW s \in Scans, ScanResult(s)
      PROVE  MacInv'
  <2>1. CASE ProcessDies
    BY <2>1, MacDeath
  <2>2. CASE UNCHANGED <<client, mCurBleSpenAddr, frame, halFaults>>
    <3>1. At(Main, "idle") /\ (UNCHANGED mac \/ mac' # NoAddr)
      BY <1>7, FoundPens, ConnectionAssumption DEF ScanResult
    <3>2. SUFFICES ASSUME halFaults = 0
                   PROVE  (\A g \in Gatts : ClientInformed(g)') /\ (\A u \in Threads : Informed(u)')
      BY <2>2 DEF MacInv
    <3>3. ASSUME NEW g \in Gatts PROVE ClientInformed(g)'
      BY <2>2, <3>1, <3>2 DEF MacInv, ClientInformed
    <3>4. ASSUME NEW u \in Threads PROVE Informed(u)'
      BY <2>2, <3>1, <3>2 DEF MacInv, Informed, At, Threads, Targeting
    <3> QED
      BY <3>3, <3>4
  <2> QED
    BY <1>7, <2>1, <2>2 DEF ScanResult, stackVars, managerVars, counters
<1> QED
  BY <1>2, <1>3, <1>4, <1>5, <1>6, <1>7 DEF MainStep


LEMMA MacCallbackStep ==
    ASSUME TypeInv, MacInv, NEW g \in Gatts, CallbackStep(g)
    PROVE  MacInv'
<1>1. g \in Threads
  BY DEF Threads
<1>2. CASE Connected(g)
  <2>1. AddressesKept /\ client[g].events # <<>>
    BY <1>2 DEF Connected, AddressesKept, halVars, counters, managerVars
  <2>2. client[g].state # "closed"
    BY <2>1 DEF TypeInv, ClientOK, Closed
  <2>3. ClientsKept
    BY <1>2 DEF Connected, ClientsKept, TypeInv, TypeOK, Client
  <2> DEFINE f == [Idle EXCEPT !.step = "save", !.mgr = client[g].mgr,
                               !.addr = mCurBleSpenAddr[client[g].mgr]]
  <2>4. frame' = [frame EXCEPT ![g] = f]
    BY <1>2 DEF Connected
  <2>5. frame'[g].step = "save" /\ frame'[g].addr = mCurBleSpenAddr[client[g].mgr]
    BY <1>1, <2>4 DEF TypeInv, TypeOK, Idle
  <2>6. halFaults = 0 => Informed(g)'
    BY <2>1, <2>2, <2>5 DEF MacInv, ClientInformed, Informed, At, AddressesKept, Targeting
  <2> HIDE DEF f
  <2> QED
    BY <1>1, <2>1, <2>3, <2>4, <2>6, MacKeptMove
<1>3. CASE Disconnected(g)
  <2>1. AddressesKept /\ client[g].events # <<>>
    BY <1>3 DEF Disconnected, AddressesKept, halVars, counters, managerVars
  <2>2. client[g].state # "closed"
    BY <2>1 DEF TypeInv, ClientOK, Closed
  <2>3. ClientsKept
    BY <1>3 DEF Disconnected, Close, ClientsKept, TypeInv, TypeOK, Closed
  <2> DEFINE f == [Idle EXCEPT !.step = "getMAC", !.mgr = client[g].mgr]
  <2>4. frame' = [frame EXCEPT ![g] = f]
    BY <1>3 DEF Disconnected
  <2>5. frame'[g].step = "getMAC"
    BY <1>1, <2>4 DEF TypeInv, TypeOK, Idle
  <2>6. halFaults = 0 => Informed(g)'
    BY <2>1, <2>2, <2>5 DEF MacInv, ClientInformed, Informed, At, AddressesKept, Targeting
  <2> HIDE DEF f
  <2> QED
    BY <1>1, <2>1, <2>3, <2>4, <2>6, MacKeptMove
<1>4. CASE Save(g)
  <2>1. /\ UNCHANGED <<client, mCurBleSpenAddr, halFaults>> /\ Finish(g) /\ At(g, "save")
        /\ mac' = mac \/ mac' = frame[g].addr
    BY <1>4 DEF Save, stackVars, managerVars, counters
  <2>2. SUFFICES ASSUME halFaults = 0
                 PROVE  (\A h \in Gatts : ClientInformed(h)') /\ (\A u \in Threads : Informed(u)')
    BY <2>1 DEF MacInv
  <2>3. mac # NoAddr /\ mac' # NoAddr
    BY <1>1, <2>1, <2>2 DEF MacInv, Informed, At
  <2>4. ASSUME NEW h \in Gatts PROVE ClientInformed(h)'
    BY <2>1, <2>2, <2>3 DEF MacInv, ClientInformed
  <2>5. ASSUME NEW u \in Threads PROVE Informed(u)'
    <3>1. frame'[u] = frame[u] \/ frame'[u] = Idle
      BY <2>1 DEF Finish, TypeInv, TypeOK
    <3> QED
      BY <2>1, <2>2, <2>3, <3>1 DEF MacInv, Informed, At, Idle, Targeting
  <2> QED
    BY <2>4, <2>5
<1>5. CASE ThreadStep(g)
  BY <1>1, <1>5, MacThreadStep
<1> QED
  BY <1>2, <1>3, <1>4, <1>5 DEF CallbackStep

LEMMA LoseKeepsClients ==
    ASSUME TypeInv, NEW gs \in SUBSET Gatts, \A g \in gs : client[g].state # "closed", Lose(gs)
    PROVE  ClientsKept
  BY DEF ClientsKept, Lose, TypeInv, TypeOK, Client

LEMMA MacEnvironment == TypeInv /\ MacInv /\ Environment => MacInv'
<1> SUFFICES ASSUME TypeInv, MacInv, Environment PROVE MacInv'
  OBVIOUS
<1>1. CASE ClickReset
  <2>1. AddressesKept /\ ClientsKept /\ Goto(Main, "reset") /\ Main \in Threads
    BY <1>1 DEF ClickReset, AddressesKept, ClientsKept, stackVars, managerVars, halVars, Threads
  <2> QED
    BY <2>1, MacGoto DEF Steps, Targeting
<1>2. CASE HalDies
  <2>1. halFaults' # 0
    BY <1>2 DEF HalDies, TypeInv, TypeOK
  <2> QED
    BY <2>1 DEF MacInv
<1>3. ASSUME NEW s \in Scans, ScanTimeout(s)
      PROVE  MacInv'
  <2>1. CASE ProcessDies
    BY <2>1, MacDeath
  <2>2. CASE UNCHANGED <<stackVars, managerVars, frame, halVars, counters>>
    BY <2>2, MacKeptIdle DEF AddressesKept, ClientsKept, stackVars, managerVars, halVars, counters
  <2> QED
    BY <1>3, <2>1, <2>2 DEF ScanTimeout
<1>4. CASE /\ UNCHANGED frame /\ AddressesKept /\ ClientsKept
  BY <1>4, MacKeptIdle
<1>5. ASSUME NEW m \in Managers, StartService(m)
      PROVE  UNCHANGED frame /\ AddressesKept /\ ClientsKept
  BY <1>5 DEF StartService, AddressesKept, ClientsKept, stackVars
<1>6. TogglePreference => UNCHANGED frame /\ AddressesKept /\ ClientsKept
  BY DEF TogglePreference, AddressesKept, ClientsKept, stackVars, managerVars, halVars
<1>7. ASSUME NEW s \in Scans, PenFound(s)
      PROVE  UNCHANGED frame /\ AddressesKept /\ ClientsKept
  BY <1>7 DEF PenFound, AddressesKept, ClientsKept, stackVars, managerVars, halVars, counters
<1>8. ASSUME NEW g \in Gatts, LinkUp(g)
      PROVE  UNCHANGED frame /\ AddressesKept /\ ClientsKept
  BY <1>8 DEF LinkUp, AddressesKept, ClientsKept, managerVars, halVars, counters,
              TypeInv, TypeOK, Client
<1>9. ASSUME NEW g \in Gatts, ConnectFails(g) \/ DisconnectDone(g)
      PROVE  UNCHANGED frame /\ AddressesKept /\ ClientsKept
  <2>1. Lose({g}) /\ client[g].state # "closed"
    BY <1>9 DEF ConnectFails, DisconnectDone
  <2> QED
    BY <1>9, <2>1, LoseKeepsClients DEF ConnectFails, DisconnectDone, AddressesKept,
                                        managerVars, halVars
<1>10. ASSUME NEW a \in Addrs, LinkDrop(a)
       PROVE  UNCHANGED frame /\ AddressesKept /\ ClientsKept
  BY <1>10, LoseKeepsClients DEF LinkDrop, Has, HasLink, AddressesKept, managerVars, halVars
<1>11. ASSUME NEW a \in Addrs, LinkGone(a)
       PROVE  UNCHANGED frame /\ AddressesKept /\ ClientsKept
  BY <1>11 DEF LinkGone, AddressesKept, ClientsKept, managerVars, halVars, counters
<1>12. UserSwitch \/ BtUp => UNCHANGED frame /\ AddressesKept /\ ClientsKept
  BY DEF UserSwitch, BtUp, AddressesKept, ClientsKept, managerVars, halVars, counters
<1>13. BtDown => UNCHANGED frame /\ AddressesKept /\ ClientsKept
  BY DEF BtDown, AddressesKept, ClientsKept, managerVars, halVars, counters, TypeInv, TypeOK,
         Client, Open
<1> QED
  BY <1>1, <1>2, <1>3, <1>4, <1>5, <1>6, <1>7, <1>8, <1>9, <1>10, <1>11, <1>12, <1>13
     DEF Environment

LEMMA NextMacInv == TypeInv /\ MacInv /\ [Next]_vars => MacInv'
<1> SUFFICES ASSUME TypeInv, MacInv, [Next]_vars PROVE MacInv'
  OBVIOUS
<1>1. CASE UNCHANGED vars
  BY <1>1, MacKeptIdle DEF vars, AddressesKept, ClientsKept
<1> QED
  BY <1>1, MacMainStep, MacCallbackStep, MacEnvironment DEF Next

LEMMA MacInvHolds == Spec => []MacInv
<1>1. TypeInv /\ MacInv /\ [Next]_vars => MacInv'
  BY NextMacInv
<1> QED
  BY InitMacInv, TypesHold, <1>1, PTL DEF Spec

\* A step that changes the address stores one that is not the default.
LEMMA MacStep == TypeInv /\ MacInv /\ [Next]_vars => [halFaults' = 0 /\ mac # NoAddr => mac' # NoAddr]_vars
<1> SUFFICES ASSUME TypeInv, MacInv, Next, halFaults' = 0, mac # NoAddr PROVE mac' # NoAddr
  OBVIOUS
<1>1. mac' = mac \/ (\E s \in Scans : ScanResult(s)) \/ (\E g \in Gatts : Save(g)) \/ HalDies
  <2>1. ASSUME NEW t \in Threads, ThreadStep(t) PROVE mac' = mac
    BY <2>1 DEF ThreadStep, GetMAC, Enable, StartCharging, Check, ConnectGatt, Assign, Reset,
                Toggle, StartScan, halVars
  <2>2. MainStep => mac' = mac \/ \E s \in Scans : ScanResult(s)
    BY <2>1 DEF MainStep, Receive, GattDisconnect, GattClose, StopCharging, halVars, Threads
  <2>3. ASSUME NEW g \in Gatts, CallbackStep(g) PROVE mac' = mac \/ Save(g)
    BY <2>1, <2>3 DEF CallbackStep, Connected, Disconnected, halVars, Threads
  <2>4. Environment => mac' = mac \/ HalDies
    BY DEF Environment, StartService, TogglePreference, ClickReset, ScanTimeout, PenFound, LinkUp,
           ConnectFails, DisconnectDone, LinkDrop, LinkGone, UserSwitch, BtDown, BtUp, halVars
  <2> QED
    BY <2>2, <2>3, <2>4 DEF Next
<1>2. ASSUME NEW s \in Scans, ScanResult(s) PROVE mac' # NoAddr
  <2>1. mac # NoAddr /\ NoAddr \notin Addrs
    BY ConnectionAssumption
  <2> QED
    BY <1>2, <2>1, FoundPens DEF ScanResult
<1>3. ASSUME NEW g \in Gatts, Save(g) PROVE mac' # NoAddr
  <2>1. halFaults = 0 /\ g \in Threads /\ At(g, "save")
    BY <1>3 DEF Save, counters, Threads
  <2> QED
    BY <1>3, <2>1 DEF MacInv, Informed, Save
<1>4. ~HalDies
  BY DEF HalDies, TypeInv, TypeOK
<1> QED
  BY <1>1, <1>2, <1>3, <1>4

\* Unless the HAL dies, no order of callbacks, broadcasts and scan results
\* makes the app store the default address over the address of a pen.
THEOREM MacIsNeverLost == Spec => MacNeverLost
<1>1. TypeInv /\ MacInv /\ [Next]_vars => [halFaults' = 0 /\ mac # NoAddr => mac' # NoAddr]_vars
  BY MacStep
<1> QED
  BY TypesHold, MacInvHolds, <1>1, PTL DEF Spec, MacNeverLost

-----------------------------------------------------------------------------
(* The app does not die while the adapter stays on                         *)

\* A callback empties mGatt only where connectGatt had no stack to ask, and the
\* main thread has seen a client before it closes it.
AliveInv ==
    ~wentOff =>
        /\ bt = "on"
        /\ \A t \in Threads : At(t, "assign") => frame[t].gatt # None
        /\ At(Main, "gattClose") => mGatt[frame[Main].mgr] # None

LEMMA InitAliveInv == Init => AliveInv
<1>1. Init /\ ~wentOff => bt = "on"
  BY DEF Init
<1>2. Init => \A t \in Threads : frame[t].step = "idle"
  BY DEF Init, Idle
<1> QED
  BY <1>1, <1>2 DEF AliveInv, At, Threads

\* Steps that change neither what a manager remembers nor who is about to use it.
LEMMA AliveKept ==
    ASSUME AliveInv, wentOff' = wentOff, bt = "on" => bt' = "on", UNCHANGED mGatt,
           \A t \in Threads : frame'[t] = frame[t] \/ ~(frame'[t].step \in {"assign", "gattClose"})
    PROVE  AliveInv'
  BY DEF AliveInv, At, Threads

LEMMA AliveGoto ==
    ASSUME TypeInv, AliveInv, wentOff' = wentOff, bt = "on" => bt' = "on", UNCHANGED mGatt,
           NEW t \in Threads, NEW step \in Steps \ {"assign", "gattClose"},
           Goto(t, step) \/ Finish(t)
    PROVE  AliveInv'
<1>1. frame \in [Threads -> Frame]
  BY DEF TypeInv, TypeOK
<1>2. \A u \in Threads : frame'[u] = frame[u] \/ ~(frame'[u].step \in {"assign", "gattClose"})
  <2> SUFFICES ASSUME NEW u \in Threads
               PROVE  frame'[u] = frame[u] \/ ~(frame'[u].step \in {"assign", "gattClose"})
    OBVIOUS
  <2>1. CASE u # t
    BY <1>1, <2>1 DEF Goto, Finish
  <2>2. CASE u = t
    BY <1>1, <2>2 DEF Goto, Finish, Frame, Idle
  <2> QED
    BY <2>1, <2>2
<1> QED
  BY <1>2, AliveKept

LEMMA AliveDeath == AliveInv /\ ProcessDies => AliveInv'
  BY DEF AliveInv, ProcessDies, At, Idle, Threads

LEMMA AliveThreadStep ==
    ASSUME TypeInv, AliveInv, NEW t \in Threads, ThreadStep(t)
    PROVE  AliveInv'
<1>1. CASE GetMAC(t)
  <2>1. UNCHANGED <<wentOff, bt, mGatt>>
    BY <1>1 DEF GetMAC, history, stackVars, managerVars
  <2>2. CASE Finish(t)
    BY <2>1, <2>2, AliveGoto DEF Steps
  <2>3. CASE frame' = [frame EXCEPT ![t].addr = mac, ![t].step = "enable"]
    <3>1. \A u \in Threads : frame'[u] = frame[u] \/ frame'[u].step = "enable"
      BY <2>3 DEF TypeInv, TypeOK, Frame
    <3> QED
      BY <2>1, <3>1, AliveKept
  <2> QED
    BY <1>1, <2>2, <2>3 DEF GetMAC
<1>2. CASE Enable(t)
  <2>1. UNCHANGED <<wentOff, mGatt>> /\ (bt = "on" => bt' = "on")
    BY <1>2 DEF Enable, history
  <2>2. Goto(t, "reset") \/ Goto(t, "startCharging")
    BY <1>2 DEF Enable
  <2> QED
    BY <2>1, <2>2, AliveGoto DEF Steps
<1>3. CASE StartCharging(t)
  <2>1. UNCHANGED <<wentOff, bt, mGatt>> /\ (Goto(t, "check") \/ Finish(t))
    BY <1>3 DEF StartCharging, history, stackVars
  <2> QED
    BY <2>1, AliveGoto DEF Steps
<1>4. CASE Check(t)
  <2>1. UNCHANGED <<wentOff, bt, mGatt>> /\ (Goto(t, "connectGatt") \/ Finish(t))
    BY <1>4 DEF Check, history, stackVars, managerVars
  <2> QED
    BY <2>1, AliveGoto DEF Steps
<1>5. CASE ConnectGatt(t)
  <2>1. UNCHANGED <<wentOff, bt, mGatt>>
    BY <1>5 DEF ConnectGatt, history, managerVars
  <2>2. PICK g \in Gatts \cup {None} :
           /\ frame' = [frame EXCEPT ![t] = [frame[t] EXCEPT !.gatt = g, !.step = "assign"]]
           /\ bt = "on" => g # None
    <3>1. ASSUME NEW g \in Gatts PROVE g # None
      BY ConnectionAssumption
    <3> QED
      BY <1>5, <3>1 DEF ConnectGatt
  <2>3. \A u \in Threads : frame'[u] = frame[u] \/ (frame'[u].step = "assign" /\ frame'[u].gatt = g)
    BY <2>2 DEF TypeInv, TypeOK, Frame
  <2> QED
    BY <2>1, <2>2, <2>3 DEF AliveInv, At, Threads
<1>6. CASE Assign(t)
  <2>1. UNCHANGED <<wentOff, bt>> /\ mGatt \in [Managers -> Gatts \cup {None}]
        /\ mGatt' = [mGatt EXCEPT ![frame[t].mgr] = frame[t].gatt]
        /\ At(t, "assign")
    BY <1>6 DEF Assign, history, stackVars, TypeInv, TypeOK
  <2>2. \A u \in Threads : frame'[u] = frame[u] \/ frame'[u] = Idle
    BY <1>6 DEF Assign, Finish, TypeInv, TypeOK
  <2>3. At(Main, "gattClose") => frame[Main].mgr \in Managers
    BY DEF TypeInv, FrameOK, Sound, At, Threads
  <2> QED
    BY <2>1, <2>2, <2>3 DEF AliveInv, At, Threads, Idle
<1>7. CASE Reset(t)
  <2>1. UNCHANGED <<wentOff, bt, mGatt>> /\ (Goto(t, "toggleOff") \/ Finish(t))
    BY <1>7 DEF Reset, history, stackVars, managerVars
  <2> QED
    BY <2>1, AliveGoto DEF Steps
<1>8. CASE Toggle(t)
  <2>1. UNCHANGED <<wentOff, bt, mGatt>> /\ (Goto(t, "toggleOn") \/ Goto(t, "startScan"))
    BY <1>8 DEF Toggle, history, stackVars, managerVars
  <2> QED
    BY <2>1, AliveGoto DEF Steps
<1>9. CASE StartScan(t)
  <2>1. CASE ProcessDies
    BY <2>1, AliveDeath
  <2>2. CASE UNCHANGED <<wentOff, bt, mGatt>> /\ Finish(t)
    BY <2>2, AliveGoto DEF Steps
  <2> QED
    BY <1>9, <2>1, <2>2 DEF StartScan, history, stackVars, managerVars
<1> QED
  BY <1>1, <1>2, <1>3, <1>4, <1>5, <1>6, <1>7, <1>8, <1>9 DEF ThreadStep

LEMMA AliveMainStep == TypeInv /\ AliveInv /\ MainStep => AliveInv'
<1> SUFFICES ASSUME TypeInv, AliveInv, MainStep PROVE AliveInv'
  OBVIOUS
<1>1. Main \in Threads
  BY DEF Threads
<1>2. CASE Receive
  <2>1. UNCHANGED <<wentOff, bt, mGatt>>
    BY <1>2 DEF Receive, history, stackVars, managerVars
  <2>2. \A u \in Threads : frame'[u] = frame[u] \/ frame'[u].step = "gattDisconnect"
    BY <1>2 DEF Receive, TypeInv, TypeOK, Idle
  <2> QED
    BY <2>1, <2>2, AliveKept
<1>3. CASE GattDisconnect(Main)
  <2>1. UNCHANGED <<wentOff, bt, mGatt>>
    BY <1>3 DEF GattDisconnect, history, managerVars
  <2>2. CASE Goto(Main, "stopCharging")
    BY <1>1, <2>1, <2>2, AliveGoto DEF Steps
  <2>3. CASE Goto(Main, "gattClose") /\ mGatt[frame[Main].mgr] # None
    <3>1. /\ frame'[Main].mgr = frame[Main].mgr
          /\ \A u \in Threads : frame'[u] = frame[u] \/ frame'[u].step = "gattClose"
      BY <1>1, <2>3 DEF Goto, TypeInv, TypeOK, Frame
    <3> QED
      BY <2>1, <2>3, <3>1 DEF AliveInv, At, Threads
  <2> QED
    BY <1>3, <2>2, <2>3 DEF GattDisconnect
<1>4. CASE GattClose(Main)
  <2>1. CASE ProcessDies
    BY <2>1, AliveDeath
  <2>2. CASE UNCHANGED <<wentOff, bt, mGatt>> /\ Goto(Main, "stopCharging")
    BY <1>1, <2>2, AliveGoto DEF Steps
  <2> QED
    BY <1>4, <2>1, <2>2 DEF GattClose, history, managerVars
<1>5. CASE StopCharging(Main)
  <2>1. UNCHANGED <<wentOff, bt, mGatt>> /\ (Goto(Main, "getMAC") \/ Finish(Main))
    BY <1>5 DEF StopCharging, history, stackVars, managerVars
  <2> QED
    BY <1>1, <2>1, AliveGoto DEF Steps
<1>6. CASE ThreadStep(Main)
  BY <1>1, <1>6, AliveThreadStep
<1>7. ASSUME NEW s \in Scans, ScanResult(s)
      PROVE  AliveInv'
  <2>1. CASE ProcessDies
    BY <2>1, AliveDeath
  <2>2. CASE UNCHANGED <<wentOff, bt, mGatt, frame>>
    BY <2>2, AliveKept
  <2> QED
    BY <1>7, <2>1, <2>2 DEF ScanResult, stackVars, managerVars
<1> QED
  BY <1>2, <1>3, <1>4, <1>5, <1>6, <1>7 DEF MainStep

LEMMA AliveCallbackStep ==
    ASSUME TypeInv, AliveInv, NEW g \in Gatts, CallbackStep(g)
    PROVE  AliveInv'
<1>1. CASE ThreadStep(g)
  BY <1>1, AliveThreadStep DEF Threads
<1>2. CASE Connected(g) \/ Save(g) \/ Disconnected(g)
  <2>1. UNCHANGED <<wentOff, bt, mGatt>>
    BY <1>2 DEF Connected, Save, Disconnected, history, stackVars, managerVars
  <2>2. \A u \in Threads : frame'[u] = frame[u] \/ frame'[u].step \in {"save", "getMAC", "idle"}
    <3>1. frame \in [Threads -> Frame]
      BY DEF TypeInv, TypeOK
    <3>2. CASE Connected(g)
      BY <3>1, <3>2 DEF Connected, Idle
    <3>3. CASE Save(g)
      BY <3>1, <3>3 DEF Save, Finish, Idle
    <3>4. CASE Disconnected(g)
      BY <3>1, <3>4 DEF Disconnected, Idle
    <3> QED
      BY <1>2, <3>2, <3>3, <3>4
  <2> QED
    BY <2>1, <2>2, AliveKept
<1> QED
  BY <1>1, <1>2 DEF CallbackStep

LEMMA AliveEnvironment == TypeInv /\ AliveInv /\ Environment => AliveInv'
<1> SUFFICES ASSUME TypeInv, AliveInv, Environment PROVE AliveInv'
  OBVIOUS
<1>1. CASE ClickReset
  <2>1. UNCHANGED <<wentOff, bt, mGatt>> /\ Goto(Main, "reset") /\ Main \in Threads
    BY <1>1 DEF ClickReset, history, stackVars, managerVars, Threads
  <2> QED
    BY <2>1, AliveGoto DEF Steps
<1>2. ASSUME NEW s \in Scans, ScanTimeout(s)
      PROVE  AliveInv'
  <2>1. CASE ProcessDies
    BY <2>1, AliveDeath
  <2>2. CASE UNCHANGED <<wentOff, bt, mGatt, frame>>
    BY <2>2, AliveKept
  <2> QED
    BY <1>2, <2>1, <2>2 DEF ScanTimeout, stackVars, managerVars, history
<1>3. CASE UserSwitch \/ BtDown \/ BtUp
  <2>1. wentOff' \/ (wentOff' = wentOff /\ bt # "on")
    BY <1>3 DEF UserSwitch, BtDown, BtUp, history
  <2> QED
    BY <2>1 DEF AliveInv
<1>4. CASE UNCHANGED <<wentOff, bt, mGatt, frame>>
  BY <1>4, AliveKept
<1>5. TogglePreference => UNCHANGED <<wentOff, bt, mGatt, frame>>
  BY DEF TogglePreference, history, stackVars, managerVars
<1>6. HalDies => UNCHANGED <<wentOff, bt, mGatt, frame>>
  BY DEF HalDies, history, stackVars, managerVars
<1>7. ASSUME NEW m \in Managers, StartService(m)
      PROVE  UNCHANGED <<wentOff, bt, mGatt, frame>>
  BY <1>7 DEF StartService, history, stackVars
<1>8. ASSUME NEW s \in Scans, PenFound(s)
      PROVE  UNCHANGED <<wentOff, bt, mGatt, frame>>
  BY <1>8 DEF PenFound, history, stackVars, managerVars
<1>9. ASSUME NEW g \in Gatts, LinkUp(g) \/ ConnectFails(g) \/ DisconnectDone(g)
      PROVE  UNCHANGED <<wentOff, bt, mGatt, frame>>
  BY <1>9 DEF LinkUp, ConnectFails, DisconnectDone, history, managerVars
<1>10. ASSUME NEW a \in Addrs, LinkDrop(a) \/ LinkGone(a)
       PROVE  UNCHANGED <<wentOff, bt, mGatt, frame>>
  BY <1>10 DEF LinkDrop, LinkGone, history, managerVars
<1> QED
  BY <1>1, <1>2, <1>3, <1>4, <1>5, <1>6, <1>7, <1>8, <1>9, <1>10 DEF Environment

LEMMA NextAliveInv == TypeInv /\ AliveInv /\ [Next]_vars => AliveInv'
<1> SUFFICES ASSUME TypeInv, AliveInv, [Next]_vars PROVE AliveInv'
  OBVIOUS
<1>1. CASE UNCHANGED vars
  BY <1>1, AliveKept DEF vars
<1> QED
  BY <1>1, AliveMainStep, AliveCallbackStep, AliveEnvironment DEF Next

LEMMA AliveInvHolds == Spec => []AliveInv
<1>1. TypeInv /\ AliveInv /\ [Next]_vars => AliveInv'
  BY NextAliveInv
<1> QED
  BY InitAliveInv, TypesHold, <1>1, PTL DEF Spec

LEMMA DeathStep == TypeInv /\ AliveInv /\ [Next]_vars => [receivers # <<>> /\ receivers' = <<>> => wentOff]_vars
<1> SUFFICES ASSUME TypeInv, AliveInv, Next, receivers' # receivers, ~wentOff
             PROVE  receivers' # <<>>
  OBVIOUS
<1>1. bt = "on" /\ (At(Main, "gattClose") => mGatt[frame[Main].mgr] # None)
  BY DEF AliveInv
<1>2. ASSUME NEW t \in Threads, ThreadStep(t) PROVE FALSE
  BY <1>1, <1>2 DEF ThreadStep, GetMAC, Enable, StartCharging, Check, ConnectGatt, Assign, Reset,
                    Toggle, StartScan, managerVars
<1>3. ~MainStep
  BY <1>1, <1>2 DEF MainStep, Receive, GattDisconnect, GattClose, StopCharging, ScanResult,
                    managerVars, Threads
<1>4. ASSUME NEW g \in Gatts, CallbackStep(g) PROVE FALSE
  BY <1>2, <1>4 DEF CallbackStep, Connected, Save, Disconnected, managerVars, Threads
<1>5. Environment => \E m \in Managers : StartService(m)
  BY <1>1 DEF Environment, TogglePreference, ClickReset, ScanTimeout, PenFound, LinkUp,
              ConnectFails, DisconnectDone, LinkDrop, LinkGone, UserSwitch, BtDown, BtUp,
              HalDies, managerVars
<1>6. ASSUME NEW m \in Managers, StartService(m) PROVE receivers' # <<>>
  <2>1. receivers \in Seq(Managers) /\ receivers' = Append(receivers, m)
    BY <1>6 DEF StartService, TypeInv, TypeOK
  <2> QED
    BY <2>1
<1> QED
  BY <1>3, <1>4, <1>5, <1>6 DEF Next

\* As long as the adapter has never been off, no exception ends the process:
\* the client of disconnect() is still there when it is closed.
THEOREM NoDeathWhileOn == Spec => DiesOnlyAfterOff
<1>1. TypeInv /\ AliveInv /\ [Next]_vars => [receivers # <<>> /\ receivers' = <<>> => wentOff]_vars
  BY DeathStep
<1> QED
  BY TypesHold, AliveInvHolds, <1>1, PTL DEF Spec, DiesOnlyAfterOff

-----------------------------------------------------------------------------
(* Clients that nobody can close any more                                  *)

\* The steps of connect(), and what the main thread still has to do once
\* disconnect() has closed the client.
Connecting == {"getMAC", "enable", "startCharging", "check", "connectGatt", "assign"}
AfterClose == Connecting \cup {"stopCharging"}

\* The client g will be told, or is being told, that it was disconnected.
Told(g) == \E i \in 1..Len(client[g].events) : client[g].events[i] = "down"

\* Who knows a client: a thread holds one only to assign it, to the manager
\* the client was opened for, and a callback connects only for a client that
\* it has closed.
HoldOK ==
    \A t \in Threads :
        /\ frame[t].gatt # None => At(t, "assign")
        /\ \A g \in Gatts : frame[t].gatt = g /\ client[g].state # "closed"
                               => client[g].mgr = frame[t].mgr

OwnerOK ==
    \A m \in Managers : \A g \in Gatts :
        mGatt[m] = g /\ client[g].state # "closed" => client[g].mgr = m

CallbackOK == \A g \in Gatts : frame[g].step \in Connecting => client[g].state = "closed"

KnownInv == HoldOK /\ OwnerOK /\ CallbackOK

\* What the drops so far may have left behind or may still leave behind: the
\* clients nobody remembers, the callbacks that will open or are opening a
\* client, and a client that a callback has opened behind the back of the main
\* thread, which is about to overwrite it.
Pending == {g \in Gatts : Told(g) \/ frame[g].step \in Connecting}

Replaced == {g \in InUse : frame[Main].step \in AfterClose /\ mGatt[frame[Main].mgr] = g}

Owed == Orphans \cup Pending \cup Replaced

DropInv == Cardinality(Owed) <= drops

\* A frame that changes without a client in it: a callback starts to connect
\* only because it was told, the main thread only when the client is closed.
Moves(t) ==
    /\ frame[t].gatt = None /\ frame'[t].gatt = None
    /\ t \in Gatts /\ frame'[t].step \in Connecting
          => /\ frame[t].step \in Connecting \/ Told(t)
             /\ client'[t].state = "closed"
    /\ t = Main /\ frame'[t].step \in AfterClose
          => \/ frame[t].step \in AfterClose /\ frame'[t].mgr = frame[t].mgr
             \/ mGatt[frame'[t].mgr] = None
             \/ client'[mGatt[frame'[t].mgr]].state = "closed"

\* A step that opens and assigns no client, and tells those in gs.
Keeps(gs) ==
    /\ UNCHANGED mGatt
    /\ \A g \in Gatts :
          /\ client'[g].state # "closed" => client[g].state # "closed" /\ client'[g].mgr = client[g].mgr
          /\ client'[g].state \in {"connecting", "connected"} => client[g].state \in {"connecting", "connected"}
          /\ Told(g)' => Told(g) \/ g \in gs
    /\ \A t \in Threads : frame'[t] = frame[t] \/ Moves(t)

LEMMA OwedKept ==
    ASSUME TypeInv, KnownInv, NEW gs \in SUBSET Gatts, Keeps(gs)
    PROVE  KnownInv' /\ Owed' \subseteq Owed \cup gs
<1>1. HoldOK'
  <2> SUFFICES ASSUME NEW t \in Threads
               PROVE  /\ frame'[t].gatt # None => frame'[t].step = "assign"
                      /\ \A g \in Gatts : frame'[t].gatt = g /\ client'[g].state # "closed"
                                             => client'[g].mgr = frame'[t].mgr
    BY DEF HoldOK, At
  <2>1. CASE frame'[t] = frame[t]
    BY <2>1 DEF KnownInv, HoldOK, Keeps, At
  <2>2. CASE Moves(t)
    BY <2>2, ConnectionAssumption DEF Moves
  <2> QED
    BY <2>1, <2>2 DEF Keeps
<1>2. OwnerOK'
  BY DEF KnownInv, OwnerOK, Keeps
<1>3. CallbackOK'
  <2> SUFFICES ASSUME NEW g \in Gatts, frame'[g].step \in Connecting
               PROVE  client'[g].state = "closed"
    BY DEF CallbackOK
  <2>1. g \in Threads
    BY DEF Threads
  <2>2. CASE frame'[g] = frame[g]
    BY <2>2 DEF KnownInv, CallbackOK, Keeps
  <2>3. CASE Moves(g)
    BY <2>3 DEF Moves
  <2> QED
    BY <2>1, <2>2, <2>3 DEF Keeps
<1>4. Orphans' \subseteq Orphans
  <2> SUFFICES ASSUME NEW g \in Orphans' PROVE g \in Orphans
    OBVIOUS
  <2>1. /\ g \in Gatts /\ client'[g].state \in {"connecting", "connected"}
        /\ mGatt'[client'[g].mgr] # g
        /\ \A t \in Threads : frame'[t].gatt # g
    BY DEF Orphans, InUse
  <2>2. /\ client[g].state \in {"connecting", "connected"}
        /\ client'[g].mgr = client[g].mgr /\ mGatt' = mGatt
    BY <2>1 DEF Keeps
  <2>3. \A t \in Threads : frame[t].gatt # g
    <3> SUFFICES ASSUME NEW t \in Threads PROVE frame[t].gatt # g
      OBVIOUS
    <3>1. g # None
      BY <2>1, ConnectionAssumption
    <3> QED
      BY <2>1, <3>1 DEF Keeps, Moves
  <2> QED
    BY <2>1, <2>2, <2>3 DEF Orphans, InUse
<1>5. Pending' \subseteq Pending \cup gs
  <2> SUFFICES ASSUME NEW g \in Gatts, Told(g)' \/ frame'[g].step \in Connecting
               PROVE  Told(g) \/ frame[g].step \in Connecting \/ g \in gs
    BY DEF Pending
  <2>1. g \in Threads
    BY DEF Threads
  <2> QED
    BY <2>1 DEF Keeps, Moves
<1>6. Replaced' \subseteq Replaced
  <2> SUFFICES ASSUME NEW g \in Replaced' PROVE g \in Replaced
    OBVIOUS
  <2>1. /\ g \in Gatts /\ client'[g].state \in {"connecting", "connected"}
        /\ frame'[Main].step \in AfterClose /\ mGatt'[frame'[Main].mgr] = g
    BY DEF Replaced, InUse
  <2>2. client[g].state \in {"connecting", "connected"} /\ mGatt' = mGatt /\ Main \in Threads
    BY <2>1 DEF Keeps, Threads
  <2>3. g # None
    BY <2>1, ConnectionAssumption
  <2>4. CASE frame'[Main] = frame[Main]
    BY <2>1, <2>2, <2>4 DEF Replaced, InUse
  <2>5. CASE Moves(Main)
    BY <2>1, <2>2, <2>3, <2>5 DEF Moves, Replaced, InUse
  <2> QED
    BY <2>2, <2>4, <2>5 DEF Keeps
<1> QED
  BY <1>1, <1>2, <1>3, <1>4, <1>5, <1>6 DEF KnownInv, Owed

-----------------------------------------------------------------------------
(* What the steps do to clients, and to what is owed for them              *)

LEMMA ClientTypes ==
    ASSUME TypeInv
    PROVE  /\ client \in [Gatts -> Client]
           /\ frame \in [Threads -> Frame]
           /\ mGatt \in [Managers -> Gatts \cup {None}]
           /\ \A g \in Gatts : client[g].events \in Seq({"up", "down"})
           /\ Main \in Threads /\ Gatts \subseteq Threads
<1>1. /\ client \in [Gatts -> Client] /\ frame \in [Threads -> Frame]
      /\ mGatt \in [Managers -> Gatts \cup {None}]
  BY DEF TypeInv, TypeOK
<1>2. \A g \in Gatts : client[g].events \in Seq({"up", "down"})
  BY <1>1 DEF Client
<1> QED
  BY <1>1, <1>2 DEF Threads

LEMMA ToldKept ==
    ASSUME NEW g \in Gatts, client'[g].events = client[g].events
    PROVE  Told(g)' <=> Told(g)
  BY DEF Told

LEMMA ToldUp ==
    ASSUME TypeInv, NEW g \in Gatts, client'[g].events = Append(client[g].events, "up")
    PROVE  Told(g)' <=> Told(g)
<1>1. PICK e \in Seq({"up", "down"}) : e = client[g].events
  BY ClientTypes
<1>2. /\ Len(Append(e, "up")) = Len(e) + 1 /\ Len(e) \in Nat
      /\ \A i \in 1..Len(e) : Append(e, "up")[i] = e[i]
      /\ Append(e, "up")[Len(e) + 1] = "up"
  OBVIOUS
<1>3. \A i \in 1..(Len(e) + 1) : i \in 1..Len(e) \/ i = Len(e) + 1
  BY <1>2
<1>4. \A i \in 1..Len(e) : i \in 1..(Len(e) + 1)
  BY <1>2
<1> QED
  BY <1>1, <1>2, <1>3, <1>4 DEF Told

LEMMA ToldTail ==
    ASSUME TypeInv, NEW g \in Gatts, client[g].events # <<>>, Head(client[g].events) = "up",
           client'[g].events = Tail(client[g].events)
    PROVE  Told(g)' <=> Told(g)
<1>1. PICK e \in Seq({"up", "down"}) : e = client[g].events
  BY ClientTypes
<1>2. /\ e # <<>> /\ e[1] = "up" /\ Len(e) \in Nat \ {0}
      /\ Len(Tail(e)) = Len(e) - 1
      /\ \A i \in 1..(Len(e) - 1) : Tail(e)[i] = e[i + 1]
  BY <1>1
<1>3. ASSUME NEW i \in 1..Len(e), e[i] = "down"
      PROVE  i - 1 \in 1..(Len(e) - 1) /\ Tail(e)[i - 1] = "down"
  <2>1. i # 1
    BY <1>2, <1>3
  <2>2. i - 1 \in 1..(Len(e) - 1) /\ (i - 1) + 1 = i
    BY <1>2, <2>1
  <2> QED
    BY <1>2, <1>3, <2>2
<1>4. \A i \in 1..(Len(e) - 1) : i + 1 \in 1..Len(e)
  BY <1>2
<1> QED
  BY <1>1, <1>2, <1>3, <1>4 DEF Told

LEMMA ToldNone ==
    ASSUME NEW g \in Gatts, client'[g].events = <<>>
    PROVE  ~Told(g)'
  BY DEF Told

\* A thread goes on, and does not start to connect.
LEMMA MoveKeeps ==
    ASSUME TypeInv, KnownInv, UNCHANGED <<client, mGatt>>,
           NEW t \in Threads, ~At(t, "assign"),
           NEW f \in Frame, frame' = [frame EXCEPT ![t] = f],
           f.gatt = None,
           f.step \in Connecting => frame[t].step \in Connecting \/ t = Main,
           f.step \in AfterClose /\ t = Main
              => frame[t].step \in AfterClose /\ f.mgr = frame[t].mgr
    PROVE  Keeps({})
<1>1. frame \in [Threads -> Frame]
  BY ClientTypes
<1>2. \A g \in Gatts : Told(g)' <=> Told(g)
  BY ToldKept
<1>3. frame'[t] = f /\ frame[t].gatt = None
  BY <1>1 DEF KnownInv, HoldOK, At
<1>4. Moves(t)
  <2>1. CASE t = Main
    BY <1>3, <2>1, ConnectionAssumption DEF Moves
  <2>2. CASE t # Main
    BY <1>3, <2>2 DEF Moves, KnownInv, CallbackOK
  <2> QED
    BY <2>1, <2>2
<1>5. \A u \in Threads : frame'[u] = frame[u] \/ Moves(u)
  BY <1>1, <1>4
<1> QED
  BY <1>2, <1>5 DEF Keeps

LEMMA GotoKeeps ==
    ASSUME TypeInv, KnownInv, UNCHANGED <<client, mGatt>>,
           NEW t \in Threads, ~At(t, "assign"), NEW step \in Steps, Goto(t, step),
           step \in AfterClose => frame[t].step \in AfterClose,
           step \in Connecting => frame[t].step \in Connecting \/ t = Main
    PROVE  Keeps({})
<1> DEFINE f == [frame[t] EXCEPT !.step = step]
<1>1. frame[t] \in Frame /\ frame[t].gatt = None
  BY ClientTypes DEF KnownInv, HoldOK, At
<1>2. f \in Frame /\ f.step = step /\ f.mgr = frame[t].mgr /\ f.gatt = None
  BY <1>1 DEF Frame
<1>3. frame' = [frame EXCEPT ![t] = f]
  BY DEF Goto
<1> HIDE DEF f
<1> QED
  BY <1>2, <1>3, MoveKeeps

LEMMA FinishKeeps ==
    ASSUME TypeInv, KnownInv, UNCHANGED <<client, mGatt>>,
           NEW t \in Threads, ~At(t, "assign"), Finish(t)
    PROVE  Keeps({})
<1>1. Idle \in Frame /\ Idle.gatt = None /\ ~(Idle.step \in AfterClose) /\ ~(Idle.step \in Connecting)
  BY FreshTypes DEF Idle, AfterClose, Connecting
<1> QED
  BY <1>1, MoveKeeps DEF Finish

\* A step that leaves the frames alone.
LEMMA StackKeeps ==
    ASSUME UNCHANGED <<frame, mGatt>>,
           \A g \in Gatts :
              /\ client'[g].state # "closed"
                    => client[g].state # "closed" /\ client'[g].mgr = client[g].mgr
              /\ client'[g].state \in {"connecting", "connected"}
                    => client[g].state \in {"connecting", "connected"}
              /\ Told(g)' => Told(g)
    PROVE  Keeps({})
  BY DEF Keeps

LEMMA NothingKeeps ==
    ASSUME UNCHANGED <<frame, mGatt, client>>
    PROVE  Keeps({})
<1>1. \A g \in Gatts : Told(g)' <=> Told(g)
  BY ToldKept
<1> QED
  BY <1>1, StackKeeps

\* With the process all that was owed is gone.
LEMMA DeathOwesNothing ==
    ASSUME ProcessDies
    PROVE  KnownInv' /\ Owed' = {}
<1>1. /\ \A g \in Gatts : client'[g].state = "closed" /\ client'[g].events = <<>>
      /\ \A t \in Threads : frame'[t].step = "idle" /\ frame'[t].gatt = None
  BY DEF ProcessDies, Closed, Idle
<1>2. \A g \in Gatts : ~Told(g)'
  BY <1>1, ToldNone
<1>3. \A g \in Gatts : g \in Threads
  BY DEF Threads
<1>4. KnownInv'
  BY <1>1, <1>3, ConnectionAssumption DEF KnownInv, HoldOK, OwnerOK, CallbackOK, Connecting
<1>5. InUse' = {}
  BY <1>1 DEF InUse
<1>6. Pending' = {}
  BY <1>1, <1>2, <1>3 DEF Pending, Connecting
<1> QED
  BY <1>4, <1>5, <1>6 DEF Owed, Orphans, Replaced

\* What a step may add to what is owed: as much as it adds to the drops, or
\* one client for one that it settles.
Settled ==
    \/ \E gs \in SUBSET Gatts : drops' = drops + Cardinality(gs) /\ Owed' \subseteq Owed \cup gs
    \/ \E g \in Owed : \E h \in Gatts : drops' = drops /\ Owed' \subseteq (Owed \ {g}) \cup {h}

LEMMA SettledAlone ==
    ASSUME TypeInv, drops' = drops, Owed' \subseteq Owed
    PROVE  Settled
<1>1. drops + Cardinality({}) = drops
  BY FS_EmptySet DEF TypeInv, TypeOK
<1>2. {} \in SUBSET Gatts /\ Owed' \subseteq Owed \cup {}
  OBVIOUS
<1> QED
  BY <1>1, <1>2 DEF Settled

LEMMA SettledKeeps ==
    ASSUME TypeInv, KnownInv, Keeps({}), drops' = drops
    PROVE  KnownInv' /\ Settled
<1>1. KnownInv' /\ Owed' \subseteq Owed
  BY OwedKept
<1> QED
  BY <1>1, SettledAlone

LEMMA SettledDeath ==
    ASSUME TypeInv, ProcessDies
    PROVE  KnownInv' /\ Settled
<1>1. KnownInv' /\ Owed' = {} /\ drops' = drops
  BY DeathOwesNothing DEF ProcessDies, counters
<1> QED
  BY <1>1, SettledAlone

\* A client that is opened is held by the thread that opened it.
LEMMA OpenOwes ==
    ASSUME TypeInv, KnownInv, NEW t \in Threads, At(t, "connectGatt"), NEW g \in Gatts, Unused(g),
           NEW a, client' = [client EXCEPT ![g] = [state |-> "connecting", addr |-> a,
                                                   mgr |-> frame[t].mgr, events |-> <<>>]],
           frame' = [frame EXCEPT ![t].gatt = g, ![t].step = "assign"],
           UNCHANGED mGatt
    PROVE  KnownInv' /\ Owed' \subseteq Owed
<1>1. /\ client \in [Gatts -> Client] /\ frame \in [Threads -> Frame]
      /\ Main \in Threads /\ Gatts \subseteq Threads
  BY ClientTypes
<1>2. /\ client'[g].state = "connecting" /\ client'[g].mgr = frame[t].mgr /\ client'[g].events = <<>>
      /\ \A h \in Gatts : h # g => client'[h] = client[h]
  BY <1>1
<1>3. /\ frame'[t].gatt = g /\ frame'[t].step = "assign" /\ frame'[t].mgr = frame[t].mgr
      /\ \A u \in Threads : u # t => frame'[u] = frame[u]
  BY <1>1 DEF Frame
<1>4. /\ client[g].state = "closed" /\ At(g, "idle") /\ g # None
      /\ \A m \in Managers : mGatt[m] # g
      /\ \A u \in Threads : frame[u].gatt # g
  BY ConnectionAssumption DEF Unused
<1>5. frame[t].step = "connectGatt" /\ t # g
  BY <1>4 DEF At
<1>6. \A u \in Threads : frame[u].step \in Connecting <=> frame'[u].step \in Connecting
  BY <1>3, <1>5 DEF Connecting
<1>7. \A u \in Threads : frame[u].step \in AfterClose <=> frame'[u].step \in AfterClose
  BY <1>3, <1>5 DEF AfterClose, Connecting
<1>8. HoldOK'
  <2> SUFFICES ASSUME NEW u \in Threads
               PROVE  /\ frame'[u].gatt # None => frame'[u].step = "assign"
                      /\ \A h \in Gatts : frame'[u].gatt = h /\ client'[h].state # "closed"
                                             => client'[h].mgr = frame'[u].mgr
    BY DEF HoldOK, At
  <2>1. CASE u = t
    <3>1. frame'[u].step = "assign" /\ frame'[u].gatt = g /\ client'[g].mgr = frame'[u].mgr
      BY <1>2, <1>3, <2>1
    <3> QED
      BY <3>1
  <2>2. CASE u # t
    <3>1. frame'[u] = frame[u] /\ frame[u].gatt # g
      BY <1>3, <1>4, <2>2
    <3>2. /\ frame[u].gatt # None => frame[u].step = "assign"
          /\ \A h \in Gatts : frame[u].gatt = h /\ client[h].state # "closed"
                                 => client[h].mgr = frame[u].mgr
      BY DEF KnownInv, HoldOK, At
    <3>3. \A h \in Gatts : frame[u].gatt = h => client'[h] = client[h]
      BY <3>1, <1>2
    <3> QED
      BY <3>1, <3>2, <3>3
  <2> QED
    BY <2>1, <2>2
<1>9. OwnerOK'
  BY <1>2, <1>4 DEF KnownInv, OwnerOK
<1>10. CallbackOK'
  <2> SUFFICES ASSUME NEW h \in Gatts, frame'[h].step \in Connecting
               PROVE  client'[h].state = "closed"
    BY DEF CallbackOK
  <2>1. frame[h].step \in Connecting
    BY <1>1, <1>6
  <2>2. h # g
    BY <2>1, <1>4 DEF At, Connecting
  <2> QED
    BY <2>1, <2>2, <1>2 DEF KnownInv, CallbackOK
<1>11. Orphans' \subseteq Orphans
  <2> SUFFICES ASSUME NEW h \in Orphans' PROVE h \in Orphans
    OBVIOUS
  <2>1. /\ h \in Gatts /\ client'[h].state \in {"connecting", "connected"}
        /\ mGatt'[client'[h].mgr] # h
        /\ \A u \in Threads : frame'[u].gatt # h
    BY DEF Orphans, InUse
  <2>2. h # g
    BY <2>1, <1>3
  <2>3. frame[t].gatt # h
    BY <1>5, <2>1, ConnectionAssumption DEF KnownInv, HoldOK, At
  <2> QED
    BY <2>1, <2>2, <2>3, <1>2, <1>3 DEF Orphans, InUse
<1>12. Pending' \subseteq Pending
  <2> SUFFICES ASSUME NEW h \in Gatts, Told(h)' \/ frame'[h].step \in Connecting
               PROVE  Told(h) \/ frame[h].step \in Connecting
    BY DEF Pending
  <2>1. ~Told(g)'
    BY <1>2, ToldNone
  <2>2. h # g => (Told(h)' <=> Told(h))
    BY <1>2, ToldKept
  <2> QED
    BY <2>1, <2>2, <1>1, <1>6
<1>13. Replaced' \subseteq Replaced
  <2> SUFFICES ASSUME NEW h \in Replaced' PROVE h \in Replaced
    OBVIOUS
  <2>1. /\ h \in Gatts /\ client'[h].state \in {"connecting", "connected"}
        /\ frame'[Main].step \in AfterClose /\ mGatt[frame'[Main].mgr] = h
    BY DEF Replaced, InUse
  <2>2. frame[Main].step \in AfterClose /\ frame'[Main].mgr = frame[Main].mgr
    BY <2>1, <1>1, <1>3, <1>7
  <2>3. frame[Main].mgr \in Managers
    BY <2>2, <1>1 DEF TypeInv, FrameOK, Sound, AfterClose, Connecting
  <2>4. h # g
    BY <2>1, <2>2, <2>3, <1>4
  <2> QED
    BY <2>1, <2>2, <2>4, <1>2 DEF Replaced, InUse
<1> QED
  BY <1>8, <1>9, <1>10, <1>11, <1>12, <1>13 DEF KnownInv, Owed

\* The client a manager remembers is overwritten: it is owed for the callback
\* that does so, and by the main thread if a callback opened it meanwhile.
LEMMA AssignOwes ==
    ASSUME TypeInv, KnownInv, NEW t \in Threads, Assign(t)
    PROVE  KnownInv' /\ Settled
<1>1. /\ client \in [Gatts -> Client] /\ frame \in [Threads -> Frame]
      /\ mGatt \in [Managers -> Gatts \cup {None}]
      /\ Main \in Threads /\ Gatts \subseteq Threads
  BY ClientTypes
<1>2. PICK m \in Managers : m = frame[t].mgr
  BY <1>1 DEF TypeInv, FrameOK, Sound, Assign, At
<1>3. PICK o \in Gatts \cup {None} : o = frame[t].gatt
  BY <1>1 DEF Frame
<1>4. PICK h \in Gatts \cup {None} : h = mGatt[m]
  BY <1>1
<1>5. /\ UNCHANGED client /\ drops' = drops
      /\ frame' = [frame EXCEPT ![t] = Idle]
      /\ mGatt' = [mGatt EXCEPT ![m] = o]
      /\ frame[t].step = "assign"
  BY <1>2, <1>3 DEF Assign, Finish, stackVars, counters, At
<1>6. /\ frame'[t].step = "idle" /\ frame'[t].gatt = None
      /\ \A u \in Threads : u # t => frame'[u] = frame[u]
  BY <1>1, <1>5 DEF Idle
<1>7. mGatt'[m] = o /\ \A n \in Managers : n # m => mGatt'[n] = mGatt[n]
  BY <1>1, <1>5
<1>8. HoldOK'
  BY <1>5, <1>6, ConnectionAssumption DEF KnownInv, HoldOK, At
<1>9. OwnerOK'
  <2>1. \A g \in Gatts : o = g /\ client[g].state # "closed" => client[g].mgr = m
    BY <1>2, <1>3 DEF KnownInv, HoldOK
  <2> QED
    BY <2>1, <1>5, <1>7 DEF KnownInv, OwnerOK
<1>10. CallbackOK'
  <2>1. \A g \in Gatts : frame'[g].step \in Connecting => frame[g].step \in Connecting
    BY <1>1, <1>6 DEF Connecting
  <2> QED
    BY <2>1, <1>5 DEF KnownInv, CallbackOK
<1>11. InUse' = InUse
  BY <1>5 DEF InUse
<1>12. \A g \in Gatts : Told(g)' <=> Told(g)
  BY <1>5, ToldKept
<1>13. Orphans' \subseteq Orphans \cup ({h} \cap InUse)
  <2> SUFFICES ASSUME NEW g \in Orphans', g # h PROVE g \in Orphans
    BY <1>11 DEF Orphans
  <2>1. /\ g \in InUse /\ g \in Gatts /\ client[g].state # "closed"
        /\ mGatt'[client[g].mgr] # g
        /\ \A u \in Threads : frame'[u].gatt # g
    BY <1>5, <1>11 DEF Orphans, InUse
  <2>2. client[g].mgr \in Managers
    BY <2>1 DEF TypeInv, ClientOK
  <2>3. mGatt[client[g].mgr] # g
    BY <2>1, <2>2, <1>4, <1>7
  <2>4. frame[t].gatt # g
    <3> SUFFICES ASSUME frame[t].gatt = g PROVE FALSE
      OBVIOUS
    <3>1. client[g].mgr = m
      BY <2>1, <1>2 DEF KnownInv, HoldOK
    <3> QED
      BY <3>1, <2>1, <1>3, <1>7
  <2> QED
    BY <2>1, <2>3, <2>4, <1>6 DEF Orphans
<1>14. Pending' \subseteq Pending \ {t}
  <2> SUFFICES ASSUME NEW g \in Gatts, Told(g)' \/ frame'[g].step \in Connecting
               PROVE  g # t /\ (Told(g) \/ frame[g].step \in Connecting)
    BY DEF Pending
  <2>1. g # t
    <3> SUFFICES ASSUME g = t PROVE FALSE
      OBVIOUS
    <3>1. frame[g].step \in Connecting /\ ~(frame'[g].step \in Connecting)
      BY <1>5, <1>6 DEF Connecting
    <3>2. client[g] = Closed
      BY <3>1 DEF KnownInv, CallbackOK, TypeInv, ClientOK
    <3>3. client'[g].events = <<>>
      BY <3>2, <1>5 DEF Closed
    <3> QED
      BY <3>1, <3>3, ToldNone
  <2> QED
    BY <2>1, <1>1, <1>6, <1>12
<1>15. t \in Gatts => t \in Pending /\ t \notin InUse
  BY <1>5 DEF Pending, Connecting, KnownInv, CallbackOK, InUse
<1>16. Replaced \subseteq InUse /\ Orphans \subseteq InUse
  BY DEF Replaced, Orphans
<1>17. CASE t = Main
  <2>1. Replaced' = {}
    BY <1>6, <1>17 DEF Replaced, AfterClose, Connecting
  <2>2. {h} \cap InUse \subseteq Replaced
    BY <1>2, <1>4, <1>5, <1>17 DEF Replaced, AfterClose, Connecting
  <2>3. Owed' \subseteq Owed
    BY <2>1, <2>2, <1>13, <1>14 DEF Owed
  <2> QED
    BY <2>3, <1>5, <1>8, <1>9, <1>10, SettledAlone DEF KnownInv
<1>18. CASE t # Main
  <2>1. t \in Gatts /\ frame'[Main] = frame[Main]
    BY <1>1, <1>6, <1>18 DEF Threads
  <2>2. t \in Owed
    BY <1>15, <2>1 DEF Owed
  <2>3. CASE frame[Main].step \in AfterClose /\ frame[Main].mgr = m
    <3>1. Replaced' \subseteq {o} \cap InUse
      BY <2>1, <2>3, <1>7, <1>11 DEF Replaced
    <3>2. {h} \cap InUse \subseteq Replaced
      BY <2>3, <1>4 DEF Replaced
    <3>3. Owed' \subseteq (Owed \ {t}) \cup ({o} \cap InUse)
      BY <3>1, <3>2, <2>1, <1>13, <1>14, <1>15, <1>16 DEF Owed
    <3>4. \E x \in Gatts : Owed' \subseteq (Owed \ {t}) \cup {x}
      <4>1. CASE o \in Gatts
        BY <3>3, <4>1
      <4>2. CASE o \notin Gatts
        BY <3>3, <4>2, <2>1 DEF InUse
      <4> QED
        BY <4>1, <4>2
    <3> QED
      BY <3>4, <2>2, <1>5, <1>8, <1>9, <1>10 DEF Settled, KnownInv
  <2>4. CASE ~(frame[Main].step \in AfterClose /\ frame[Main].mgr = m)
    <3>1. Replaced' \subseteq Replaced
      <4>1. frame[Main].step \in AfterClose => frame[Main].mgr \in Managers
        BY <1>1 DEF TypeInv, FrameOK, Sound, AfterClose, Connecting
      <4> QED
        BY <4>1, <2>1, <2>4, <1>7, <1>11 DEF Replaced
    <3>2. Owed' \subseteq (Owed \ {t}) \cup ({h} \cap InUse)
      BY <3>1, <2>1, <1>13, <1>14, <1>15, <1>16 DEF Owed
    <3>3. \E x \in Gatts : Owed' \subseteq (Owed \ {t}) \cup {x}
      <4>1. CASE h \in Gatts
        BY <3>2, <4>1
      <4>2. CASE h \notin Gatts
        BY <3>2, <4>2, <2>1 DEF InUse
      <4> QED
        BY <4>1, <4>2
    <3> QED
      BY <3>3, <2>2, <1>5, <1>8, <1>9, <1>10 DEF Settled, KnownInv
  <2> QED
    BY <2>3, <2>4
<1> QED
  BY <1>17, <1>18

LEMMA ThreadStepOwes ==
    ASSUME TypeInv, KnownInv, NEW t \in Threads, ThreadStep(t)
    PROVE  KnownInv' /\ Settled
<1>1. frame[t] \in Frame /\ mac \in Value
  BY ClientTypes DEF TypeInv, TypeOK
<1>2. CASE GetMAC(t)
  <2>1. UNCHANGED <<client, mGatt, drops>> /\ frame[t].step = "getMAC"
    BY <1>2 DEF GetMAC, At, stackVars, managerVars, counters
  <2>2. ~At(t, "assign") /\ frame[t].step \in Connecting /\ frame[t].step \in AfterClose
    BY <2>1 DEF At, Connecting, AfterClose
  <2>3. CASE Finish(t)
    BY <2>1, <2>2, <2>3, FinishKeeps, SettledKeeps
  <2>4. CASE frame' = [frame EXCEPT ![t].addr = mac, ![t].step = "enable"]
    <3> DEFINE f == [frame[t] EXCEPT !.addr = mac, !.step = "enable"]
    <3>1. f \in Frame /\ f.mgr = frame[t].mgr /\ f.gatt = None
      BY <1>1, <2>2 DEF Frame, Steps, KnownInv, HoldOK
    <3>2. frame' = [frame EXCEPT ![t] = f]
      BY <2>4
    <3> HIDE DEF f
    <3> QED
      BY <2>1, <2>2, <3>1, <3>2, MoveKeeps, SettledKeeps
  <2> QED
    BY <1>2, <2>3, <2>4 DEF GetMAC
<1>3. CASE Enable(t)
  <2>1. UNCHANGED <<client, mGatt, drops>> /\ frame[t].step = "enable"
    BY <1>3 DEF Enable, At, counters
  <2>2. ~At(t, "assign") /\ frame[t].step \in Connecting /\ frame[t].step \in AfterClose
    BY <2>1 DEF At, Connecting, AfterClose
  <2>3. Goto(t, "reset") \/ Goto(t, "startCharging")
    BY <1>3 DEF Enable
  <2> QED
    BY <2>1, <2>2, <2>3, GotoKeeps, SettledKeeps DEF Steps
<1>4. CASE StartCharging(t)
  <2>1. UNCHANGED <<client, mGatt, drops>> /\ frame[t].step = "startCharging"
    BY <1>4 DEF StartCharging, At, stackVars, counters
  <2>2. ~At(t, "assign") /\ frame[t].step \in Connecting /\ frame[t].step \in AfterClose
    BY <2>1 DEF At, Connecting, AfterClose
  <2>3. Goto(t, "check") \/ Finish(t)
    BY <1>4 DEF StartCharging
  <2> QED
    BY <2>1, <2>2, <2>3, GotoKeeps, FinishKeeps, SettledKeeps DEF Steps
<1>5. CASE Check(t)
  <2>1. UNCHANGED <<client, mGatt, drops>> /\ frame[t].step = "check"
    BY <1>5 DEF Check, At, stackVars, managerVars, counters
  <2>2. ~At(t, "assign") /\ frame[t].step \in Connecting /\ frame[t].step \in AfterClose
    BY <2>1 DEF At, Connecting, AfterClose
  <2>3. Goto(t, "connectGatt") \/ Finish(t)
    BY <1>5 DEF Check
  <2> QED
    BY <2>1, <2>2, <2>3, GotoKeeps, FinishKeeps, SettledKeeps DEF Steps
<1>6. CASE ConnectGatt(t)
  <2>1. UNCHANGED <<mGatt, drops>> /\ frame[t].step = "connectGatt" /\ At(t, "connectGatt")
    BY <1>6 DEF ConnectGatt, At, managerVars, counters
  <2>2. ~At(t, "assign") /\ frame[t].step \in Connecting /\ frame[t].step \in AfterClose
    BY <2>1 DEF At, Connecting, AfterClose
  <2>3. ASSUME NEW g \in Gatts, Unused(g),
               client' = [client EXCEPT ![g] =
                             [state |-> "connecting", addr |-> mSpen[frame[t].mgr],
                              mgr |-> frame[t].mgr, events |-> <<>>]],
               frame' = [frame EXCEPT ![t].gatt = g, ![t].step = "assign"]
        PROVE  KnownInv' /\ Settled
    <3>1. KnownInv' /\ Owed' \subseteq Owed
      BY <2>1, <2>3, OpenOwes
    <3> QED
      BY <2>1, <3>1, SettledAlone
  <2>4. CASE frame' = [frame EXCEPT ![t].gatt = None, ![t].step = "assign"] /\ UNCHANGED client
    <3> DEFINE f == [frame[t] EXCEPT !.gatt = None, !.step = "assign"]
    <3>1. f \in Frame /\ f.mgr = frame[t].mgr /\ f.gatt = None
      BY <1>1 DEF Frame, Steps
    <3>2. frame' = [frame EXCEPT ![t] = f]
      BY <2>4
    <3> HIDE DEF f
    <3> QED
      BY <2>1, <2>2, <2>4, <3>1, <3>2, MoveKeeps, SettledKeeps
  <2> QED
    BY <1>6, <2>3, <2>4 DEF ConnectGatt
<1>7. CASE Assign(t)
  BY <1>7, AssignOwes
<1>8. CASE Reset(t)
  <2>1. UNCHANGED <<client, mGatt, drops>> /\ frame[t].step = "reset"
    BY <1>8 DEF Reset, At, stackVars, managerVars, counters
  <2>2. ~At(t, "assign")
    BY <2>1 DEF At
  <2>3. Goto(t, "toggleOff") \/ Finish(t)
    BY <1>8 DEF Reset
  <2> QED
    BY <2>1, <2>2, <2>3, GotoKeeps, FinishKeeps, SettledKeeps DEF Steps, AfterClose, Connecting
<1>9. CASE Toggle(t)
  <2>1. UNCHANGED <<client, mGatt, drops>> /\ ~At(t, "assign")
    BY <1>9 DEF Toggle, At, stackVars, managerVars, counters
  <2>2. Goto(t, "toggleOn") \/ Goto(t, "startScan")
    BY <1>9 DEF Toggle
  <2> QED
    BY <2>1, <2>2, GotoKeeps, SettledKeeps DEF Steps, AfterClose, Connecting
<1>10. CASE StartScan(t)
  <2>1. CASE ProcessDies
    BY <2>1, SettledDeath
  <2>2. CASE Finish(t) /\ UNCHANGED <<client, mGatt, drops>>
    <3>1. ~At(t, "assign")
      BY <1>10 DEF StartScan, At
    <3> QED
      BY <2>2, <3>1, FinishKeeps, SettledKeeps
  <2> QED
    BY <1>10, <2>1, <2>2 DEF StartScan, stackVars, managerVars, counters
<1> QED
  BY <1>2, <1>3, <1>4, <1>5, <1>6, <1>7, <1>8, <1>9, <1>10 DEF ThreadStep

\* close() takes the client out of every account.
LEMMA CloseClients ==
    ASSUME TypeInv, NEW g \in Gatts, Close(g)
    PROVE  /\ client'[g] = Closed
           /\ \A h \in Gatts : h # g => client'[h] = client[h]
           /\ ~Told(g)'
           /\ \A h \in Gatts : h # g => (Told(h)' <=> Told(h))
<1>1. client'[g] = Closed /\ \A h \in Gatts : h # g => client'[h] = client[h]
  BY ClientTypes DEF Close
<1>2. ~Told(g)'
  BY <1>1, ToldNone DEF Closed
<1> QED
  BY <1>1, <1>2, ToldKept

LEMMA MainStepOwes ==
    ASSUME TypeInv, KnownInv, MainStep
    PROVE  KnownInv' /\ Settled
<1>1. Main \in Threads /\ frame[Main] \in Frame /\ frame \in [Threads -> Frame]
      /\ client \in [Gatts -> Client] /\ mGatt \in [Managers -> Gatts \cup {None}]
  BY ClientTypes
<1>2. CASE Receive
  <2>1. UNCHANGED <<client, mGatt, drops>> /\ ~At(Main, "assign")
    BY <1>2 DEF Receive, At, stackVars, managerVars, counters
  <2>2. CASE UNCHANGED frame
    BY <2>1, <2>2, NothingKeeps, SettledKeeps
  <2>3. CASE ~UNCHANGED frame
    <3> DEFINE f == [Idle EXCEPT !.step = "gattDisconnect", !.mgr = Head(inbox).mgr,
                                 !.again = Head(inbox).on]
    <3>1. Head(inbox) \in Broadcast
      <4>1. inbox \in Seq(Broadcast) /\ inbox # <<>>
        BY <1>2 DEF TypeInv, TypeOK, Broadcast, Receive
      <4> QED
        BY <4>1
    <3>2. f \in Frame /\ f.gatt = None /\ f.step = "gattDisconnect"
      BY <3>1 DEF Broadcast, Idle, Frame, Steps, Value
    <3>3. frame' = [frame EXCEPT ![Main] = f]
      BY <1>2, <2>3 DEF Receive
    <3>4. ~(f.step \in Connecting) /\ ~(f.step \in AfterClose)
      BY <3>2 DEF Connecting, AfterClose
    <3> HIDE DEF f
    <3>5. Keeps({})
      BY <1>1, <2>1, <3>2, <3>3, <3>4, MoveKeeps
    <3> QED
      BY <2>1, <3>5, SettledKeeps
  <2> QED
    BY <2>2, <2>3
<1>3. CASE GattDisconnect(Main)
  <2>1. /\ UNCHANGED mGatt /\ drops' = drops /\ ~At(Main, "assign")
        /\ frame[Main].mgr \in Managers /\ frame[Main].gatt = None
    BY <1>1, <1>3 DEF GattDisconnect, At, managerVars, counters, TypeInv, FrameOK, Sound, KnownInv,
                      HoldOK
  <2>2. PICK step \in {"stopCharging", "gattClose"} :
           Goto(Main, step) /\ (step = "stopCharging" => mGatt[frame[Main].mgr] = None)
    BY <1>3 DEF GattDisconnect
  <2>3. /\ frame'[Main].gatt = None /\ frame'[Main].mgr = frame[Main].mgr
        /\ frame'[Main].step = step
        /\ \A u \in Threads : u # Main => frame'[u] = frame[u]
    BY <1>1, <2>1, <2>2 DEF Goto, Frame
  <2>4. Moves(Main)
    BY <2>1, <2>2, <2>3, ConnectionAssumption DEF Moves, AfterClose, Connecting
  <2>5. \A g \in Gatts :
           /\ client'[g].events = client[g].events /\ client'[g].mgr = client[g].mgr
           /\ client'[g].state = client[g].state \/ (client[g].state = "connected" /\ client'[g].state = "closing")
    <3>1. CASE UNCHANGED client
      BY <3>1
    <3>2. ASSUME NEW g \in Gatts, client[g].state = "connected",
                 client' = [client EXCEPT ![g].state = "closing"], NEW h \in Gatts
          PROVE  /\ client'[h].events = client[h].events /\ client'[h].mgr = client[h].mgr
                 /\ client'[h].state = client[h].state
                       \/ (client[h].state = "connected" /\ client'[h].state = "closing")
      <4>1. CASE h = g
        BY <1>1, <3>2, <4>1 DEF Client
      <4>2. CASE h # g
        BY <1>1, <3>2, <4>2
      <4> QED
        BY <4>1, <4>2
    <3>3. mGatt[frame[Main].mgr] \in Gatts \cup {None}
      BY <1>1, <2>1
    <3> QED
      BY <1>3, <3>1, <3>2, <3>3 DEF GattDisconnect
  <2>6. \A g \in Gatts : Told(g)' <=> Told(g)
    BY <2>5, ToldKept
  <2>7. Keeps({})
    BY <2>1, <2>3, <2>4, <2>5, <2>6 DEF Keeps
  <2> QED
    BY <2>1, <2>7, SettledKeeps
<1>4. CASE GattClose(Main)
  <2>1. CASE ProcessDies
    BY <2>1, SettledDeath
  <2>2. ASSUME NEW g \in Gatts, g = mGatt[frame[Main].mgr], Close(g), Goto(Main, "stopCharging"),
               UNCHANGED <<mGatt, drops>>
        PROVE  KnownInv' /\ Settled
    <3>1. ~At(Main, "assign") /\ frame[Main].gatt = None
      BY <1>1, <1>4 DEF GattClose, At, KnownInv, HoldOK
    <3>2. /\ frame'[Main].gatt = None /\ frame'[Main].mgr = frame[Main].mgr
          /\ \A u \in Threads : u # Main => frame'[u] = frame[u]
      BY <1>1, <2>2, <3>1 DEF Goto, Frame
    <3>3. /\ client'[g].state = "closed"
          /\ \A h \in Gatts : h # g => client'[h] = client[h]
          /\ \A h \in Gatts : Told(h)' => Told(h)
      BY <2>2, CloseClients DEF Closed
    <3>4. Moves(Main)
      BY <2>2, <3>1, <3>2, <3>3, ConnectionAssumption DEF Moves
    <3>5. Keeps({})
      BY <2>2, <3>2, <3>3, <3>4 DEF Keeps
    <3> QED
      BY <2>2, <3>5, SettledKeeps
  <2>3. frame[Main].mgr \in Managers
    BY <1>1, <1>4 DEF GattClose, At, TypeInv, FrameOK, Sound
  <2> QED
    BY <1>1, <1>4, <2>1, <2>2, <2>3 DEF GattClose, managerVars, counters
<1>5. CASE StopCharging(Main)
  <2>1. UNCHANGED <<client, mGatt, drops>> /\ frame[Main].step = "stopCharging"
    BY <1>5 DEF StopCharging, At, stackVars, managerVars, counters
  <2>2. ~At(Main, "assign") /\ frame[Main].step \in AfterClose
    BY <2>1 DEF At, AfterClose
  <2>3. Goto(Main, "getMAC") \/ Finish(Main)
    BY <1>5 DEF StopCharging
  <2> QED
    BY <1>1, <2>1, <2>2, <2>3, GotoKeeps, FinishKeeps, SettledKeeps DEF Steps
<1>6. CASE ThreadStep(Main)
  BY <1>1, <1>6, ThreadStepOwes
<1>7. ASSUME NEW s \in Scans, ScanResult(s)
      PROVE  KnownInv' /\ Settled
  <2>1. CASE ProcessDies
    BY <2>1, SettledDeath
  <2>2. CASE UNCHANGED <<client, mGatt, frame, drops>>
    BY <2>2, NothingKeeps, SettledKeeps
  <2> QED
    BY <1>7, <2>1, <2>2 DEF ScanResult, stackVars, managerVars, counters
<1> QED
  BY <1>2, <1>3, <1>4, <1>5, <1>6, <1>7 DEF MainStep

LEMMA CallbackStepOwes ==
    ASSUME TypeInv, KnownInv, NEW g \in Gatts, CallbackStep(g)
    PROVE  KnownInv' /\ Settled
<1>1. /\ client \in [Gatts -> Client] /\ frame \in [Threads -> Frame]
      /\ g \in Threads /\ g # Main
  BY ClientTypes, ConnectionAssumption DEF Threads
<1>2. CASE Connected(g)
  <2>1. UNCHANGED <<mGatt, drops>> /\ frame[g].gatt = None
    BY <1>1, <1>2 DEF Connected, managerVars, counters, At, KnownInv, HoldOK
  <2>2. /\ frame'[g].step = "save" /\ frame'[g].gatt = None
        /\ \A u \in Threads : u # g => frame'[u] = frame[u]
    BY <1>1, <1>2 DEF Connected, Idle
  <2>3. Moves(g)
    BY <1>1, <2>1, <2>2 DEF Moves, Connecting
  <2>4. /\ client'[g].events = Tail(client[g].events)
        /\ client'[g].state = client[g].state /\ client'[g].mgr = client[g].mgr
        /\ \A h \in Gatts : h # g => client'[h] = client[h]
    BY <1>1, <1>2 DEF Connected, Client
  <2>5. Told(g)' <=> Told(g)
    BY <1>2, <2>4, ToldTail DEF Connected
  <2>6. \A h \in Gatts : h # g => (Told(h)' <=> Told(h))
    BY <2>4, ToldKept
  <2>7. Keeps({})
    BY <2>1, <2>2, <2>3, <2>4, <2>5, <2>6 DEF Keeps
  <2> QED
    BY <2>1, <2>7, SettledKeeps
<1>3. CASE Save(g)
  <2>1. UNCHANGED <<client, mGatt, drops>> /\ ~At(g, "assign") /\ Finish(g)
    BY <1>3 DEF Save, At, stackVars, managerVars, counters
  <2> QED
    BY <1>1, <2>1, FinishKeeps, SettledKeeps
<1>4. CASE Disconnected(g)
  <2>1. UNCHANGED <<mGatt, drops>> /\ frame[g].gatt = None
    BY <1>1, <1>4 DEF Disconnected, managerVars, counters, At, KnownInv, HoldOK
  <2>2. /\ frame'[g].gatt = None
        /\ \A u \in Threads : u # g => frame'[u] = frame[u]
    BY <1>1, <1>4 DEF Disconnected, Idle
  <2>3. Told(g)
    <3>1. PICK e \in Seq({"up", "down"}) : e = client[g].events
      BY ClientTypes
    <3>2. e # <<>> /\ e[1] = "down" /\ 1 \in 1..Len(e)
      BY <1>4, <3>1 DEF Disconnected
    <3> QED
      BY <3>1, <3>2 DEF Told
  <2>4. /\ client'[g].state = "closed"
        /\ \A h \in Gatts : h # g => client'[h] = client[h]
        /\ \A h \in Gatts : Told(h)' => Told(h)
    BY <1>4, CloseClients DEF Disconnected, Closed
  <2>5. Moves(g)
    BY <1>1, <2>1, <2>2, <2>3, <2>4 DEF Moves
  <2>6. Keeps({})
    BY <2>1, <2>2, <2>4, <2>5 DEF Keeps
  <2> QED
    BY <2>1, <2>6, SettledKeeps
<1>5. CASE ThreadStep(g)
  BY <1>1, <1>5, ThreadStepOwes
<1> QED
  BY <1>2, <1>3, <1>4, <1>5 DEF CallbackStep

\* Clients that lose their link will be told, and are counted.
LEMMA LoseOwes ==
    ASSUME TypeInv, KnownInv, NEW gs \in SUBSET Gatts,
           \A g \in gs : client[g].state # "closed",
           Lose(gs), UNCHANGED <<mGatt, frame>>
    PROVE  KnownInv' /\ Settled
<1>1. client \in [Gatts -> Client]
  BY ClientTypes
<1>2. \A g \in Gatts :
         IF g \in gs
         THEN client'[g] = [client[g] EXCEPT !.state = "lost", !.events = Append(@, "down")]
         ELSE client'[g] = client[g]
  BY DEF Lose
<1>3. \A g \in gs : client'[g].state = "lost" /\ client'[g].mgr = client[g].mgr
  BY <1>1, <1>2 DEF Client
<1>4. \A g \in Gatts \ gs : client'[g] = client[g] /\ (Told(g)' <=> Told(g))
  BY <1>2, ToldKept
<1>5. Keeps(gs)
  BY <1>3, <1>4 DEF Keeps
<1>6. KnownInv' /\ Owed' \subseteq Owed \cup gs
  BY <1>5, OwedKept
<1>7. drops' = drops + Cardinality(gs)
  BY DEF Lose
<1> QED
  BY <1>6, <1>7 DEF Settled

LEMMA EnvironmentOwes ==
    ASSUME TypeInv, KnownInv, Environment
    PROVE  KnownInv' /\ Settled
<1>1. Main \in Threads /\ client \in [Gatts -> Client]
  BY ClientTypes
<1>2. CASE ClickReset
  <2>1. UNCHANGED <<client, mGatt, drops>> /\ ~At(Main, "assign") /\ Goto(Main, "reset")
    BY <1>2 DEF ClickReset, At, stackVars, managerVars
  <2> QED
    BY <1>1, <2>1, GotoKeeps, SettledKeeps DEF Steps, AfterClose, Connecting
<1>3. ASSUME NEW s \in Scans, ScanTimeout(s)
      PROVE  KnownInv' /\ Settled
  <2>1. CASE ProcessDies
    BY <2>1, SettledDeath
  <2>2. CASE UNCHANGED <<client, mGatt, frame, drops>>
    BY <2>2, NothingKeeps, SettledKeeps
  <2> QED
    BY <1>3, <2>1, <2>2 DEF ScanTimeout, stackVars, managerVars, counters
<1>4. ASSUME NEW g \in Gatts, LinkUp(g)
      PROVE  KnownInv' /\ Settled
  <2>1. UNCHANGED <<frame, mGatt, drops>>
    BY <1>4 DEF LinkUp, managerVars, counters
  <2>2. /\ client'[g].events = Append(client[g].events, "up")
        /\ client[g].state = "connecting" /\ client'[g].mgr = client[g].mgr
        /\ \A h \in Gatts : h # g => client'[h] = client[h]
    BY <1>1, <1>4 DEF LinkUp, Client
  <2>3. Told(g)' <=> Told(g)
    BY <2>2, ToldUp
  <2>4. \A h \in Gatts : h # g => (Told(h)' <=> Told(h))
    BY <2>2, ToldKept
  <2>5. Keeps({})
    BY <2>1, <2>2, <2>3, <2>4, StackKeeps
  <2> QED
    BY <2>1, <2>5, SettledKeeps
<1>5. ASSUME NEW g \in Gatts, ConnectFails(g) \/ DisconnectDone(g)
      PROVE  KnownInv' /\ Settled
  <2>1. /\ UNCHANGED <<mGatt, frame>> /\ Lose({g}) /\ client[g].state # "closed"
    BY <1>5 DEF ConnectFails, DisconnectDone, managerVars
  <2> QED
    BY <2>1, LoseOwes
<1>6. ASSUME NEW a \in Addrs, LinkDrop(a)
      PROVE  KnownInv' /\ Settled
  <2> DEFINE gs == {g \in Gatts : Has(g, a)}
  <2>1. UNCHANGED <<mGatt, frame>> /\ Lose(gs) /\ gs \in SUBSET Gatts
    BY <1>6 DEF LinkDrop, managerVars
  <2>2. \A g \in gs : client[g].state # "closed"
    BY DEF Has, HasLink
  <2> HIDE DEF gs
  <2> QED
    BY <2>1, <2>2, LoseOwes
<1>7. CASE BtDown
  <2>1. UNCHANGED <<frame, mGatt, drops>>
    BY <1>7 DEF BtDown, managerVars, counters
  <2>2. \A g \in Gatts :
           /\ client'[g].events = client[g].events /\ client'[g].mgr = client[g].mgr
           /\ client'[g].state = client[g].state
                 \/ (client[g].state # "closed" /\ client'[g].state = "lost")
    BY <1>1, <1>7 DEF BtDown, Client, Open
  <2>3. \A g \in Gatts : Told(g)' <=> Told(g)
    BY <2>2, ToldKept
  <2>4. Keeps({})
    BY <2>1, <2>2, <2>3, StackKeeps
  <2> QED
    BY <2>1, <2>4, SettledKeeps
<1>8. CASE UNCHANGED <<client, mGatt, frame, drops>>
  BY <1>8, NothingKeeps, SettledKeeps
<1>9. TogglePreference \/ HalDies \/ UserSwitch \/ BtUp => UNCHANGED <<client, mGatt, frame, drops>>
  BY DEF TogglePreference, HalDies, UserSwitch, BtUp, stackVars, managerVars, counters
<1>10. ASSUME NEW m \in Managers, StartService(m)
       PROVE  UNCHANGED <<client, mGatt, frame, drops>>
  BY <1>10 DEF StartService, stackVars
<1>11. ASSUME NEW s \in Scans, PenFound(s)
       PROVE  UNCHANGED <<client, mGatt, frame, drops>>
  BY <1>11 DEF PenFound, stackVars, managerVars, counters
<1>12. ASSUME NEW a \in Addrs, LinkGone(a)
       PROVE  UNCHANGED <<client, mGatt, frame, drops>>
  BY <1>12 DEF LinkGone, managerVars, counters
<1> QED
  BY <1>2, <1>3, <1>4, <1>5, <1>6, <1>7, <1>8, <1>9, <1>10, <1>11, <1>12 DEF Environment

-----------------------------------------------------------------------------
(* No more is owed than was dropped                                        *)

LEMMA OwedFinite ==
    /\ IsFiniteSet(Owed) /\ Cardinality(Owed) \in Nat
    /\ Orphans \subseteq Owed
<1>1. Owed \subseteq Gatts /\ Orphans \subseteq Owed
  BY DEF Owed, Orphans, Pending, Replaced, InUse
<1> QED
  BY <1>1, ConnectionAssumption, FS_Subset, FS_CardinalityType

LEMMA OwedFiniteNext == IsFiniteSet(Owed') /\ Cardinality(Owed') \in Nat
<1>1. Owed' \subseteq Gatts
  BY DEF Owed, Orphans, Pending, Replaced, InUse
<1> QED
  BY <1>1, ConnectionAssumption, FS_Subset, FS_CardinalityType

LEMMA SettledDrops ==
    ASSUME TypeInv, DropInv, Settled
    PROVE  DropInv'
<1>1. drops \in Nat /\ Cardinality(Owed) <= drops
  BY DEF TypeInv, TypeOK, DropInv
<1>2. PICK n \in Nat : n = Cardinality(Owed)
  BY OwedFinite
<1>3. PICK k \in Nat : k = Cardinality(Owed')
  BY OwedFiniteNext
<1>4. k <= drops'
  <2>1. ASSUME NEW gs \in SUBSET Gatts, drops' = drops + Cardinality(gs), Owed' \subseteq Owed \cup gs
        PROVE  k <= drops'
    <3>1. IsFiniteSet(gs) /\ Cardinality(gs) \in Nat
      BY ConnectionAssumption, FS_Subset, FS_CardinalityType
    <3>2. /\ IsFiniteSet(Owed \cup gs)
          /\ Cardinality(Owed \cup gs) = Cardinality(Owed) + Cardinality(gs) - Cardinality(Owed \cap gs)
      BY <3>1, OwedFinite, FS_Union
    <3>3. IsFiniteSet(Owed \cap gs) /\ Cardinality(Owed \cap gs) \in Nat
      <4>1. Owed \cap gs \subseteq gs
        OBVIOUS
      <4> QED
        BY <3>1, <4>1, FS_Subset, FS_CardinalityType
    <3>4. Cardinality(Owed') <= Cardinality(Owed \cup gs)
      BY <2>1, <3>2, FS_Subset
    <3>5. PICK i \in Nat : i = Cardinality(gs)
      BY <3>1
    <3>6. PICK j \in Nat : j = Cardinality(Owed \cap gs)
      BY <3>3
    <3>7. k <= n + i - j
      BY <1>2, <1>3, <3>2, <3>4, <3>5, <3>6
    <3>8. drops' = drops + i /\ n <= drops
      BY <1>1, <1>2, <2>1, <3>5
    <3> QED
      BY <1>1, <3>7, <3>8
  <2>2. ASSUME NEW g \in Owed, NEW h \in Gatts, drops' = drops, Owed' \subseteq (Owed \ {g}) \cup {h}
        PROVE  k <= drops'
    <3>1. IsFiniteSet(Owed \ {g}) /\ Cardinality(Owed \ {g}) = n - 1
      BY <1>2, <2>2, OwedFinite, FS_RemoveElement
    <3>2. IsFiniteSet((Owed \ {g}) \cup {h})
          /\ (Cardinality((Owed \ {g}) \cup {h}) = n - 1 \/ Cardinality((Owed \ {g}) \cup {h}) = (n - 1) + 1)
      BY <3>1, FS_AddElement
    <3>3. Cardinality(Owed') <= Cardinality((Owed \ {g}) \cup {h})
      BY <2>2, <3>2, FS_Subset
    <3>4. PICK c : c = Cardinality((Owed \ {g}) \cup {h})
      OBVIOUS
    <3>5. k <= c /\ (c = n - 1 \/ c = (n - 1) + 1)
      BY <1>3, <3>2, <3>3, <3>4
    <3>6. k <= n
      BY <3>5
    <3> QED
      BY <1>1, <1>2, <2>2, <3>6
  <2> QED
    BY <2>1, <2>2 DEF Settled
<1> QED
  BY <1>3, <1>4 DEF DropInv

LEMMA InitOwes == Init => KnownInv /\ DropInv
<1> SUFFICES ASSUME Init PROVE KnownInv /\ DropInv
  OBVIOUS
<1>1. /\ \A g \in Gatts : client[g].state = "closed" /\ client[g].events = <<>>
      /\ \A t \in Threads : frame[t].step = "idle" /\ frame[t].gatt = None
      /\ drops = 0
  BY DEF Init, Closed, Idle
<1>2. \A g \in Gatts : g \in Threads /\ ~Told(g)
  BY <1>1 DEF Threads, Told
<1>3. KnownInv
  BY <1>1, <1>2, ConnectionAssumption DEF KnownInv, HoldOK, OwnerOK, CallbackOK, Connecting
<1>4. InUse = {}
  BY <1>1 DEF InUse
<1>5. Pending = {}
  BY <1>1, <1>2 DEF Pending, Connecting
<1>6. Owed = {}
  BY <1>4, <1>5 DEF Owed, Orphans, Replaced
<1>7. Cardinality({}) = 0
  BY FS_EmptySet
<1> QED
  BY <1>1, <1>3, <1>6, <1>7 DEF DropInv

LEMMA NextOwes == TypeInv /\ KnownInv /\ DropInv /\ [Next]_vars => KnownInv' /\ DropInv'
<1> SUFFICES ASSUME TypeInv, KnownInv, DropInv, [Next]_vars PROVE KnownInv' /\ DropInv'
  OBVIOUS
<1>1. KnownInv' /\ Settled
  <2>1. CASE UNCHANGED vars
    <3>1. UNCHANGED <<client, mGatt, frame, drops>>
      BY <2>1 DEF vars
    <3> QED
      BY <3>1, NothingKeeps, SettledKeeps
  <2> QED
    BY <2>1, MainStepOwes, CallbackStepOwes, EnvironmentOwes DEF Next
<1> QED
  BY <1>1, SettledDrops

LEMMA AlwaysOwed == Spec => [](KnownInv /\ DropInv)
<1>1. TypeInv /\ (KnownInv /\ DropInv) /\ [Next]_vars => (KnownInv /\ DropInv)'
  BY NextOwes
<1> QED
  BY InitOwes, TypesHold, <1>1, PTL DEF Spec

\* However callbacks and the main thread cross, each client that was told of a
\* disconnection leaves at most one client behind that no manager remembers,
\* for any number of managers, clients, pens and faults.
THEOREM OrphansAreBounded == Spec => []OrphanPerDrop
<1>1. TypeInv /\ DropInv => OrphanPerDrop
  <2> SUFFICES ASSUME TypeInv, DropInv PROVE OrphanPerDrop
    OBVIOUS
  <2>1. Cardinality(Orphans) <= Cardinality(Owed) /\ IsFiniteSet(Orphans)
    BY OwedFinite, FS_Subset
  <2>2. Cardinality(Orphans) \in Nat /\ Cardinality(Owed) \in Nat /\ drops \in Nat
    BY <2>1, OwedFinite, FS_CardinalityType DEF TypeInv, TypeOK
  <2>3. Cardinality(Owed) <= drops
    BY DEF DropInv
  <2> QED
    BY <2>1, <2>2, <2>3 DEF OrphanPerDrop
<1> QED
  BY TypesHold, AlwaysOwed, <1>1, PTL

-----------------------------------------------------------------------------
(* Somebody always sees to it that the pen gets a client                   *)

\* The steps of disconnect(), and those of connect() that come before the
\* client is opened.
Closes == {"gattDisconnect", "gattClose", "stopCharging"}
Opens == Connecting \ {"assign"}

StaleOK == halFaults = 0 => stale = {}

\* The last broadcast says what the adapter is, and disconnect() alone is not
\* the last word while the adapter is on.
Unsaid == inbox # <<>> \/ (frame[Main].step \in Closes /\ ~frame[Main].again)

LastOn == bt = "on" /\ receivers # <<>> /\ Unsaid => inbox # <<>> /\ inbox[Len(inbox)].on

Live == {"connecting", "connected", "closing"}

\* Thread t will open a client for the pen that the HAL remembers: it has yet to
\* read the address, has read it, or has made it the one to connect to.
Aimed(t) ==
    \/ At(t, "getMAC")
    \/ frame[t].step \in {"enable", "startCharging"} /\ frame[t].addr = mac
    \/ frame[t].step \in {"check", "connectGatt"} /\ mSpen[frame[t].mgr] = mac

\* The client g is the pen's, or its callback is going to connect().
Promising(g) == (client[g].state \in Live /\ client[g].addr = mac) \/ Told(g)

\* Where a client is wanted there is one, or one is going to be opened: a
\* broadcast is on its way, disconnect() or connect() is being executed, the
\* pen has a client, or some client will be reported as disconnected.
Hope ==
    \/ inbox # <<>>
    \/ frame[Main].step \in Closes
    \/ \E t \in Threads : Aimed(t)
    \/ \E g \in Gatts : Promising(g)

HopeInv == Wanted => Hope

\* Steps of a thread open clients, or end the process.
LEMMA ThreadStepClients ==
    ASSUME TypeInv, NEW t \in Threads, ThreadStep(t)
    PROVE  \/ ProcessDies
           \/ /\ UNCHANGED linked
              /\ \A g \in Gatts : \/ client'[g] = client[g]
                                  \/ client[g].state = "closed" /\ client'[g].state = "connecting"
<1>1. client \in [Gatts -> Client]
  BY ClientTypes
<1>2. CASE ConnectGatt(t)
  <2>1. UNCHANGED linked
    BY <1>2 DEF ConnectGatt
  <2>2. CASE UNCHANGED client
    BY <2>1, <2>2
  <2>3. ASSUME NEW g \in Gatts, Unused(g),
               client' = [client EXCEPT ![g] =
                             [state |-> "connecting", addr |-> mSpen[frame[t].mgr],
                              mgr |-> frame[t].mgr, events |-> <<>>]]
        PROVE  \A h \in Gatts : \/ client'[h] = client[h]
                                \/ client[h].state = "closed" /\ client'[h].state = "connecting"
    BY <1>1, <2>3 DEF Unused
  <2> QED
    BY <1>2, <2>1, <2>2, <2>3 DEF ConnectGatt
<1>3. CASE StartScan(t)
  BY <1>3 DEF StartScan, stackVars
<1>4. CASE GetMAC(t) \/ Enable(t) \/ StartCharging(t) \/ Check(t) \/ Assign(t) \/ Reset(t) \/ Toggle(t)
  BY <1>4 DEF GetMAC, Enable, StartCharging, Check, Assign, Reset, Toggle, stackVars
<1> QED
  BY <1>2, <1>3, <1>4 DEF ThreadStep

LEMMA NextStale == TypeInv /\ StaleOK /\ [Next]_vars => StaleOK'
<1> SUFFICES ASSUME TypeInv, StaleOK, [Next]_vars PROVE StaleOK'
  OBVIOUS
<1>1. CASE halFaults' = halFaults /\ (stale = {} => stale' = {})
  BY <1>1 DEF StaleOK
<1>2. CASE ProcessDies
  BY <1>2 DEF ProcessDies, StaleOK
<1>3. ASSUME NEW t \in Threads, ThreadStep(t)
      PROVE  StaleOK'
  <2>1. CASE Reset(t)
    <3>1. halFaults' = halFaults /\ (stale' = stale \ {t} \/ stale' = stale)
      BY <2>1 DEF Reset, counters
    <3> QED
      BY <3>1, <1>1
  <2>2. CASE StartScan(t)
    <3>1. ASSUME NEW s \in Scans, stale' = (IF t \in stale THEN stale \cup {s} ELSE stale \ {s})
          PROVE  stale = {} => stale' = {}
      BY <3>1
    <3> QED
      BY <2>2, <3>1, <1>1, <1>2 DEF StartScan, counters, halVars
  <2>3. CASE GetMAC(t) \/ Enable(t) \/ StartCharging(t) \/ Check(t) \/ ConnectGatt(t) \/ Assign(t)
             \/ Toggle(t)
    <3>1. halFaults' = halFaults /\ stale' = stale
      BY <2>3 DEF GetMAC, Enable, StartCharging, Check, ConnectGatt, Assign, Toggle, counters, halVars
    <3> QED
      BY <3>1, <1>1
  <2> QED
    BY <1>3, <2>1, <2>2, <2>3 DEF ThreadStep
<1>4. CASE MainStep
  <2>1. Main \in Threads
    BY DEF Threads
  <2>2. ASSUME NEW s \in Scans, ScanResult(s)
        PROVE  ProcessDies \/ (halFaults' = halFaults /\ stale' = stale)
    BY <2>2 DEF ScanResult, counters
  <2>3. Receive \/ GattDisconnect(Main) \/ StopCharging(Main)
           => halFaults' = halFaults /\ stale' = stale
    BY DEF Receive, GattDisconnect, StopCharging, counters, halVars
  <2>4. GattClose(Main) => ProcessDies \/ (halFaults' = halFaults /\ stale' = stale)
    BY DEF GattClose, counters, halVars
  <2> QED
    BY <1>1, <1>2, <1>3, <1>4, <2>1, <2>2, <2>3, <2>4 DEF MainStep
<1>5. ASSUME NEW g \in Gatts, CallbackStep(g)
      PROVE  StaleOK'
  <2>1. g \in Threads
    BY DEF Threads
  <2>2. Connected(g) \/ Save(g) \/ Disconnected(g) => halFaults' = halFaults /\ stale' = stale
    BY DEF Connected, Save, Disconnected, counters, halVars
  <2> QED
    BY <1>1, <1>3, <1>5, <2>1, <2>2 DEF CallbackStep
<1>6. CASE Environment
  <2>1. HalDies => halFaults' # 0
    BY DEF HalDies, TypeInv, TypeOK
  <2>2. ASSUME NEW m \in Managers, StartService(m)
        PROVE  halFaults' = halFaults /\ stale' = stale \ {m}
    BY <2>2 DEF StartService
  <2>3. ASSUME NEW s \in Scans, ScanTimeout(s) \/ PenFound(s)
        PROVE  ProcessDies \/ (halFaults' = halFaults /\ stale' = stale)
    BY <2>3 DEF ScanTimeout, PenFound, counters, halVars
  <2>4. ASSUME NEW g \in Gatts, LinkUp(g) \/ ConnectFails(g) \/ DisconnectDone(g)
        PROVE  halFaults' = halFaults /\ stale' = stale
    BY <2>4 DEF LinkUp, ConnectFails, DisconnectDone, counters, halVars
  <2>5. ASSUME NEW a \in Addrs, LinkDrop(a) \/ LinkGone(a)
        PROVE  halFaults' = halFaults /\ stale' = stale
    BY <2>5 DEF LinkDrop, LinkGone, counters, halVars
  <2>6. TogglePreference \/ ClickReset \/ UserSwitch \/ BtDown \/ BtUp
           => halFaults' = halFaults /\ stale' = stale
    BY DEF TogglePreference, ClickReset, UserSwitch, BtDown, BtUp, counters, halVars
  <2>7. halFaults' # 0 => StaleOK'
    BY DEF StaleOK
  <2> QED
    BY <1>1, <1>2, <1>6, <2>1, <2>2, <2>3, <2>4, <2>5, <2>6, <2>7 DEF Environment
<1>7. CASE UNCHANGED vars
  BY <1>7 DEF vars, StaleOK
<1> QED
  BY <1>4, <1>5, <1>6, <1>7 DEF Next

-----------------------------------------------------------------------------
(* The last broadcast tells the truth                                      *)

LEMMA LastKept ==
    ASSUME LastOn, UNCHANGED inbox, bt' = "on" => bt = "on",
           receivers' # <<>> => receivers # <<>>,
           frame'[Main].step \in Closes /\ ~frame'[Main].again
              => frame[Main].step \in Closes /\ ~frame[Main].again
    PROVE  LastOn'
  BY DEF LastOn, Unsaid

LEMMA LastPosted ==
    ASSUME TypeInv, NEW x \in Seq(Broadcast), x # <<>>, x[Len(x)].on, inbox' = inbox \o x
    PROVE  LastOn' /\ inbox' # <<>>
<1>1. inbox \in Seq(Broadcast)
  BY DEF TypeInv, TypeOK, Broadcast
<1>2. PICK i \in Seq(Broadcast) : i = inbox
  BY <1>1
<1>3. /\ Len(i \o x) = Len(i) + Len(x) /\ Len(x) \in Nat \ {0} /\ Len(i) \in Nat
      /\ \A k \in 1..(Len(i) + Len(x)) :
            (i \o x)[k] = IF k <= Len(i) THEN i[k] ELSE x[k - Len(i)]
  OBVIOUS
<1>4. /\ Len(i) + Len(x) \in 1..(Len(i) + Len(x)) /\ ~(Len(i) + Len(x) <= Len(i))
      /\ (Len(i) + Len(x)) - Len(i) = Len(x)
  BY <1>3
<1>5. i \o x # <<>> /\ (i \o x)[Len(i \o x)] = x[Len(x)]
  BY <1>3, <1>4
<1> QED
  BY <1>2, <1>5 DEF LastOn, Unsaid

LEMMA PostedLast ==
    ASSUME receivers \in Seq(Managers), receivers # <<>>
    PROVE  Posted(TRUE) # <<>> /\ Posted(TRUE)[Len(Posted(TRUE))].on
<1>1. Len(receivers) \in Nat \ {0}
  OBVIOUS
<1>2. PICK n \in Nat \ {0} : n = Len(receivers)
  BY <1>1
<1>3. Posted(TRUE) = [i \in 1..n |-> [mgr |-> receivers[i], on |-> TRUE]]
  BY <1>2 DEF Posted
<1>4. PICK p : p = [i \in 1..n |-> [mgr |-> receivers[i], on |-> TRUE]]
  OBVIOUS
<1>5. Len(p) = n /\ n \in 1..n
  BY <1>4
<1>6. p[n].on
  BY <1>4, <1>5
<1>7. p # <<>>
  BY <1>5
<1> QED
  BY <1>3, <1>4, <1>5, <1>6, <1>7

LEMMA OffOnLast ==
    ASSUME receivers \in Seq(Managers), receivers # <<>>
    PROVE  OffOn # <<>> /\ OffOn[Len(OffOn)].on
<1>1. PICK u \in Seq(Broadcast) : u = Posted(FALSE)
  BY PostedType
<1>2. PICK v \in Seq(Broadcast) : v = Posted(TRUE)
  BY PostedType
<1>3. v # <<>> /\ v[Len(v)].on
  BY <1>2, PostedLast
<1>4. /\ Len(u \o v) = Len(u) + Len(v) /\ Len(v) \in Nat \ {0} /\ Len(u) \in Nat
      /\ \A k \in 1..(Len(u) + Len(v)) :
            (u \o v)[k] = IF k <= Len(u) THEN u[k] ELSE v[k - Len(u)]
  BY <1>3
<1>5. /\ Len(u) + Len(v) \in 1..(Len(u) + Len(v)) /\ ~(Len(u) + Len(v) <= Len(u))
      /\ (Len(u) + Len(v)) - Len(u) = Len(v)
  BY <1>4
<1>6. u \o v # <<>> /\ (u \o v)[Len(u \o v)] = v[Len(v)]
  BY <1>4, <1>5
<1> QED
  BY <1>1, <1>2, <1>3, <1>6 DEF OffOn

\* A broadcast that fakes or reports "on" is the last word.
LEMMA LastOffOn ==
    ASSUME TypeInv, receivers' = receivers, inbox' = inbox \o OffOn
    PROVE  LastOn' /\ (receivers # <<>> => inbox' # <<>>)
<1>1. receivers \in Seq(Managers)
  BY DEF TypeInv, TypeOK
<1>2. CASE receivers = <<>>
  BY <1>2 DEF LastOn, Unsaid
<1>3. CASE receivers # <<>>
  BY <1>1, <1>3, OffOnLast, OffOnType, LastPosted
<1> QED
  BY <1>2, <1>3

LEMMA LastPostedOn ==
    ASSUME TypeInv, receivers' = receivers, inbox' = inbox \o Posted(TRUE)
    PROVE  LastOn' /\ (receivers # <<>> => inbox' # <<>>)
<1>1. receivers \in Seq(Managers)
  BY DEF TypeInv, TypeOK
<1>2. CASE receivers = <<>>
  BY <1>2 DEF LastOn, Unsaid
<1>3. CASE receivers # <<>>
  BY <1>1, <1>3, PostedLast, PostedType, LastPosted
<1> QED
  BY <1>2, <1>3

LEMMA LastService ==
    ASSUME TypeInv, NEW m \in Managers, StartService(m)
    PROVE  LastOn' /\ (bt' = "on" => inbox' # <<>>)
<1>1. CASE bt = "on"
  <2>1. receivers \in Seq(Managers) /\ Len(receivers) \in Nat
    BY DEF TypeInv, TypeOK
  <2>2. PICK n \in Nat \ {0} : n = Len(receivers) + 1
    BY <2>1
  <2>3. PICK r \in Seq(Managers) : r = Append(receivers, m)
    <3>1. Append(receivers, m) \in Seq(Managers)
      BY <2>1
    <3> QED
      BY <3>1, Zenon
  <2>4. Len(r) = n /\ \A i \in 1..n : r[i] \in Managers
    BY <2>1, <2>2, <2>3
  <2> DEFINE x == [i \in 1..n |-> [mgr |-> r[i], on |-> TRUE]]
  <2>5. inbox' = inbox \o x
    <3>1. inbox' = inbox \o [i \in 1..(Len(receivers) + 1) |->
                                [mgr |-> Append(receivers, m)[i], on |-> bt = "on"]]
      BY <1>1 DEF StartService
    <3>2. (bt = "on") = TRUE
      BY <1>1
    <3> QED
      BY <3>1, <3>2, <2>2, <2>3
  <2>6. x \in [1..n -> Broadcast]
    BY <2>4 DEF Broadcast
  <2>7. x[n].on
    BY <2>2
  <2> HIDE DEF x
  <2>8. x \in Seq(Broadcast) /\ Len(x) = n
    BY <2>6
  <2>9. x # <<>>
    BY <2>8
  <2> QED
    BY <2>5, <2>7, <2>8, <2>9, LastPosted
<1>2. CASE bt # "on"
  BY <1>2 DEF LastOn, Unsaid, StartService, stackVars
<1> QED
  BY <1>1, <1>2

\* A thread in connect() or resetSPenMAC() stays there until it is done, and
\* changes neither the settings nor the broadcasts.
LEMMA ThreadStepFrames ==
    ASSUME TypeInv, NEW t \in Threads, ThreadStep(t)
    PROVE  \/ ProcessDies
           \/ /\ UNCHANGED <<inbox, receivers, enabled, mac, halFaults>> /\ (bt' = "on" => bt = "on")
              /\ ~(frame[t].step \in Closes) /\ ~(frame'[t].step \in Closes)
              /\ \A u \in Threads : u # t => frame'[u] = frame[u]
<1>1. frame \in [Threads -> Frame]
  BY ClientTypes
<1>2. ASSUME NEW step \in Steps \ Closes, Goto(t, step)
      PROVE  /\ ~(frame'[t].step \in Closes)
             /\ \A u \in Threads : u # t => frame'[u] = frame[u]
  <2>1. frame'[t].step = step
    BY <1>1, <1>2 DEF Goto, Frame
  <2> QED
    BY <1>1, <1>2, <2>1 DEF Goto
<1>3. ASSUME Finish(t)
      PROVE  /\ ~(frame'[t].step \in Closes)
             /\ \A u \in Threads : u # t => frame'[u] = frame[u]
  BY <1>1, <1>3 DEF Finish, Idle, Closes
<1>4. CASE GetMAC(t)
  <2>1. /\ UNCHANGED <<inbox, receivers, enabled, mac, halFaults, bt>> /\ ~(frame[t].step \in Closes)
    BY <1>4 DEF GetMAC, At, Closes, stackVars, prefVars, managerVars, halVars, counters
  <2>2. CASE frame' = [frame EXCEPT ![t].addr = mac, ![t].step = "enable"]
    BY <1>1, <2>1, <2>2 DEF Frame, Closes
  <2> QED
    BY <1>4, <2>1, <2>2, <1>3 DEF GetMAC
<1>5. CASE Enable(t)
  <2>1. /\ UNCHANGED <<inbox, receivers, enabled, mac, halFaults>> /\ (bt' = "on" => bt = "on")
        /\ ~(frame[t].step \in Closes) /\ (Goto(t, "reset") \/ Goto(t, "startCharging"))
    BY <1>5 DEF Enable, At, Closes, prefVars, halVars, counters
  <2> QED
    BY <2>1, <1>2 DEF Steps, Closes
<1>6. CASE StartCharging(t)
  <2>1. /\ UNCHANGED <<inbox, receivers, enabled, mac, halFaults, bt>>
        /\ ~(frame[t].step \in Closes) /\ (Goto(t, "check") \/ Finish(t))
    BY <1>6 DEF StartCharging, At, Closes, stackVars, prefVars, counters
  <2> QED
    BY <2>1, <1>2, <1>3 DEF Steps, Closes
<1>7. CASE Check(t)
  <2>1. /\ UNCHANGED <<inbox, receivers, enabled, mac, halFaults, bt>>
        /\ ~(frame[t].step \in Closes) /\ (Goto(t, "connectGatt") \/ Finish(t))
    BY <1>7 DEF Check, At, Closes, stackVars, prefVars, managerVars, halVars, counters
  <2> QED
    BY <2>1, <1>2, <1>3 DEF Steps, Closes
<1>8. CASE ConnectGatt(t)
  <2>1. /\ UNCHANGED <<inbox, receivers, enabled, mac, halFaults, bt>>
        /\ ~(frame[t].step \in Closes)
    BY <1>8 DEF ConnectGatt, At, Closes, prefVars, managerVars, halVars, counters
  <2>2. PICK g \in Gatts \cup {None} : frame' = [frame EXCEPT ![t].gatt = g, ![t].step = "assign"]
    BY <1>8 DEF ConnectGatt
  <2> QED
    BY <1>1, <2>1, <2>2 DEF Frame, Closes
<1>9. CASE Assign(t)
  <2>1. /\ UNCHANGED <<inbox, receivers, enabled, mac, halFaults, bt>>
        /\ ~(frame[t].step \in Closes) /\ Finish(t)
    BY <1>9 DEF Assign, At, Closes, stackVars, prefVars, halVars, counters
  <2> QED
    BY <2>1, <1>3
<1>10. CASE Reset(t)
  <2>1. /\ UNCHANGED <<inbox, receivers, enabled, mac, halFaults, bt>>
        /\ ~(frame[t].step \in Closes) /\ (Goto(t, "toggleOff") \/ Finish(t))
    BY <1>10 DEF Reset, At, Closes, stackVars, prefVars, managerVars, counters
  <2> QED
    BY <2>1, <1>2, <1>3 DEF Steps, Closes
<1>11. CASE Toggle(t)
  <2>1. /\ UNCHANGED <<inbox, receivers, enabled, mac, halFaults, bt>>
        /\ ~(frame[t].step \in Closes) /\ (Goto(t, "toggleOn") \/ Goto(t, "startScan"))
    BY <1>11 DEF Toggle, At, Closes, stackVars, prefVars, managerVars, counters
  <2> QED
    BY <2>1, <1>2 DEF Steps, Closes
<1>12. CASE StartScan(t)
  <2>1. \/ ProcessDies
        \/ /\ UNCHANGED <<inbox, receivers, enabled, mac, halFaults, bt>>
           /\ ~(frame[t].step \in Closes) /\ Finish(t)
    BY <1>12 DEF StartScan, At, Closes, stackVars, prefVars, managerVars, halVars, counters
  <2> QED
    BY <2>1, <1>3
<1> QED
  BY <1>4, <1>5, <1>6, <1>7, <1>8, <1>9, <1>10, <1>11, <1>12 DEF ThreadStep

LEMMA LastDeath == ProcessDies => LastOn'
  BY DEF ProcessDies, LastOn, Unsaid

LEMMA LastThreadStep ==
    ASSUME TypeInv, LastOn, NEW t \in Threads, ThreadStep(t)
    PROVE  LastOn'
<1>1. Main \in Threads
  BY DEF Threads
<1> QED
  BY <1>1, ThreadStepFrames, LastDeath, LastKept

LEMMA EmptyBroadcasts ==
    ASSUME NEW i \in Seq(Broadcast), i # <<>>
    PROVE  Tail(i) = <<>> <=> Len(i) = 1
<1>1. Tail(i) \in Seq(Broadcast) /\ Len(Tail(i)) = Len(i) - 1 /\ Len(i) \in Nat
  OBVIOUS
<1>2. \A x \in Seq(Broadcast) : x = <<>> <=> Len(x) = 0
  OBVIOUS
<1>3. Len(i) - 1 = 0 <=> Len(i) = 1
  BY <1>1
<1> QED
  BY <1>1, <1>2, <1>3

LEMMA LastMainStep == TypeInv /\ LastOn /\ MainStep => LastOn'
<1> SUFFICES ASSUME TypeInv, LastOn, MainStep PROVE LastOn'
  OBVIOUS
<1>1. Main \in Threads /\ frame \in [Threads -> Frame]
  BY ClientTypes
<1>2. CASE Receive
  <2>1. PICK i \in Seq(Broadcast) : i = inbox
    BY DEF TypeInv, TypeOK, Broadcast
  <2>2. /\ i # <<>> /\ inbox' = Tail(i) /\ frame[Main].step = "idle"
        /\ UNCHANGED <<bt, receivers>>
    BY <1>2, <2>1 DEF Receive, At, stackVars, managerVars
  <2>3. /\ Len(i) \in Nat \ {0} /\ Len(Tail(i)) = Len(i) - 1 /\ Head(i) = i[1]
        /\ \A k \in 1..(Len(i) - 1) : Tail(i)[k] = i[k + 1]
    BY <2>2
  <2> SUFFICES ASSUME bt = "on", receivers # <<>>,
                      Tail(i) # <<>> \/ (frame'[Main].step \in Closes /\ ~frame'[Main].again)
               PROVE  Tail(i) # <<>> /\ Tail(i)[Len(Tail(i))].on
    BY <2>2 DEF LastOn, Unsaid
  <2>4. i[Len(i)].on
    BY <2>1, <2>2 DEF LastOn, Unsaid
  <2>5. CASE Len(i) = 1
    <3>1. Tail(i) = <<>>
      BY <2>1, <2>2, <2>3, <2>5, EmptyBroadcasts
    <3>2. Head(i).on
      BY <2>3, <2>4, <2>5
    <3>3. CASE UNCHANGED frame
      BY <3>1, <3>3, <2>2 DEF Closes
    <3>4. CASE frame' = [frame EXCEPT ![Main] = [Idle EXCEPT !.step = "gattDisconnect",
                                                             !.mgr = Head(inbox).mgr,
                                                             !.again = Head(inbox).on]]
      <4>1. frame'[Main].again = Head(i).on
        BY <1>1, <2>1, <3>4 DEF Idle
      <4> QED
        BY <3>1, <3>2, <4>1
    <3> QED
      BY <1>2, <3>3, <3>4 DEF Receive
  <2>6. CASE Len(i) # 1
    <3>1. Len(i) - 1 \in 1..(Len(i) - 1) /\ (Len(i) - 1) + 1 = Len(i)
      BY <2>3, <2>6
    <3>2. Tail(i)[Len(Tail(i))] = i[Len(i)]
      BY <2>3, <3>1
    <3>3. Tail(i) # <<>>
      BY <2>1, <2>2, <2>3, <2>6, EmptyBroadcasts
    <3> QED
      BY <3>2, <3>3, <2>4
  <2> QED
    BY <2>5, <2>6
<1>3. CASE GattDisconnect(Main)
  <2>1. UNCHANGED <<inbox, bt, receivers>> /\ frame[Main].step \in Closes
    BY <1>3 DEF GattDisconnect, At, Closes, managerVars
  <2>2. frame'[Main].again = frame[Main].again
    BY <1>1, <1>3 DEF GattDisconnect, Goto, Frame
  <2> QED
    BY <2>1, <2>2, LastKept
<1>4. CASE GattClose(Main)
  <2>1. CASE ProcessDies
    BY <2>1, LastDeath
  <2>2. CASE UNCHANGED <<inbox, bt, receivers>> /\ Goto(Main, "stopCharging")
    <3>1. frame[Main].step \in Closes
      BY <1>4 DEF GattClose, At, Closes
    <3>2. frame'[Main].again = frame[Main].again
      BY <1>1, <2>2 DEF Goto, Frame
    <3> QED
      BY <2>2, <3>1, <3>2, LastKept
  <2> QED
    BY <1>4, <2>1, <2>2 DEF GattClose, managerVars
<1>5. CASE StopCharging(Main)
  <2>1. UNCHANGED <<inbox, bt, receivers>> /\ (Goto(Main, "getMAC") \/ Finish(Main))
    BY <1>5 DEF StopCharging, stackVars, managerVars
  <2>2. ~(frame'[Main].step \in Closes)
    BY <1>1, <2>1 DEF Goto, Finish, Frame, Idle, Closes
  <2> QED
    BY <2>1, <2>2, LastKept
<1>6. CASE ThreadStep(Main)
  BY <1>1, <1>6, LastThreadStep
<1>7. ASSUME NEW s \in Scans, ScanResult(s)
      PROVE  LastOn'
  BY <1>7, LastDeath, LastOffOn DEF ScanResult, managerVars
<1> QED
  BY <1>2, <1>3, <1>4, <1>5, <1>6, <1>7 DEF MainStep

LEMMA LastCallbackStep ==
    ASSUME TypeInv, LastOn, NEW g \in Gatts, CallbackStep(g)
    PROVE  LastOn'
<1>1. g \in Threads /\ g # Main /\ frame \in [Threads -> Frame] /\ Main \in Threads
  BY ClientTypes, ConnectionAssumption DEF Threads
<1>2. CASE Connected(g) \/ Save(g) \/ Disconnected(g)
  <2>1. UNCHANGED <<inbox, bt, receivers>>
    BY <1>2 DEF Connected, Save, Disconnected, stackVars, managerVars
  <2>2. frame'[Main] = frame[Main]
    BY <1>1, <1>2 DEF Connected, Save, Disconnected, Finish
  <2> QED
    BY <2>1, <2>2, LastKept
<1>3. CASE ThreadStep(g)
  BY <1>1, <1>3, LastThreadStep
<1> QED
  BY <1>2, <1>3 DEF CallbackStep

LEMMA LastEnvironment == TypeInv /\ LastOn /\ Environment => LastOn'
<1> SUFFICES ASSUME TypeInv, LastOn, Environment PROVE LastOn'
  OBVIOUS
<1>1. Main \in Threads /\ frame \in [Threads -> Frame]
  BY ClientTypes
<1>2. CASE UNCHANGED <<inbox, bt, receivers, frame>>
  BY <1>2, LastKept
<1>3. ASSUME NEW m \in Managers, StartService(m)
      PROVE  LastOn'
  BY <1>3, LastService
<1>4. CASE TogglePreference
  <2>1. CASE bt = "on"
    BY <1>4, <2>1, LastOffOn DEF TogglePreference, managerVars
  <2>2. CASE bt # "on"
    BY <1>4, <2>2 DEF TogglePreference, stackVars, LastOn, Unsaid
  <2> QED
    BY <2>1, <2>2
<1>5. CASE ClickReset
  <2>1. UNCHANGED <<inbox, bt, receivers>> /\ Goto(Main, "reset")
    BY <1>5 DEF ClickReset, stackVars, managerVars
  <2>2. ~(frame'[Main].step \in Closes)
    BY <1>1, <2>1 DEF Goto, Frame, Closes
  <2> QED
    BY <2>1, <2>2, LastKept
<1>6. ASSUME NEW s \in Scans, ScanTimeout(s)
      PROVE  LastOn'
  BY <1>2, <1>6, LastDeath DEF ScanTimeout, stackVars, managerVars
<1>7. CASE UserSwitch
  BY <1>7 DEF UserSwitch, LastOn, Unsaid
<1>8. CASE BtDown
  BY <1>8 DEF BtDown, LastOn, Unsaid
<1>9. CASE BtUp
  BY <1>9, LastPostedOn DEF BtUp, managerVars
<1>10. CASE HalDies
  BY <1>2, <1>10 DEF HalDies, stackVars, managerVars
<1>11. ASSUME NEW s \in Scans, PenFound(s)
       PROVE  UNCHANGED <<inbox, bt, receivers, frame>>
  BY <1>11 DEF PenFound, stackVars, managerVars
<1>12. ASSUME NEW g \in Gatts, LinkUp(g) \/ ConnectFails(g) \/ DisconnectDone(g)
       PROVE  UNCHANGED <<inbox, bt, receivers, frame>>
  BY <1>12 DEF LinkUp, ConnectFails, DisconnectDone, managerVars
<1>13. ASSUME NEW a \in Addrs, LinkDrop(a) \/ LinkGone(a)
       PROVE  UNCHANGED <<inbox, bt, receivers, frame>>
  BY <1>13 DEF LinkDrop, LinkGone, managerVars
<1> QED
  BY <1>2, <1>3, <1>4, <1>5, <1>6, <1>7, <1>8, <1>9, <1>10, <1>11, <1>12, <1>13 DEF Environment

LEMMA NextLast == TypeInv /\ LastOn /\ [Next]_vars => LastOn'
<1> SUFFICES ASSUME TypeInv, LastOn, [Next]_vars PROVE LastOn'
  OBVIOUS
<1>1. CASE UNCHANGED vars
  BY <1>1, LastKept DEF vars
<1> QED
  BY <1>1, LastMainStep, LastCallbackStep, LastEnvironment DEF Next

-----------------------------------------------------------------------------
(* Hope is kept                                                            *)

\* What does not change whether a client is wanted.
LEMMA WantedBefore ==
    ASSUME UNCHANGED <<receivers, enabled, mac, halFaults, misled, overtaken>>,
           bt' = "on" => bt = "on", Wanted'
    PROVE  Wanted
  BY DEF Wanted

LEMMA NoneWanted == ProcessDies => ~Wanted'
  BY DEF ProcessDies, Wanted

\* A thread that has read the address is aimed at the pen.
LEMMA ReadingAims ==
    ASSUME TypeInv, StaleOK, NEW t \in Threads, GetMAC(t), Wanted'
    PROVE  Hope'
<1>1. frame \in [Threads -> Frame] /\ frame[t] \in Frame
  BY ClientTypes
<1>2. halFaults' = 0 /\ UNCHANGED <<halFaults, mac>>
  BY DEF GetMAC, Wanted, halVars, counters
<1>3. stale = {}
  BY <1>2 DEF StaleOK
<1>4. frame' = [frame EXCEPT ![t].addr = mac, ![t].step = "enable"]
  BY <1>3 DEF GetMAC
<1>5. frame'[t].step = "enable" /\ frame'[t].addr = mac'
  BY <1>1, <1>2, <1>4 DEF Frame
<1> QED
  BY <1>5 DEF Hope, Aimed

\* The other steps forget nothing of what has gone wrong, and make no other
\* pen than the remembered one the one to connect to.
LEMMA ThreadStepKeepsAim ==
    ASSUME TypeInv, NEW t \in Threads, ThreadStep(t), ~GetMAC(t), Wanted'
    PROVE  /\ ~misled /\ ~overtaken
           /\ \A m \in Managers : mSpen'[m] = mSpen[m] \/ mSpen'[m] = mac
<1>1. ~misled' /\ ~overtaken' /\ ~ProcessDies
  BY NoneWanted DEF Wanted
<1>2. CASE StartCharging(t)
  <2>1. UNCHANGED misled /\ overtaken' = (overtaken \/ frame[t].addr # mac)
    BY <1>2 DEF StartCharging
  <2>2. ~overtaken /\ frame[t].addr = mac
    BY <1>1, <2>1, Zenon
  <2>3. mSpen' = [mSpen EXCEPT ![frame[t].mgr] = frame[t].addr] /\ mSpen \in [Managers -> Addrs \cup {None}]
    BY <1>2 DEF StartCharging, TypeInv, TypeOK
  <2>4. \A m \in Managers : mSpen'[m] = mSpen[m] \/ mSpen'[m] = mac
    BY <2>2, <2>3
  <2> QED
    BY <1>1, <2>1, <2>2, <2>4
<1>3. CASE Check(t)
  <2>1. /\ UNCHANGED <<overtaken, mSpen>>
        /\ \/ UNCHANGED misled
           \/ misled' = (misled \/ \A g \in Gatts : ~Has(g, mSpen[frame[t].mgr]))
    BY <1>3 DEF Check, managerVars
  <2>2. ~misled
    BY <1>1, <2>1, Zenon
  <2> QED
    BY <1>1, <2>1, <2>2
<1>4. CASE Enable(t) \/ ConnectGatt(t) \/ Assign(t) \/ Reset(t) \/ Toggle(t)
  <2>1. UNCHANGED <<misled, overtaken, mSpen>>
    BY <1>4 DEF Enable, ConnectGatt, Assign, Reset, Toggle, history, managerVars
  <2> QED
    BY <1>1, <2>1
<1>5. CASE StartScan(t)
  <2>1. UNCHANGED <<misled, overtaken, mSpen>>
    BY <1>1, <1>5 DEF StartScan, history, managerVars
  <2> QED
    BY <1>1, <2>1
<1> QED
  BY <1>2, <1>3, <1>4, <1>5 DEF ThreadStep

\* A thread that is aimed at the pen goes on, or has found or opened a client.
LEMMA OpenerGoesOn ==
    ASSUME TypeInv, StaleOK, Wanted, Wanted',
           NEW t \in Threads, Aimed(t), ThreadStep(t), ~GetMAC(t)
    PROVE  Aimed(t)' \/ \E g \in Gatts : Promising(g)'
<1>1. /\ frame \in [Threads -> Frame] /\ frame[t] \in Frame
      /\ client \in [Gatts -> Client] /\ FrameOK
      /\ mSpen \in [Managers -> Addrs \cup {None}]
  BY ClientTypes DEF TypeInv, TypeOK
<1>2. stale = {} /\ mac # NoAddr /\ bt = "on" /\ ~misled'
  BY DEF StaleOK, Wanted
<1>3. ASSUME NEW step \in Steps, Goto(t, step)
      PROVE  frame'[t].step = step /\ frame'[t].addr = frame[t].addr /\ frame'[t].mgr = frame[t].mgr
  BY <1>1, <1>3 DEF Goto, Frame
<1>4. ~At(t, "getMAC")
  <2>1. CASE At(t, "getMAC")
    BY <2>1 DEF ThreadStep, GetMAC, Enable, StartCharging, Check, ConnectGatt, Assign, Reset,
                Toggle, StartScan, At
  <2> QED
    BY <2>1
<1>5. CASE Enable(t)
  <2>1. frame[t].addr = mac /\ mac' = mac
    BY <1>5 DEF Enable, Aimed, At, halVars
  <2>2. Goto(t, "startCharging")
    BY <1>2, <1>5, <2>1 DEF Enable
  <2> QED
    BY <2>1, <2>2, <1>3 DEF Steps, Aimed
<1>6. CASE StartCharging(t)
  <2>1. frame[t].addr = mac /\ mac' = mac /\ frame[t].mgr \in Managers
    BY <1>1, <1>6 DEF StartCharging, Aimed, At, FrameOK, Sound
  <2>2. Goto(t, "check") /\ mSpen' = [mSpen EXCEPT ![frame[t].mgr] = frame[t].addr]
    BY <1>2, <1>6 DEF StartCharging
  <2>3. frame'[t].step = "check" /\ frame'[t].mgr = frame[t].mgr
    BY <2>2, <1>3 DEF Steps
  <2>4. mSpen'[frame[t].mgr] = mac
    BY <1>1, <2>1, <2>2
  <2> QED
    BY <2>1, <2>3, <2>4 DEF Aimed
<1>7. CASE Check(t)
  <2>1. mSpen[frame[t].mgr] = mac /\ UNCHANGED <<mac, mSpen, client>>
    BY <1>7 DEF Check, Aimed, At, halVars, managerVars, stackVars
  <2>2. CASE Goto(t, "connectGatt")
    <3>1. frame'[t].step = "connectGatt" /\ frame'[t].mgr = frame[t].mgr
      BY <2>2, <1>3 DEF Steps
    <3> QED
      BY <2>1, <3>1 DEF Aimed
  <2>3. CASE misled' = (misled \/ \A g \in Gatts : ~Has(g, mSpen[frame[t].mgr]))
    <3>1. \E g \in Gatts : Has(g, mSpen[frame[t].mgr])
      BY <1>2, <2>3, Zenon
    <3>2. PICK g \in Gatts : HasLink(g) /\ client[g].addr = mac
      BY <2>1, <3>1 DEF Has
    <3>3. client'[g].state \in Live /\ client'[g].addr = mac'
      BY <2>1, <3>2 DEF HasLink, Live
    <3> QED
      BY <3>3 DEF Promising
  <2> QED
    BY <1>7, <2>2, <2>3 DEF Check
<1>8. CASE ConnectGatt(t)
  <2>1. mSpen[frame[t].mgr] = mac /\ mac' = mac
    BY <1>8 DEF ConnectGatt, Aimed, At, halVars
  <2>2. PICK g \in Gatts :
           client' = [client EXCEPT ![g] = [state |-> "connecting", addr |-> mSpen[frame[t].mgr],
                                            mgr |-> frame[t].mgr, events |-> <<>>]]
    BY <1>2, <1>8 DEF ConnectGatt
  <2>3. client'[g].state = "connecting" /\ client'[g].addr = mac'
    BY <1>1, <2>1, <2>2
  <2> QED
    BY <2>3 DEF Promising, Live
<1>9. ~Assign(t) /\ ~Reset(t) /\ ~Toggle(t) /\ ~StartScan(t)
  BY DEF Assign, Reset, Toggle, StartScan, At, Aimed
<1> QED
  BY <1>5, <1>6, <1>7, <1>8, <1>9 DEF ThreadStep

LEMMA HopeThreadStep ==
    ASSUME TypeInv, StaleOK, HopeInv, NEW t \in Threads, ThreadStep(t)
    PROVE  HopeInv'
<1> SUFFICES ASSUME Wanted', ~GetMAC(t) PROVE Hope'
  BY ReadingAims DEF HopeInv
<1>1. /\ UNCHANGED <<inbox, receivers, enabled, mac, halFaults>> /\ (bt' = "on" => bt = "on")
      /\ ~(frame[t].step \in Closes)
      /\ \A u \in Threads : u # t => frame'[u] = frame[u]
  BY ThreadStepFrames, NoneWanted
<1>2. /\ ~misled /\ ~overtaken
      /\ \A m \in Managers : mSpen'[m] = mSpen[m] \/ mSpen'[m] = mac
  BY ThreadStepKeepsAim
<1>3. Wanted /\ Hope
  BY <1>1, <1>2 DEF HopeInv, Wanted
<1>4. \A g \in Gatts : \/ client'[g] = client[g]
                       \/ client[g].state = "closed" /\ client'[g].state = "connecting"
  BY ThreadStepClients, NoneWanted
<1>5. CASE inbox # <<>>
  BY <1>1, <1>5 DEF Hope
<1>6. CASE frame[Main].step \in Closes
  <2>1. Main \in Threads /\ Main # t
    BY <1>1, <1>6 DEF Threads
  <2> QED
    BY <2>1, <1>1, <1>6 DEF Hope
<1>7. ASSUME NEW u \in Threads, Aimed(u)
      PROVE  Hope'
  <2>1. CASE u = t
    BY <1>3, <1>7, <2>1, OpenerGoesOn DEF Hope
  <2>2. CASE u # t
    <3>1. frame'[u] = frame[u] /\ mac' = mac
      BY <1>1, <2>2
    <3>2. frame[u].step \in {"check", "connectGatt"} => frame[u].mgr \in Managers
      BY <1>7 DEF TypeInv, FrameOK, Sound
    <3>3. Aimed(u)'
      BY <1>2, <1>7, <3>1, <3>2 DEF Aimed, At
    <3> QED
      BY <3>3 DEF Hope
  <2> QED
    BY <2>1, <2>2
<1>8. ASSUME NEW g \in Gatts, Promising(g)
      PROVE  Hope'
  <2>1. client[g].state # "closed"
    <3>1. CASE client[g].state = "closed"
      <4>1. client[g].events = <<>>
        BY <3>1 DEF TypeInv, ClientOK, Closed
      <4>2. ~Told(g) /\ ~(client[g].state \in Live)
        BY <3>1, <4>1 DEF Told, Live
      <4> QED
        BY <1>8, <4>2 DEF Promising
    <3> QED
      BY <3>1
  <2>2. client'[g] = client[g]
    BY <1>4, <2>1
  <2>3. Told(g)' <=> Told(g)
    BY <2>2, ToldKept
  <2>4. Promising(g)'
    BY <1>1, <1>8, <2>2, <2>3 DEF Promising
  <2> QED
    BY <2>4 DEF Hope
<1> QED
  BY <1>3, <1>5, <1>6, <1>7, <1>8 DEF Hope

LEMMA HopeMainStep ==
    ASSUME TypeInv, StaleOK, LastOn, HopeInv, MainStep
    PROVE  HopeInv'
<1> SUFFICES ASSUME Wanted' PROVE Hope'
  BY DEF HopeInv
<1>1. Main \in Threads /\ frame \in [Threads -> Frame]
  BY ClientTypes
<1>2. ~ProcessDies
  BY NoneWanted
<1>3. CASE Receive
  <2>1. enabled
    BY <1>3 DEF Receive, Wanted, prefVars
  <2>2. frame'[Main].step = "gattDisconnect"
    BY <1>1, <1>3, <2>1 DEF Receive, Idle
  <2> QED
    BY <2>2 DEF Hope, Closes
<1>4. CASE GattDisconnect(Main)
  <2>1. Goto(Main, "stopCharging") \/ Goto(Main, "gattClose")
    BY <1>4 DEF GattDisconnect
  <2>2. frame'[Main].step \in Closes
    BY <1>1, <2>1 DEF Goto, Frame, Closes
  <2> QED
    BY <2>2 DEF Hope
<1>5. CASE GattClose(Main)
  <2>1. Goto(Main, "stopCharging")
    BY <1>2, <1>5 DEF GattClose
  <2>2. frame'[Main].step \in Closes
    BY <1>1, <2>1 DEF Goto, Frame, Closes
  <2> QED
    BY <2>2 DEF Hope
<1>6. CASE StopCharging(Main)
  <2>1. /\ UNCHANGED <<receivers, enabled, mac, halFaults, misled, overtaken, bt, inbox>>
        /\ frame[Main].step \in Closes
    BY <1>6 DEF StopCharging, At, Closes, prefVars, stackVars, managerVars, counters, history
  <2>2. Wanted /\ stale = {}
    BY <2>1, WantedBefore DEF StaleOK, Wanted
  <2>3. CASE frame[Main].again
    <3>1. Goto(Main, "getMAC")
      BY <1>6, <2>2, <2>3 DEF StopCharging
    <3>2. frame'[Main].step = "getMAC"
      BY <1>1, <3>1 DEF Goto, Frame
    <3> QED
      BY <1>1, <3>2 DEF Hope, Aimed, At
  <2>4. CASE ~frame[Main].again
    BY <2>1, <2>2, <2>4 DEF LastOn, Unsaid, Wanted, Hope
  <2> QED
    BY <2>3, <2>4
<1>7. CASE ThreadStep(Main)
  BY <1>1, <1>7, HopeThreadStep DEF HopeInv
<1>8. ASSUME NEW s \in Scans, ScanResult(s)
      PROVE  Hope'
  <2>1. inbox' = inbox \o OffOn /\ receivers' = receivers
    BY <1>2, <1>8 DEF ScanResult, managerVars
  <2>2. receivers # <<>>
    BY <2>1 DEF Wanted
  <2> QED
    BY <2>1, <2>2, LastOffOn DEF Hope
<1> QED
  BY <1>3, <1>4, <1>5, <1>6, <1>7, <1>8 DEF MainStep

\* Where no frame and no broadcast changes, and clients do not disappear.
LEMMA HopeKept ==
    ASSUME Hope, UNCHANGED <<inbox, frame, mac, mSpen>>,
           \A g \in Gatts : Promising(g) => Promising(g)'
    PROVE  Hope'
<1>1. \A t \in Threads : Aimed(t) => Aimed(t)'
  BY DEF Aimed, At
<1> QED
  BY <1>1 DEF Hope

\* Where a thread that aims at nothing moves on.
LEMMA HopeMove ==
    ASSUME Hope, NEW t \in Threads, UNCHANGED <<inbox, mac, mSpen>>,
           ~(frame[t].step \in Opens \cup Closes),
           \A u \in Threads : u # t => frame'[u] = frame[u],
           \A g \in Gatts : Promising(g) => Promising(g)'
    PROVE  Hope'
<1>1. Main \in Threads /\ ~Aimed(t)
  BY DEF Threads, Aimed, At, Opens, Connecting
<1>2. frame[Main].step \in Closes => frame'[Main].step \in Closes
  BY <1>1
<1>3. \A u \in Threads : Aimed(u) => Aimed(u)'
  BY <1>1 DEF Aimed, At
<1> QED
  BY <1>2, <1>3 DEF Hope

LEMMA HopeCallbackStep ==
    ASSUME TypeInv, StaleOK, HopeInv, NEW g \in Gatts, CallbackStep(g)
    PROVE  HopeInv'
<1> SUFFICES ASSUME Wanted' PROVE Hope'
  BY DEF HopeInv
<1>1. /\ client \in [Gatts -> Client] /\ frame \in [Threads -> Frame]
      /\ g \in Threads
  BY ClientTypes
<1>2. CASE Connected(g)
  <2>1. /\ UNCHANGED <<receivers, enabled, mac, mSpen, halFaults, misled, overtaken, bt, inbox>>
        /\ frame[g].step = "idle"
    BY <1>2 DEF Connected, At, prefVars, managerVars, halVars, counters, history
  <2>2. Hope
    BY <2>1, WantedBefore DEF HopeInv
  <2>3. \A u \in Threads : u # g => frame'[u] = frame[u]
    BY <1>1, <1>2 DEF Connected
  <2>4. /\ client'[g].events = Tail(client[g].events)
        /\ client'[g].state = client[g].state /\ client'[g].addr = client[g].addr
        /\ \A h \in Gatts : h # g => client'[h] = client[h]
    BY <1>1, <1>2 DEF Connected, Client
  <2>5. Told(g)' <=> Told(g)
    BY <1>2, <2>4, ToldTail DEF Connected
  <2>6. \A h \in Gatts : h # g => (Told(h)' <=> Told(h))
    BY <2>4, ToldKept
  <2>7. \A h \in Gatts : Promising(h) => Promising(h)'
    BY <2>1, <2>4, <2>5, <2>6 DEF Promising
  <2> QED
    BY <1>1, <2>1, <2>2, <2>3, <2>7, HopeMove DEF Opens, Connecting, Closes
<1>3. CASE Save(g)
  <2>1. /\ UNCHANGED <<receivers, enabled, halFaults, misled, bt, inbox, client, mSpen>>
        /\ frame[g].step = "save" /\ Finish(g)
        /\ overtaken' = (overtaken \/ mac' # mac)
    BY <1>3 DEF Save, At, prefVars, stackVars, managerVars, counters
  <2>2. ~overtaken'
    BY DEF Wanted
  <2>3. ~overtaken /\ mac' = mac
    BY <2>1, <2>2, Zenon
  <2>4. Hope
    BY <2>1, <2>3 DEF Wanted, HopeInv
  <2>5. \A u \in Threads : u # g => frame'[u] = frame[u]
    BY <1>1, <2>1 DEF Finish
  <2>6. \A h \in Gatts : Promising(h) => Promising(h)'
    BY <2>1, <2>3, ToldKept DEF Promising
  <2> QED
    BY <1>1, <2>1, <2>3, <2>4, <2>5, <2>6, HopeMove DEF Opens, Connecting, Closes
<1>4. CASE Disconnected(g)
  <2>1. frame'[g].step = "getMAC"
    BY <1>1, <1>4 DEF Disconnected, Idle
  <2> QED
    BY <1>1, <2>1 DEF Hope, Aimed, At
<1>5. CASE ThreadStep(g)
  BY <1>1, <1>5, HopeThreadStep DEF HopeInv
<1> QED
  BY <1>2, <1>3, <1>4, <1>5 DEF CallbackStep

\* A client that loses its link is told.
LEMMA LoseTells ==
    ASSUME TypeInv, NEW gs \in SUBSET Gatts, Lose(gs)
    PROVE  mac' = mac => \A g \in Gatts : Promising(g) => Promising(g)'
<1>1. client \in [Gatts -> Client]
  BY ClientTypes
<1>2. ASSUME NEW g \in gs PROVE Told(g)'
  <2>1. PICK e \in Seq({"up", "down"}) : e = client[g].events
    BY ClientTypes
  <2>2. client'[g].events = Append(e, "down")
    BY <1>1, <1>2, <2>1 DEF Lose, Client
  <2>3. /\ Len(Append(e, "down")) = Len(e) + 1 /\ Len(e) \in Nat
        /\ Append(e, "down")[Len(e) + 1] = "down"
    OBVIOUS
  <2>4. Len(e) + 1 \in 1..(Len(e) + 1)
    BY <2>3
  <2> QED
    BY <2>2, <2>3, <2>4 DEF Told
<1>3. ASSUME NEW g \in Gatts \ gs PROVE client'[g] = client[g] /\ (Told(g)' <=> Told(g))
  BY <1>3, ToldKept DEF Lose
<1> QED
  BY <1>2, <1>3 DEF Promising

LEMMA HopeEnvironment ==
    ASSUME TypeInv, LastOn, HopeInv, Environment
    PROVE  HopeInv'
<1> SUFFICES ASSUME Wanted' PROVE Hope'
  BY DEF HopeInv
<1>1. /\ client \in [Gatts -> Client] /\ frame \in [Threads -> Frame] /\ Main \in Threads
  BY ClientTypes
<1>2. ASSUME UNCHANGED <<receivers, enabled, mac, halFaults, misled, overtaken, bt>>
      PROVE  Hope
  BY <1>2, WantedBefore DEF HopeInv
<1>3. CASE UNCHANGED <<receivers, enabled, mac, mSpen, halFaults, misled, overtaken, bt,
                      inbox, frame, client>>
  <2>1. \A g \in Gatts : Promising(g) => Promising(g)'
    BY <1>3, ToldKept DEF Promising
  <2> QED
    BY <1>2, <1>3, <2>1, HopeKept
<1>4. ASSUME NEW gs \in SUBSET Gatts, Lose(gs),
             UNCHANGED <<receivers, enabled, mac, mSpen, halFaults, misled, overtaken, bt,
                         inbox, frame>>
      PROVE  Hope'
  BY <1>2, <1>4, LoseTells, HopeKept
<1>5. ASSUME NEW m \in Managers, StartService(m)
      PROVE  Hope'
  BY <1>5, LastService DEF Wanted, Hope
<1>6. CASE TogglePreference
  <2>1. bt = "on" /\ receivers # <<>> /\ receivers' = receivers /\ inbox' = inbox \o OffOn
    BY <1>6 DEF TogglePreference, Wanted, stackVars, managerVars
  <2> QED
    BY <2>1, LastOffOn DEF Hope
<1>7. CASE ClickReset
  <2>1. /\ UNCHANGED <<receivers, enabled, mac, mSpen, halFaults, misled, overtaken, bt,
                       inbox, client>>
        /\ frame[Main].step = "idle" /\ Goto(Main, "reset")
    BY <1>7 DEF ClickReset, At, prefVars, stackVars, managerVars, halVars, history
  <2>2. Hope
    BY <1>2, <2>1
  <2>3. \A u \in Threads : u # Main => frame'[u] = frame[u]
    BY <1>1, <2>1 DEF Goto
  <2>4. \A g \in Gatts : Promising(g) => Promising(g)'
    BY <2>1, ToldKept DEF Promising
  <2> QED
    BY <1>1, <2>1, <2>2, <2>3, <2>4, HopeMove DEF Opens, Connecting, Closes
<1>8. ASSUME NEW s \in Scans, ScanTimeout(s)
      PROVE  Hope'
  <2>1. UNCHANGED <<receivers, enabled, mac, mSpen, halFaults, misled, overtaken, bt,
                    inbox, frame, client>>
    BY <1>8, NoneWanted DEF ScanTimeout, prefVars, stackVars, managerVars, halVars, counters,
                            history
  <2> QED
    BY <2>1, <1>3
<1>9. ASSUME NEW g \in Gatts, LinkUp(g)
      PROVE  Hope'
  <2>1. UNCHANGED <<receivers, enabled, mac, mSpen, halFaults, misled, overtaken, bt, inbox, frame>>
    BY <1>9 DEF LinkUp, prefVars, managerVars, halVars, counters, history
  <2>2. /\ client'[g].state = "connected" /\ client[g].state = "connecting"
        /\ client'[g].addr = client[g].addr
        /\ client'[g].events = Append(client[g].events, "up")
        /\ \A h \in Gatts : h # g => client'[h] = client[h]
    BY <1>1, <1>9 DEF LinkUp, Client
  <2>3. Told(g)' <=> Told(g)
    BY <2>2, ToldUp
  <2>4. \A h \in Gatts : h # g => (Told(h)' <=> Told(h))
    BY <2>2, ToldKept
  <2>5. \A h \in Gatts : Promising(h) => Promising(h)'
    BY <2>1, <2>2, <2>3, <2>4 DEF Promising, Live
  <2> QED
    BY <1>2, <2>1, <2>5, HopeKept
<1>10. ASSUME NEW g \in Gatts, ConnectFails(g) \/ DisconnectDone(g)
       PROVE  Hope'
  <2>1. /\ UNCHANGED <<receivers, enabled, mac, mSpen, halFaults, misled, overtaken, bt, inbox, frame>>
        /\ Lose({g})
    BY <1>10 DEF ConnectFails, DisconnectDone, prefVars, managerVars, halVars, history
  <2> QED
    BY <2>1, <1>4
<1>11. ASSUME NEW a \in Addrs, LinkDrop(a)
       PROVE  Hope'
  <2> DEFINE gs == {g \in Gatts : Has(g, a)}
  <2>1. /\ UNCHANGED <<receivers, enabled, mac, mSpen, halFaults, misled, overtaken, bt, inbox, frame>>
        /\ Lose(gs) /\ gs \in SUBSET Gatts
    BY <1>11 DEF LinkDrop, prefVars, managerVars, halVars, history
  <2> HIDE DEF gs
  <2> QED
    BY <2>1, <1>4
<1>12. ASSUME NEW a \in Addrs, LinkGone(a)
       PROVE  UNCHANGED <<receivers, enabled, mac, mSpen, halFaults, misled, overtaken, bt,
                          inbox, frame, client>>
  BY <1>12 DEF LinkGone, prefVars, managerVars, halVars, counters, history
<1>13. ASSUME NEW s \in Scans, PenFound(s)
       PROVE  UNCHANGED <<receivers, enabled, mac, mSpen, halFaults, misled, overtaken, bt,
                          inbox, frame, client>>
  BY <1>13 DEF PenFound, prefVars, stackVars, managerVars, halVars, history
<1>14. CASE UserSwitch \/ BtDown
  BY <1>14 DEF UserSwitch, BtDown, Wanted
<1>15. CASE BtUp
  <2>1. receivers # <<>> /\ receivers' = receivers /\ inbox' = inbox \o Posted(TRUE)
    BY <1>15 DEF BtUp, Wanted, managerVars
  <2> QED
    BY <2>1, LastPostedOn DEF Hope
<1>16. ~HalDies
  BY DEF HalDies, Wanted, TypeInv, TypeOK
<1> QED
  BY <1>3, <1>5, <1>6, <1>7, <1>8, <1>9, <1>10, <1>11, <1>12, <1>13, <1>14, <1>15, <1>16
     DEF Environment

LEMMA NextHope ==
    ASSUME TypeInv, StaleOK, LastOn, HopeInv, [Next]_vars
    PROVE  HopeInv'
<1>1. CASE UNCHANGED vars
  <2>1. UNCHANGED <<inbox, frame, mac, mSpen, client>> /\ (Wanted' <=> Wanted)
    BY <1>1 DEF vars, Wanted
  <2>2. \A g \in Gatts : Promising(g) => Promising(g)'
    BY <2>1, ToldKept DEF Promising
  <2> QED
    BY <2>1, <2>2, HopeKept DEF HopeInv
<1> QED
  BY <1>1, HopeMainStep, HopeCallbackStep, HopeEnvironment DEF Next

\* The connection's invariant: binders are good, the last broadcast is right,
\* and a client that is wanted is in sight.
ConnectionInv == StaleOK /\ LastOn /\ HopeInv

LEMMA InitConnection == Init => ConnectionInv
<1> SUFFICES ASSUME Init PROVE ConnectionInv
  OBVIOUS
<1>1. stale = {} /\ receivers = <<>>
  BY DEF Init
<1> QED
  BY <1>1 DEF ConnectionInv, StaleOK, LastOn, HopeInv, Wanted

LEMMA NextConnection == TypeInv /\ ConnectionInv /\ [Next]_vars => ConnectionInv'
  BY NextStale, NextLast, NextHope DEF ConnectionInv

LEMMA AlwaysConnection == Spec => []ConnectionInv
<1>1. TypeInv /\ ConnectionInv /\ [Next]_vars => ConnectionInv'
  BY NextConnection
<1> QED
  BY InitConnection, TypesHold, <1>1, PTL DEF Spec

\* When everything has come to rest with the adapter on, the preference set
\* and the pen known, the pen has a client, and one that its manager knows
\* unless a link was lost, whatever broadcasts, callbacks and user actions
\* crossed before: unless the HAL has died, the adapter has reported a link
\* whose client was closed, or a callback has stored an address that a scan
\* had replaced.
THEOREM PenKeepsItsClient == Spec => []ClientWhenQuiet
<1>1. TypeInv /\ ConnectionInv /\ KnownInv /\ DropInv => ClientWhenQuiet
  <2> SUFFICES ASSUME TypeInv, ConnectionInv, KnownInv, DropInv, Quiet, Wanted PROVE PenHasClient
    BY DEF ClientWhenQuiet
  <2>1. Hope
    BY DEF ConnectionInv, HopeInv
  <2>2. /\ inbox = <<>> /\ \A t \in Threads : frame[t].step = "idle"
        /\ \A g \in Gatts : client[g].state # "closing" /\ client[g].events = <<>>
    BY DEF Quiet, At
  <2>3. \A g \in Gatts : ~Told(g)
    BY <2>2 DEF Told
  <2>4. Main \in Threads
    BY DEF Threads
  <2>5. ~(frame[Main].step \in Closes) /\ \A t \in Threads : ~Aimed(t)
    BY <2>2, <2>4 DEF Closes, Aimed, At
  <2>6. PICK g \in Gatts : client[g].state \in Live /\ client[g].addr = mac
    BY <2>1, <2>2, <2>3, <2>5 DEF Hope, Promising
  <2>7. g \in InUse
    BY <2>2, <2>6 DEF InUse, Live
  <2>8. CASE drops = 0
    <3>1. Owed = {}
      <4>1. IsFiniteSet(Owed) /\ Cardinality(Owed) \in Nat
        BY OwedFinite, FS_CardinalityType
      <4>2. Cardinality(Owed) = 0
        BY <2>8, <4>1 DEF DropInv
      <4> QED
        BY <4>1, <4>2, FS_EmptySet
    <3>2. g \notin Orphans
      BY <3>1 DEF Owed
    <3>3. \A t \in Threads : frame[t].gatt # g
      <4> SUFFICES ASSUME NEW t \in Threads, frame[t].gatt = g PROVE FALSE
        OBVIOUS
      <4>1. g # None
        BY ConnectionAssumption
      <4>2. At(t, "assign")
        BY <4>1 DEF KnownInv, HoldOK
      <4> QED
        BY <2>2, <4>2 DEF At
    <3> QED
      BY <2>6, <2>7, <3>2, <3>3 DEF Orphans, PenHasClient
  <2>9. CASE drops # 0
    <3>1. drops > 0
      BY <2>9 DEF TypeInv, TypeOK
    <3> QED
      BY <2>6, <2>7, <3>1 DEF PenHasClient
  <2> QED
    BY <2>8, <2>9
<1> QED
  BY AlwaysConnection, TypesHold, AlwaysOwed, <1>1, PTL
=============================================================================
