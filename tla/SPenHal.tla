------------------------------- MODULE SPenHal -------------------------------
(***************************************************************************)
(* The S Pen HAL service, aidl/spen: SPen.cpp serves its calls with plain  *)
(* file streams, service.cpp gives it one thread, and its .rc file makes   *)
(* init restart it.                                                        *)
(*                                                                         *)
(* A write is two steps, since std::ofstream truncates the file when it is *)
(* opened and fills it when it is written; a read of the address is two    *)
(* steps, a probe of the /mnt/vendor/efs file and the read of the file the *)
(* probe chose.  Nobody looks at the state of a stream: an access that     *)
(* fails goes unnoticed, and is an action beside the one that succeeds.    *)
(* The address file is not synced: `disk' is what a power cut leaves of it.*)
(***************************************************************************)
EXTENDS Naturals, Sequences, ISPen

CONSTANTS
    Absent,     \* the file does not exist
    Empty,      \* the file exists and holds no address
    MaxFaults   \* bound: HAL crashes, failed accesses to files and power cuts

ASSUME HalAssumption ==
    /\ {Absent, Empty} \cap Value = {} /\ Absent # Empty
    /\ MaxFaults \in Nat

VARIABLES
    mnt,        \* /mnt/vendor/efs/spen/blespen_addr as the running system sees it
    disk,       \* the same file on the flash
    factory,    \* /efs/spen/blespen_addr, never written by this code
    charging,   \* epen_ble_charging_mode of the digitizer driver
    up,         \* the HAL process runs
    todo,       \* the binder queue of the process, oldest call first
    pc,         \* pc[c]: how far the call of c has got
    call,       \* call[c]: its request
    answer,     \* answer[c]: its outcome, once it is "done"
    stored,     \* history: every address the files offered or were given
    faults      \* faults so far

vars == <<mnt, disk, factory, charging, up, todo, pc, call, answer, stored, faults>>

\* The steps of a call that the HAL thread is executing.
Serving == {"probe", "readMnt", "readFactory", "truncate", "write", "charge", "status"}

\* get() of an address file: the default when the stream fails.
ReadFile(f) == IF f \in Value THEN f ELSE NoAddr

\* What getMACAddress makes of the files.
FileMac == IF mnt = Absent THEN ReadFile(factory) ELSE ReadFile(mnt)

TypeOK ==
    /\ mnt \in Value \cup {Absent, Empty}
    /\ disk \in Value \cup {Absent, Empty}
    /\ factory \in Addrs \cup {Absent}
    /\ charging \in BOOLEAN
    /\ up \in BOOLEAN
    /\ todo \in Seq(Callers)
    /\ pc \in [Callers -> {"idle", "queued", "done"} \cup Serving]
    /\ call \in [Callers -> Request \cup {NoRequest}]
    /\ answer \in [Callers -> Answer \cup {None}]
    /\ stored \subseteq Value
    /\ faults \in 0..MaxFaults

\* The device as shipped or after earlier use; Empty is what a power cut
\* before this run may have left.
Init ==
    /\ mnt \in Value \cup {Absent, Empty}
    /\ disk = mnt
    /\ factory \in Addrs \cup {Absent}
    /\ charging \in BOOLEAN
    /\ up = TRUE
    /\ todo = <<>>
    /\ pc = [c \in Callers |-> "idle"]
    /\ call = [c \in Callers |-> NoRequest]
    /\ answer = [c \in Callers |-> None]
    /\ stored = {FileMac} \cup ({factory} \cap Addrs)
    /\ faults = 0

-----------------------------------------------------------------------------
\* A caller makes a call, or blocks for the service to come up and then makes it.
Invoke(c) ==
    /\ pc[c] = "idle"
    /\ \E r \in Request : call' = [call EXCEPT ![c] = r]
    /\ pc' = [pc EXCEPT ![c] = "queued"]
    /\ todo' = Append(todo, c)
    /\ UNCHANGED <<mnt, disk, factory, charging, up, answer, stored, faults>>

FirstStep(op) ==
    [getMACAddress |-> "probe", setMACAddress |-> "truncate",
     isCharging |-> "status", setCharging |-> "charge"][op]

\* Mutant: a thread pool with more than its first thread.
ThreadAlwaysFree == TRUE

\* The thread of the process is free: only joinThreadPool's own thread serves.
ThreadFree == \A c \in Callers : pc[c] \notin Serving

\* Mutant: the call that came last is served first.
DispatchNewest(c) ==
    /\ up
    /\ todo # <<>> /\ todo[Len(todo)] = c /\ pc[c] = "queued"
    /\ ThreadFree
    /\ todo' = SubSeq(todo, 1, Len(todo) - 1)
    /\ pc' = [pc EXCEPT ![c] = FirstStep(call[c].op)]
    /\ UNCHANGED <<mnt, disk, factory, charging, up, call, answer, stored, faults>>

\* The thread takes the calls in the order in which they came.
Dispatch(c) ==
    /\ up
    /\ todo # <<>> /\ Head(todo) = c /\ pc[c] = "queued"
    /\ ThreadFree
    /\ todo' = Tail(todo)
    /\ pc' = [pc EXCEPT ![c] = FirstStep(call[c].op)]
    /\ UNCHANGED <<mnt, disk, factory, charging, up, call, answer, stored, faults>>

Reply(c, a) ==
    /\ pc' = [pc EXCEPT ![c] = "done"]
    /\ answer' = [answer EXCEPT ![c] = a]

\* getMACAddress: is there a file under /mnt/vendor/efs?
Probe(c) ==
    /\ pc[c] = "probe"
    /\ pc' = [pc EXCEPT ![c] = IF mnt = Absent THEN "readFactory" ELSE "readMnt"]
    /\ UNCHANGED <<mnt, disk, factory, charging, up, todo, call, answer, stored, faults>>

\* The file is there and cannot be opened: the factory's is read.
ProbeFails(c) ==
    /\ pc[c] = "probe" /\ mnt # Absent
    /\ faults < MaxFaults
    /\ faults' = faults + 1
    /\ pc' = [pc EXCEPT ![c] = "readFactory"]
    /\ UNCHANGED <<mnt, disk, factory, charging, up, todo, call, answer, stored>>

\* Mutant: the factory's file is looked for in the wrong place.
ReadWithoutFactory(c) ==
    /\ \/ pc[c] = "readMnt" /\ Reply(c, ReadFile(mnt))
       \/ pc[c] = "readFactory" /\ Reply(c, NoAddr)
    /\ UNCHANGED <<mnt, disk, factory, charging, up, todo, call, stored, faults>>

Read(c) ==
    /\ \/ pc[c] = "readMnt" /\ Reply(c, ReadFile(mnt))
       \/ pc[c] = "readFactory" /\ Reply(c, ReadFile(factory))
    /\ UNCHANGED <<mnt, disk, factory, charging, up, todo, call, stored, faults>>

\* get() answers its default for a file it cannot open or read.
ReadFails(c) ==
    /\ pc[c] \in {"readMnt", "readFactory"}
    /\ faults < MaxFaults
    /\ faults' = faults + 1
    /\ Reply(c, NoAddr)
    /\ UNCHANGED <<mnt, disk, factory, charging, up, todo, call, stored>>

\* setMACAddress: opening the stream truncates or creates the file.
Truncate(c) ==
    /\ pc[c] = "truncate"
    /\ mnt' = Empty
    /\ stored' = stored \cup {call[c].addr}
    /\ pc' = [pc EXCEPT ![c] = "write"]
    /\ UNCHANGED <<disk, factory, charging, up, todo, call, answer, faults>>

\* The stream cannot be opened: the file stays as it is, and the call answers
\* as if it had been rewritten.
OpenFails(c) ==
    /\ pc[c] = "truncate"
    /\ faults < MaxFaults
    /\ faults' = faults + 1
    /\ Reply(c, Ok)
    /\ UNCHANGED <<mnt, disk, factory, charging, up, todo, call, stored>>

Write(c) ==
    /\ pc[c] = "write"
    /\ mnt' = call[c].addr
    /\ Reply(c, Ok)
    /\ UNCHANGED <<disk, factory, charging, up, todo, call, stored, faults>>

\* A failed write leaves the file empty.
WriteFails(c) ==
    /\ pc[c] = "write"
    /\ faults < MaxFaults
    /\ faults' = faults + 1
    /\ Reply(c, Ok)
    /\ UNCHANGED <<mnt, disk, factory, charging, up, todo, call, stored>>

\* setCharging: the driver switches, then isCharging reads the node back, and
\* what it reads is the answer.
Charge(c) ==
    /\ pc[c] = "charge"
    /\ charging' = call[c].on
    /\ pc' = [pc EXCEPT ![c] = "status"]
    /\ UNCHANGED <<mnt, disk, factory, up, todo, call, answer, stored, faults>>

\* The node cannot be opened or written: the driver does not switch.
ChargeFails(c) ==
    /\ pc[c] = "charge"
    /\ faults < MaxFaults
    /\ faults' = faults + 1
    /\ pc' = [pc EXCEPT ![c] = "status"]
    /\ UNCHANGED <<mnt, disk, factory, charging, up, todo, call, answer, stored>>

Status(c) ==
    /\ pc[c] = "status"
    /\ Reply(c, charging)
    /\ UNCHANGED <<mnt, disk, factory, charging, up, todo, call, stored, faults>>

\* The node cannot be read: get() gives "NG", which is not "CHARGE".
StatusFails(c) ==
    /\ pc[c] = "status"
    /\ faults < MaxFaults
    /\ faults' = faults + 1
    /\ Reply(c, FALSE)
    /\ UNCHANGED <<mnt, disk, factory, charging, up, todo, call, stored>>

\* An access fails that the thread was about to make.
AccessFails(c) ==
    \/ ProbeFails(c) \/ ReadFails(c) \/ OpenFails(c) \/ WriteFails(c)
    \/ ChargeFails(c) \/ StatusFails(c)

Serve(c) == Probe(c) \/ Read(c) \/ Truncate(c) \/ Write(c) \/ Charge(c) \/ Status(c)

\* The caller takes its reply.
Return(c) ==
    /\ pc[c] = "done"
    /\ pc' = [pc EXCEPT ![c] = "idle"]
    /\ call' = [call EXCEPT ![c] = NoRequest]
    /\ answer' = [answer EXCEPT ![c] = None]
    /\ UNCHANGED <<mnt, disk, factory, charging, up, todo, stored, faults>>

\* The process dies: what it had accepted ends with an exception.
Crash ==
    /\ up
    /\ faults < MaxFaults
    /\ faults' = faults + 1
    /\ up' = FALSE
    /\ todo' = <<>>
    /\ pc' = [c \in Callers |-> IF pc[c] = "idle" THEN "idle" ELSE "done"]
    /\ answer' = [c \in Callers |-> IF pc[c] \in {"idle", "done"} THEN answer[c] ELSE Dead]
    /\ UNCHANGED <<mnt, disk, factory, charging, call, stored>>

\* init restarts a service of class hal that is neither oneshot nor disabled.
Restart ==
    /\ ~up
    /\ up' = TRUE
    /\ UNCHANGED <<mnt, disk, factory, charging, todo, pc, call, answer, stored, faults>>

\* The kernel writes the page cache back.
WriteBack ==
    /\ disk # mnt
    /\ disk' = mnt
    /\ UNCHANGED <<mnt, factory, charging, up, todo, pc, call, answer, stored, faults>>

\* Power is lost and the device boots again.  A rewritten file that was not
\* written back is found as it was, as it became, or empty.
PowerCut ==
    /\ faults < MaxFaults
    /\ faults' = faults + 1
    /\ mnt' \in IF disk = mnt THEN {mnt} ELSE {disk, mnt, Empty}
    /\ disk' = mnt'
    /\ charging' \in BOOLEAN
    /\ up' = TRUE
    /\ todo' = <<>>
    /\ pc' = [c \in Callers |-> "idle"]
    /\ call' = [c \in Callers |-> NoRequest]
    /\ answer' = [c \in Callers |-> None]
    /\ UNCHANGED <<factory, stored>>

Next ==
    \/ \E c \in Callers :
          Invoke(c) \/ Dispatch(c) \/ Serve(c) \/ AccessFails(c) \/ Return(c)
    \/ Crash
    \/ Restart
    \/ WriteBack
    \/ PowerCut

\* The HAL thread runs whenever it has work, and init restarts the service;
\* nothing obliges callers to call, nor anything to fail.
Fairness ==
    /\ \A c \in Callers : WF_vars(Dispatch(c)) /\ WF_vars(Serve(c))
    /\ WF_vars(Restart)

Spec == Init /\ [][Next]_vars

FairSpec == Spec /\ Fairness

-----------------------------------------------------------------------------
\* The single thread of service.cpp: no two calls are served at a time.
OneAtATime ==
    \A c, d \in Callers : pc[c] \in Serving /\ pc[d] \in Serving => c = d

\* A pen address that was there, or was stored by a caller, is never answered
\* with the default again unless something failed: no call can see the file
\* between the truncation and the write of setMACAddress.
KnownAddressIsServed ==
    faults = 0 /\ NoAddr \notin stored => \A c \in Callers : answer[c] # NoAddr

\* Every call ends, also one that waits for a HAL that died.
CallsEnd == \A c \in Callers : pc[c] = "queued" ~> pc[c] \in {"idle", "done"}

-----------------------------------------------------------------------------
\* SPenHal implements SPenStore.  A set takes effect when the file is
\* truncated: from there on the old address is gone.  A setCharging takes
\* effect at the write of the node, to be answered with what the node holds,
\* and a get at the probe if that sends it to the factory's file.
AbstractMac ==
    IF \E c \in Callers : pc[c] = "write"
    THEN call[CHOOSE c \in Callers : pc[c] = "write"].addr
    ELSE FileMac

AbstractAnswer ==
    [c \in Callers |->
        IF pc[c] = "write" THEN Ok
        ELSE IF pc[c] = "status" /\ call[c].op = "setCharging" THEN charging
        ELSE IF pc[c] = "readFactory" THEN ReadFile(factory)
        ELSE answer[c]]

Store == INSTANCE SPenStore WITH mac <- AbstractMac, answer <- AbstractAnswer

\* Each call behaves as if it took effect at one instant, in one order that
\* all callers agree on, whatever the file steps of the others are; a call one
\* of whose accesses fails unnoticed leaves what there was, or no address, and
\* reports the state of the charger as it is, or as off.
ImplementsStore == Store!StoreSpec
=============================================================================
