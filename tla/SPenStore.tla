------------------------------ MODULE SPenStore ------------------------------
(***************************************************************************)
(* What the S Pen HAL (aidl/spen, ISPen) promises to the processes that    *)
(* call it: one remembered pen address and one charging switch, every call *)
(* taking effect at one instant between its invocation and its return.     *)
(* The four operations are those SPen.cpp implements; SPenHal is the       *)
(* detailed module that implements this one.                               *)
(*                                                                         *)
(* A crash of the HAL process fails the outstanding calls and may lose the *)
(* address; a power cut may also bring back an older one.  A call may also *)
(* fail without anybody being told.                                        *)
(***************************************************************************)
EXTENDS Naturals, ISPen

CONSTANT MaxFaults  \* bound: HAL crashes, failed accesses to files and power cuts

VARIABLES
    mac,        \* the address a getMACAddress would return
    charging,   \* whether the digitizer charges the pen
    call,       \* call[c]: the request c has outstanding, or None
    answer,     \* answer[c]: its outcome once it took effect, or None
    stored,     \* history: every address that was ever there to be returned
    faults      \* faults so far

storeVars == <<mac, charging, call, answer, stored, faults>>

StoreTypeOK ==
    /\ mac \in Value
    /\ charging \in BOOLEAN
    /\ call \in [Callers -> Request \cup {NoRequest}]
    /\ answer \in [Callers -> Answer \cup {None}]
    /\ stored \subseteq Value
    /\ faults \in 0..MaxFaults

StoreInit ==
    /\ mac \in Value
    /\ charging \in BOOLEAN
    /\ call = [c \in Callers |-> NoRequest]
    /\ answer = [c \in Callers |-> None]
    /\ mac \in stored /\ stored \subseteq Value
    /\ faults = 0

-----------------------------------------------------------------------------
Outstanding(c) == call[c] # NoRequest

Invoke(c) ==
    /\ ~Outstanding(c)
    /\ \E r \in Request : call' = [call EXCEPT ![c] = r]
    /\ UNCHANGED <<mac, charging, answer, stored, faults>>

\* The instant at which the call of c takes effect.
Perform(c) ==
    /\ Outstanding(c) /\ answer[c] = None
    /\ \/ /\ call[c].op = "getMACAddress"
          /\ answer' = [answer EXCEPT ![c] = mac]
          /\ UNCHANGED <<mac, charging, stored>>
       \/ /\ call[c].op = "isCharging"
          /\ answer' = [answer EXCEPT ![c] = charging]
          /\ UNCHANGED <<mac, charging, stored>>
       \/ /\ call[c].op = "setMACAddress"
          /\ mac' = call[c].addr
          /\ stored' = stored \cup {call[c].addr}
          /\ answer' = [answer EXCEPT ![c] = Ok]
          /\ UNCHANGED charging
       \/ /\ call[c].op = "setCharging"
          /\ charging' = call[c].on
          /\ answer' = [answer EXCEPT ![c] = call[c].on]
          /\ UNCHANGED <<mac, stored>>
    /\ UNCHANGED <<call, faults>>

Return(c) ==
    /\ answer[c] # None
    /\ call' = [call EXCEPT ![c] = NoRequest]
    /\ answer' = [answer EXCEPT ![c] = None]
    /\ UNCHANGED <<mac, charging, stored, faults>>

\* A file or the node cannot be opened, read or written, which nobody notices:
\* a set changes nothing and answers as usual, a get answers another address
\* that was there or none, and the charger's state is reported as it is or off.
\* What was read wrongly replaces an answer that has not yet been returned.
Unnoticed(c) ==
    /\ Outstanding(c) /\ answer[c] # Dead
    /\ faults < MaxFaults
    /\ faults' = faults + 1
    /\ \/ /\ call[c].op = "getMACAddress"
          /\ \E a \in stored \cup {NoAddr} : answer' = [answer EXCEPT ![c] = a]
       \/ /\ call[c].op \in {"isCharging", "setCharging"}
          /\ \E on \in {charging, FALSE} : answer' = [answer EXCEPT ![c] = on]
       \/ /\ call[c].op = "setMACAddress"
          /\ answer[c] = None
          /\ answer' = [answer EXCEPT ![c] = Ok]
    /\ UNCHANGED <<mac, charging, call, stored>>

\* The HAL process dies or a write fails: outstanding calls may end with an
\* exception although they took effect, and the address may be gone.
Fault ==
    /\ faults < MaxFaults
    /\ faults' = faults + 1
    /\ mac' \in {mac, NoAddr}
    /\ \E failed \in SUBSET {c \in Callers : Outstanding(c)} :
          answer' = [c \in Callers |-> IF c \in failed THEN Dead ELSE answer[c]]
    /\ UNCHANGED <<charging, call, stored>>

\* The device loses power: the callers are gone, and what was written last
\* may not have reached the flash.
LosePower ==
    /\ faults < MaxFaults
    /\ faults' = faults + 1
    /\ mac' \in stored \cup {NoAddr}
    /\ charging' \in BOOLEAN
    /\ call' = [c \in Callers |-> NoRequest]
    /\ answer' = [c \in Callers |-> None]
    /\ UNCHANGED stored

StoreNext ==
    \/ \E c \in Callers : Invoke(c) \/ Perform(c) \/ Unnoticed(c) \/ Return(c)
    \/ Fault
    \/ LosePower

StoreSpec == StoreInit /\ [][StoreNext]_storeVars
=============================================================================
