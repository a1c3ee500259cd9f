-------------------------------- MODULE ISPen --------------------------------
(***************************************************************************)
(* The calls of vendor.samsung.hardware.spen.ISPen, as SPen.cpp implements *)
(* them, and their possible outcomes.                                      *)
(***************************************************************************)
CONSTANTS
    Callers,    \* threads of client processes, one outstanding call each
    Addrs,      \* addresses a pen may have
    NoAddr,     \* "00:00:00:00:00:00", the default of getMACAddress
    None,       \* no answer yet
    Ok,         \* the empty answer of a call without a result
    Dead        \* the RemoteException a caller gets when the HAL dies

ASSUME InterfaceAssumption ==
    /\ NoAddr \notin Addrs
    /\ NoAddr \notin {Ok, Dead} \cup BOOLEAN
    /\ None \notin Addrs \cup {NoAddr, Ok, Dead} \cup BOOLEAN
    /\ Dead \notin Addrs \cup {Ok} \cup BOOLEAN

Value == Addrs \cup {NoAddr}

NoRequest == [op |-> "none", addr |-> NoAddr, on |-> FALSE]

Request ==
    [op : {"getMACAddress", "isCharging"}, addr : {NoAddr}, on : {FALSE}]
      \cup [op : {"setMACAddress"}, addr : Value, on : {FALSE}]
      \cup [op : {"setCharging"}, addr : {NoAddr}, on : BOOLEAN]

Answer == Value \cup BOOLEAN \cup {Ok, Dead}
=============================================================================
