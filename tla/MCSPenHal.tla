------------------------------ MODULE MCSPenHal ------------------------------
(***************************************************************************)
(* SPenHal for TLC: the app's two threads that can call the HAL at the     *)
(* same time, its main thread and a GATT callback thread, and two pens.    *)
(***************************************************************************)
EXTENDS SPenHal

CONSTANTS main, gatt, penA, penB

MCCallers == {main, gatt}
MCAddrs == {penA, penB}
=============================================================================
