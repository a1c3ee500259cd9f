---------------------------- MODULE MCUsbGadget ----------------------------
(* Configurations that differ in what their commands are.                  *)
EXTENDS UsbGadget

\* With a class of its own, with functions that are not its name and with the
\* daemon, with adb, and one that no trigger names.
MCRequests == {[base |-> "mtp,conn_gadget", adb |-> FALSE], [base |-> "rndis", adb |-> TRUE],
               [base |-> "ncm", adb |-> FALSE], [base |-> "diag,acm", adb |-> TRUE]}

=============================================================================
