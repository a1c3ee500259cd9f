-------------------------- MODULE MCFirmwareUpdate --------------------------
(***************************************************************************)
(* FirmwareUpdate for TLC: a factory version and four packages, whose      *)
(* images differ in size, so that the records of one do not lie where those *)
(* of another do.                                                          *)
(***************************************************************************)
EXTENDS FirmwareUpdate

Sizes(sboot, cm, keystorage, rest, modem) ==
    [image \in Images |->
        CASE image = "sboot" -> sboot [] image = "cm" -> cm [] image = "keystorage" -> keystorage
          [] image = "modem" -> modem [] image \in {"modem_5g", "modem_debug", "modem_debug_5g", "dtb"} -> Absent
          [] OTHER -> rest]

MCPackages == {"factory", "same", "newer", "older", "other"}

\* "same" has the factory's binary and all images, "newer" the next binary, one
\* image missing and one empty; "other" is for other models.
MCSize ==
    [pkg \in Packages |->
        CASE pkg = "same" -> Sizes(90, 50, 7, 20, 5)
          [] pkg = "newer" -> Sizes(70, Absent, 0, 30, Absent)
          [] pkg = "older" -> Sizes(60, 40, 8, 10, 5)
          [] OTHER -> Sizes(9, 9, 9, 9, 9)]

MCBinary == [pkg \in Packages |-> CASE pkg = "newer" -> 2 [] pkg = "older" -> 0 [] OTHER -> 1]
MCModels == [pkg \in Packages |-> IF pkg = "other" THEN {"b"} ELSE {"a", "b"}]
MCLong == [pkg \in Packages |-> TRUE]
=============================================================================
