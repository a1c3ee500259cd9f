--------------------------- MODULE MCCamera3Device ---------------------------
(***************************************************************************)
(* Camera3Device for TLC: a preview stream and a ZSL stream whose images   *)
(* are sent back for reprocessing.                                         *)
(***************************************************************************)
EXTENDS Camera3Device

CONSTANTS preview, zsl

MCStreams == {preview, zsl}
MCType == [s \in MCStreams |-> IF s = preview THEN "OUTPUT" ELSE "BIDIRECTIONAL"]
MCMaxBuffers == [s \in MCStreams |-> 2]

\* Preview alone, preview and ZSL, an image sent back; and one without outputs.
MCShapes == {<<{preview}, {}>>, <<{preview, zsl}, {}>>, <<{preview}, {zsl}>>, <<{}, {}>>}
=============================================================================
