----------------------------- MODULE MCSPenGatt -----------------------------
(***************************************************************************)
(* SPenGatt for TLC: one client, and motions at the corners of the         *)
(* decoding: the threshold, the signs, the extremes of a short, both axes. *)
(***************************************************************************)
EXTENDS SPenGatt

CONSTANT c1

OneClient == {c1}

ManyMotions ==
    {<<500, -500>>, <<501, 0>>, <<-600, -601>>, <<700, -700>>, <<-32768, 32767>>, <<-1, 256>>}
=============================================================================
