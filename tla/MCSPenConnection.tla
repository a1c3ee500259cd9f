-------------------------- MODULE MCSPenConnection --------------------------
(***************************************************************************)
(* SPenConnection for TLC: one or two managers, a pool of clients that is  *)
(* large enough for the bounds of each run, its scans, one or two pens.    *)
(***************************************************************************)
EXTENDS SPenConnection, TLC

CONSTANTS m1, m2, g1, g2, g3, g4, g5, s1, s2, s3, penA, penB

OneManager == {m1}
TwoManagers == {m1, m2}
ThreeGatts == {g1, g2, g3}
FourGatts == {g1, g2, g3, g4}
FiveGatts == {g1, g2, g3, g4, g5}
OneScan == {s1}
TwoScans == {s1, s2}
ThreeScans == {s1, s2, s3}
OnePen == {penA}
TwoPens == {penA, penB}

FiveSymmetry ==
    Permutations(FiveGatts) \cup Permutations(TwoManagers) \cup Permutations(TwoPens)
=============================================================================
