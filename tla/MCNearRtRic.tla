---------------------------- MODULE MCNearRtRic -----------------------------
(***************************************************************************)
(* Instances of NearRtRic for TLC: two or three Logic Modules with         *)
(* distinct names, intervals of a few time units, and a horizon that holds *)
(* several query cycles.                                                   *)
(***************************************************************************)
EXTENDS NearRtRic

CONSTANTS a, b, c

OneLm == {a}
TwoLms == {a, b}
ThreeLms == {a, b, c}
NoLm == {}
OnlyB == {b}

DistinctNames == [lm \in Lms |-> lm]
=============================================================================
