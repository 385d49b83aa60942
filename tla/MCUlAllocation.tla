--------------------------- MODULE MCUlAllocation ---------------------------
(***************************************************************************)
(* An instance of UlAllocation for TLC: two UEs in one beam and a third in *)
(* another.                                                                *)
(***************************************************************************)
EXTENDS UlAllocation

TwoBeams == [ue \in Ues |-> IF ue = 3 THEN "b" ELSE "a"]
=============================================================================
