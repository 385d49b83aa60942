----------------------------- MODULE MCHandover -----------------------------
(***************************************************************************)
(* Handover for TLC: two cells. In units of 50 ms the two timeouts are     *)
(* those of the code, and a UE gives up its random access in between.      *)
(***************************************************************************)
EXTENDS Handover

TwoCells == {1, 2}
=============================================================================
