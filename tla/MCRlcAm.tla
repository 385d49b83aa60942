------------------------------ MODULE MCRlcAm ------------------------------
(* RlcAm for TLC. *)
EXTENDS RlcAm
=============================================================================
