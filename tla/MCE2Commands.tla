---------------------------- MODULE MCE2Commands ----------------------------
(***************************************************************************)
(* E2Commands for TLC: one UE and one gNB.                                 *)
(***************************************************************************)
EXTENDS E2Commands

CONSTANTS u, g

TwoNodes == {u, g}
OnlyU == {u}
=============================================================================
