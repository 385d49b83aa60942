-------------------------------- MODULE MCE2 --------------------------------
(***************************************************************************)
(* Instances of E2 for TLC: one UE, or one UE and one gNB.                 *)
(***************************************************************************)
EXTENDS E2

CONSTANTS u, g

OneNode == {u}
TwoNodes == {u, g}
OnlyU == {u}
=============================================================================
