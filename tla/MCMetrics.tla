----------------------------- MODULE MCMetrics -----------------------------
(***************************************************************************)
(* Metrics for TLC: two bearers of one UE. GetTxDrop() is called twice per *)
(* average (the code's m_N is 1), so that a call that only returns the     *)
(* last value happens too.                                                 *)
(***************************************************************************)
EXTENDS Metrics

TwoBearers == {3, 4}
=============================================================================
