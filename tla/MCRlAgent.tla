----------------------------- MODULE MCRlAgent -----------------------------
(***************************************************************************)
(* RlAgent for TLC: a simulation of three observations and a second one of *)
(* one.                                                                    *)
(***************************************************************************)
EXTENDS RlAgent

ThreeAndOne == <<3, 1>>
=============================================================================
