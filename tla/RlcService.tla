----------------------------- MODULE RlcService -----------------------------
(***************************************************************************)
(* What an acknowledged-mode RLC bearer promises to PDCP: the SDUs that it *)
(* has accepted are delivered whole, in order, and once each.              *)
(***************************************************************************)
EXTENDS Naturals, Sequences

CONSTANT Sdus

VARIABLES accepted, delivered

Init == accepted = <<>> /\ delivered = <<>>

Accept(s) == accepted' = Append(accepted, s) /\ UNCHANGED delivered

\* One PDU may complete several SDUs.
Deliver ==
    /\ \E n \in Len(delivered) + 1..Len(accepted) : delivered' = SubSeq(accepted, 1, n)
    /\ UNCHANGED accepted

Next == Deliver \/ \E s \in Sdus : Accept(s)

Spec == Init /\ [][Next]_<<accepted, delivered>>
=============================================================================
