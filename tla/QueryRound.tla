----------------------------- MODULE QueryRound -----------------------------
(***************************************************************************)
(* What the query cycle of the Near-RT RIC promises, without timers, keys  *)
(* and delays: rounds follow one another; in an open round the Logic       *)
(* Modules offer commands of that round; the round is closed once, and     *)
(* closing it sends all that was offered in it and nothing else; only a    *)
(* closed round makes way for the next one.                                *)
(***************************************************************************)
EXTENDS Naturals

CONSTANT Lms

VARIABLES round, offers, closed, sent

vars == <<round, offers, closed, sent>>

\* The commands that the modules may offer in the current round.
Offerable == [lm : Lms, cycle : {round}]

Init ==
    /\ round = 0
    /\ offers = {}
    /\ closed = TRUE
    /\ sent = {}

Open ==
    /\ closed
    /\ closed' = FALSE
    /\ round' \in Nat
    /\ round' > round
    /\ offers' = {}
    /\ sent' = sent

Offer(cs) ==
    /\ ~closed
    /\ offers' = offers \cup cs
    /\ UNCHANGED <<round, closed, sent>>

\* The last offer of a round may be what closes it.
Close(cs) ==
    /\ ~closed
    /\ closed' = TRUE
    /\ sent' = offers \cup cs
    /\ offers' = {}
    /\ round' = round

Next ==
    \/ Open
    \/ \E cs \in SUBSET Offerable : Offer(cs) \/ Close(cs)

Spec == Init /\ [][Next]_vars
=============================================================================
