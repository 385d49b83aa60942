---------------------------- MODULE UlAllocation ----------------------------
(***************************************************************************)
(* From the agent's shares to uplink grants: the apportionment of the RBGs *)
(* in OranLmNrRlQlearn::Run() and OranLmNrRlDqn::Run(), the command that   *)
(* brings the targets to the gNB, NrMacSchedulerOfdmaUlTarget, and the     *)
(* load-based division of a slot's symbols among the beams.                *)
(*                                                                         *)
(* Each of Run() and DoScheduleUlData() is one event of the simulation.    *)
(* Their loops are steps here, and nothing else happens until they end.    *)
(***************************************************************************)
EXTENDS Naturals, Sequences, FiniteSets, Maps, TLC

LOCAL INSTANCE FiniteSetsExt
LOCAL INSTANCE Functions

CONSTANTS
    Ues,          \* the RNTIs of the UEs of the cell
    Beam,         \* the beam of each of them
    Unknown,      \* RNTI 0, of a UE whose cell is not known
    Weights,      \* the shares the agent answers with, before normalisation
    Budget,       \* B_FIXED
    Rbgs,         \* the RBGs that the UL bitmask allows
    Buffers,      \* the UEs' buffer requests
    BytesPerRbg,  \* what one RBG carries in one symbol
    MaxSymbols,   \* the data symbols of a slot
    MaxCommands   \* bound: commands under way

ASSUME UlAssumption ==
    /\ Ues \subseteq Nat /\ Unknown \in Nat \ Ues
    /\ Weights \subseteq Nat /\ Buffers \subseteq Nat \ {0} /\ Rbgs \subseteq Nat
    /\ {Budget, BytesPerRbg, MaxSymbols, MaxCommands} \subseteq Nat \ {0}
    /\ DOMAIN Beam = Ues
    /\ Rbgs # {}

VARIABLES
    phase,        \* the loop that is running, or "idle"
    share,        \* items of Run(): RNTI -> share
    ulTargets,    \* ulTargets of Run()
    commands,     \* the targets under way to the gNB
    m_ulTargets,  \* the scheduler's targets
    request,      \* activeUl: the active UEs with their buffer requests
    symPerBeam,
    symAvail,     \* the symbols that are not given to a beam
    beams,        \* the beams that the loop over activeUl has yet to visit
    ueVector, remainingRbgSet,
    m_ulRBG,      \* per UE, its RBGs: each stands for one entry per symbol
    spoint,       \* m_sym of the starting point
    grants        \* the DCIs of the slot

runVars == <<share, ulTargets>>
schedVars == <<symPerBeam, symAvail, beams, ueVector, remainingRbgSet, m_ulRBG, spoint, grants>>
vars == <<phase, runVars, commands, m_ulTargets, request, schedVars>>

Total(f) == SumFunction(f)

Init ==
    /\ phase = "idle"
    /\ share = EmptyMap /\ ulTargets = EmptyMap
    /\ commands = {}
    /\ m_ulTargets = EmptyMap
    /\ request = EmptyMap
    /\ symPerBeam = EmptyMap /\ symAvail = 0 /\ beams = {}
    /\ ueVector = <<>> /\ remainingRbgSet = {}
    /\ m_ulRBG = [ue \in Ues |-> {}]
    /\ spoint = 0 /\ grants = {}

-----------------------------------------------------------------------------
(* OranLmNrRlQlearn::Run() after an answer of the agent.                   *)

\* llround(share * B_FIXED) for the share w of the total: a nearest integer. A
\* double may lie on either side of a tie.
Nearest(w, total) ==
    {n \in 0..Budget : /\ 2 * n * total <= 2 * w * Budget + total
                       /\ 2 * w * Budget <= (2 * n + 1) * total}

Target(n) == Max({1, n})

\* The answer: shares of some RNTIs, which are different. If all are zero the
\* RNTIs share equally. Equal shares are rounded equally.
Run ==
    /\ phase = "idle"
    /\ Cardinality(commands) < MaxCommands
    /\ \E rntis \in SUBSET (Ues \cup {Unknown}) \ {{}} : \E w \in [rntis -> Weights] :
         LET s == IF Total(w) = 0 THEN [r \in rntis |-> 1] ELSE w IN
         /\ share' = s
         /\ \E llround \in [Range(s) -> 0..Budget] :
              /\ \A x \in Range(s) : llround[x] \in Nearest(x, Total(s))
              /\ ulTargets' = [r \in rntis |-> Target(llround[s[r]])]
    /\ phase' = "reduce"
    /\ UNCHANGED <<commands, m_ulTargets, request, schedVars>>

\* The targets that may be reduced: the largest of those above one. Which of
\* several an unordered_map yields first is open.
Largest(f) == {r \in DOMAIN f : f[r] > 1 /\ \A q \in DOMAIN f : f[q] <= f[r]}

\* while (sumT > B_FIXED)
Reduce ==
    /\ phase = "reduce"
    /\ IF Total(ulTargets) > Budget /\ Largest(ulTargets) # {}
       THEN /\ \E r \in Largest(ulTargets) : ulTargets' = [ulTargets EXCEPT ![r] = @ - 1]
            /\ UNCHANGED phase
       ELSE phase' = "raise" /\ UNCHANGED ulTargets
    /\ UNCHANGED <<share, commands, m_ulTargets, request, schedVars>>

\* Mutant: the loop is left one short.
Missing_One(f) == Total(f) + 1 < Budget

Missing(f) == Total(f) < Budget

\* The first item with the greatest share; the agent sorts them by RNTI.
Favoured == Min({r \in DOMAIN share : \A q \in DOMAIN share : share[q] <= share[r]})

\* while (sumT < B_FIXED), and the command.
Raise ==
    /\ phase = "raise"
    /\ IF Missing(ulTargets)
       THEN /\ ulTargets' = [ulTargets EXCEPT ![Favoured] = @ + 1]
            /\ UNCHANGED <<phase, share, commands>>
       ELSE /\ phase' = "idle"
            /\ commands' = commands \cup {ulTargets}
            /\ share' = EmptyMap /\ ulTargets' = EmptyMap
    /\ UNCHANGED <<m_ulTargets, request, schedVars>>

\* ReceiveCommand() of the gNB's terminator, which ignores a command while it
\* is inactive, and SetUlTargets(). Commands have delays of their own.
SetUlTargets ==
    /\ phase = "idle"
    /\ \E c \in commands : m_ulTargets' \in {c, m_ulTargets} /\ commands' = commands \ {c}
    /\ UNCHANGED <<phase, runVars, request, schedVars>>

-----------------------------------------------------------------------------
(* A slot: DoScheduleUlData().                                             *)

\* The UEs of beam b, in some order of the map of UEs.
Members(b) == {ue \in DOMAIN request : Beam[ue] = b}
Orders(S) == {s \in [1..Cardinality(S) -> S] : \A i, j \in DOMAIN s : i # j => s[i] # s[j]}

Requested(r, b) == Total([ue \in {u \in DOMAIN r : Beam[u] = b} |-> r[ue]])

\* static_cast<uint32_t>(bufSizeBeam * tmp) for n symbols: the beam's part by
\* load, rounded down. The double of a whole number may fall just short of it.
Parts(r, b, n) ==
    {k \in 0..n : /\ k * Total(r) <= Requested(r, b) * n
                  /\ Requested(r, b) * n <= (k + 1) * Total(r)}

\* A slot with n free symbols begins: GetSymPerBeam() gives each beam its part.
StartSlot ==
    /\ phase = "idle"
    /\ \E active \in SUBSET Ues \ {{}}, n \in 1..MaxSymbols :
       \E r \in [active -> Buffers] :
         LET bs == {Beam[ue] : ue \in active} IN
         \E sym \in [bs -> 0..n] :
            /\ \A b \in bs : sym[b] \in Parts(r, b, n)
            /\ request' = r
            /\ symPerBeam' = sym
            /\ symAvail' = n - Total(sym)
            /\ spoint' = n
            /\ beams' = bs
    /\ phase' = "symbols"
    /\ grants' = {}
    /\ UNCHANGED <<runVars, commands, m_ulTargets, ueVector, remainingRbgSet, m_ulRBG>>

\* The beams with the fewest symbols.
Fewest(f) == {b \in DOMAIN f : \A c \in DOMAIN f : f[b] <= f[c]}

\* while (symToRedistribute > 0)
Redistribute ==
    /\ phase = "symbols"
    /\ IF symAvail > 0
       THEN /\ \E b \in Fewest(symPerBeam) : symPerBeam' = [symPerBeam EXCEPT ![b] = @ + 1]
            /\ symAvail' = symAvail - 1
            /\ UNCHANGED <<phase, beams, ueVector, remainingRbgSet>>
       ELSE /\ phase' = "assign"
            /\ \E b \in beams : \E v \in Orders(Members(b)) :
                 beams' = beams \ {b} /\ ueVector' = v
            /\ remainingRbgSet' = Rbgs
            /\ UNCHANGED <<symPerBeam, symAvail>>
    /\ UNCHANGED <<runVars, commands, m_ulTargets, request, m_ulRBG, spoint, grants>>

\* m_ulRBG.size(), and m_ulTbSize: a UE has bytes for each RBG and symbol.
Size(ue) == symPerBeam[Beam[ue]] * Cardinality(m_ulRBG[ue])
TbSize(ue) == BytesPerRbg * Size(ue)

Served(ue) == TbSize(ue) >= Max({request[ue], 12})

\* Mutant: a target is passed by one.
HasReachedUlTarget_Late(ue) ==
    LET sym == symPerBeam[Beam[ue]] IN
    sym = 0 \/ (ue \in DOMAIN m_ulTargets /\ Size(ue) \div sym > m_ulTargets[ue])

HasReachedUlTarget(ue) ==
    LET sym == symPerBeam[Beam[ue]] IN
    sym = 0 \/ (ue \in DOMAIN m_ulTargets /\ Size(ue) \div sym >= m_ulTargets[ue])

\* The sort is stable: equal sizes keep their order in the vector.
Sorted(v) ==
    LET Before(i, j) == Size(v[i]) < Size(v[j]) \/ (Size(v[i]) = Size(v[j]) /\ i < j)
        order == SortSeq([i \in DOMAIN v |-> i], Before)
    IN [i \in DOMAIN v |-> v[order[i]]]

\* Mutant: the vector is not sorted again.
Order_Kept(v) == v

Order(v) == Sorted(v)

Eligible(ue) == ~Served(ue) /\ ~HasReachedUlTarget(ue)

\* Mutant: the RBG is not erased.
Erased_Not(rbgs) == rbgs

\* What remains after the lowest RBG is assigned.
Erased(rbgs) == rbgs \ {Min(rbgs)}

\* One round of AssignULRBG() for the current beam: the first UE that needs
\* and may have more gets the lowest RBG.
AssignRbg ==
    LET v == Order(ueVector)
        who == {i \in DOMAIN v : Eligible(v[i])}
    IN
    /\ phase = "assign"
    /\ remainingRbgSet # {} /\ who # {}
    /\ m_ulRBG' = [m_ulRBG EXCEPT ![v[Min(who)]] = @ \cup {Min(remainingRbgSet)}]
    /\ remainingRbgSet' = Erased(remainingRbgSet)
    /\ ueVector' = v
    /\ UNCHANGED <<phase, runVars, commands, m_ulTargets, request, symPerBeam,
                   symAvail, beams, spoint, grants>>

BeamDone ==
    remainingRbgSet = {} \/ \A i \in DOMAIN ueVector : ~Eligible(ueVector[i])

\* The next beam, or the creation of the DCIs.
NextBeam ==
    /\ phase = "assign"
    /\ BeamDone
    /\ IF beams # {}
       THEN /\ \E b \in beams : \E v \in Orders(Members(b)) :
                 beams' = beams \ {b} /\ ueVector' = v
            /\ remainingRbgSet' = Rbgs
            /\ UNCHANGED phase
       ELSE /\ phase' = "grant"
            /\ beams' = DOMAIN symPerBeam
            /\ ueVector' = <<>> /\ remainingRbgSet' = {}
    /\ UNCHANGED <<runVars, commands, m_ulTargets, request, symPerBeam, symAvail,
                   m_ulRBG, spoint, grants>>

\* CreateUlDci() fails for a block of less than 12 bytes.
Granted(b) == {ue \in Members(b) : m_ulRBG[ue] # {} /\ TbSize(ue) >= 12}

Grant(ue, sym) == [ue |-> ue, rbgs |-> m_ulRBG[ue], start |-> spoint - sym, num |-> sym]

\* Mutant: the starting point stays where it was.
Moved_Not(b) == spoint

\* ChangeUlBeam(), if the beam has a DCI.
Moved(b) == IF Granted(b) = {} THEN spoint ELSE spoint - symPerBeam[b]

\* The DCIs of a beam.
GrantBeam ==
    /\ phase = "grant"
    /\ \E b \in beams :
         /\ beams' = beams \ {b}
         /\ IF symPerBeam[b] = 0 THEN UNCHANGED <<grants, spoint>>
            ELSE /\ grants' = grants \cup {Grant(ue, symPerBeam[b]) : ue \in Granted(b)}
                 /\ spoint' = Moved(b)
    /\ UNCHANGED <<phase, runVars, commands, m_ulTargets, request, symPerBeam, symAvail,
                   ueVector, remainingRbgSet, m_ulRBG>>

\* Mutant: the RBGs of a slot stay.
ResetUlSchedInfo_Not(f) == f

\* The RBGs after ResetUlSchedInfo() of the active UEs.
ResetUlSchedInfo(f) == [ue \in Ues |-> IF ue \in DOMAIN request THEN {} ELSE f[ue]]

\* The end of DoScheduleUlData().
EndSlot ==
    /\ phase = "grant"
    /\ beams = {}
    /\ phase' = "idle"
    /\ m_ulRBG' = ResetUlSchedInfo(m_ulRBG)
    /\ request' = EmptyMap /\ symPerBeam' = EmptyMap /\ spoint' = 0 /\ grants' = {}
    /\ UNCHANGED <<runVars, commands, m_ulTargets, symAvail, beams, ueVector, remainingRbgSet>>

-----------------------------------------------------------------------------

Loop == Reduce \/ Raise \/ Redistribute \/ AssignRbg \/ NextBeam \/ GrantBeam \/ EndSlot

Next == Run \/ SetUlTargets \/ StartSlot \/ Loop

Spec == Init /\ [][Next]_vars

\* A handler that has begun is executed to its end.
FairSpec == Spec /\ WF_vars(Loop)

-----------------------------------------------------------------------------
(* Properties.                                                             *)

\* The state: targets and RBGs are of UEs, RBGs are of the slot, and what the
\* loops work on is there only while they run.
TypeOK ==
    /\ phase \in {"idle", "reduce", "raise", "symbols", "assign", "grant"}
    /\ DOMAIN share = DOMAIN ulTargets
    /\ \A f \in commands \cup {share, ulTargets, m_ulTargets} :
         DOMAIN f \subseteq Ues \cup {Unknown} /\ \A r \in DOMAIN f : f[r] \in Nat
    /\ request \in [DOMAIN request -> Buffers]
    /\ symPerBeam \in [DOMAIN symPerBeam -> 0..MaxSymbols]
    /\ {symAvail, spoint} \subseteq 0..MaxSymbols
    /\ m_ulRBG \in [Ues -> SUBSET Rbgs]
    /\ remainingRbgSet \subseteq Rbgs
    /\ phase = "idle" => request = EmptyMap /\ \A ue \in Ues : m_ulRBG[ue] = {}

\* "Se corrige el efecto del redondeo para que la suma total sea igual a
\* B_FIXED": the targets of a command add up to the budget whatever the shares
\* and their rounding, and every UE has at least one RBG. Only if there are
\* more UEs than RBGs do they exceed it, with one each.
TargetsFillBudget ==
    \A c \in commands :
        /\ \A r \in DOMAIN c : c[r] >= 1
        /\ \/ Total(c) = Budget
           \/ Cardinality(DOMAIN c) > Budget /\ \A r \in DOMAIN c : c[r] = 1

\* The grants of a slot do not overlap: two of them differ in their symbols or
\* in their RBGs, over all the beams, and all lie within the slot.
GrantsDisjoint ==
    \A x, y \in grants :
        /\ x.start \in Nat /\ x.start + x.num <= MaxSymbols
        /\ x = y \/ x.rbgs \cap y.rbgs = {}
                 \/ x.start + x.num <= y.start \/ y.start + y.num <= x.start

\* Nobody is passed over: while one UE of a beam has two RBGs more than
\* another, the other one needs no more or has reached its target.
MaxMinFair ==
    phase = "assign" =>
        \A i, j \in DOMAIN ueVector :
            LET a == ueVector[i]
                b == ueVector[j]
            IN Cardinality(m_ulRBG[a]) > 1 + Cardinality(m_ulRBG[b]) => ~Eligible(b)

\* The agent's targets are what the UEs get. Nobody passes its target, the
\* "objetivo maximo de RBGs por UE en cada slot"; and once a beam is done and
\* the targets of its UEs fit, a UE that still has data holds its target.
TargetsHonoured ==
    LET members == Range(ueVector)
        fit == /\ members \subseteq DOMAIN m_ulTargets
               /\ Total([ue \in members |-> m_ulTargets[ue]]) <= Cardinality(Rbgs)
    IN phase = "assign" =>
        \A ue \in members \cap DOMAIN m_ulTargets :
            /\ Cardinality(m_ulRBG[ue]) <= m_ulTargets[ue]
            /\ BeamDone /\ fit /\ symPerBeam[Beam[ue]] > 0 /\ ~Served(ue) =>
                 Cardinality(m_ulRBG[ue]) = m_ulTargets[ue]

\* Every loop ends: Run() and DoScheduleUlData() return to the simulator.
HandlersReturn == phase # "idle" ~> phase = "idle"
=============================================================================
