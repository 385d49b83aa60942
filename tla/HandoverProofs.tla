--------------------------- MODULE HandoverProofs ---------------------------
(***************************************************************************)
(* A UE is not stranded, whatever the timeouts and delays, whatever gets   *)
(* lost and whatever fails on the radio link: proofs for any set of cells. *)
(***************************************************************************)
EXTENDS Handover, TLAPS

-----------------------------------------------------------------------------
(* The inductive invariant.                                                *)

Place == [cell : Cells, rnti : Nat]

\* An RNTI that was allocated. None is allocated twice.
Known(p) == p \in Place /\ p.rnti >= 1 /\ p.rnti <= m_lastAllocatedRnti[p.cell]

IsContext(x) ==
    /\ x = [state |-> x.state, joining |-> x.joining, leaving |-> x.leaving,
            source |-> x.source, target |-> x.target]
    /\ x.joining \in Nat

Shape ==
    /\ now \in Nat \ {0} /\ m_lastAllocatedRnti \in [Cells -> Nat] /\ DOMAIN m_ueMap = Cells
    /\ ue = [state |-> ue.state, at |-> ue.at, until |-> ue.until]
    /\ ue = IdleUe \/ Known(ue.at)

X2(type) == {m \in x2 : m.type = type}
Rrc(type) == {m \in rrc : m.type = type}
State(p) == UeManager(p).state
Joining(q) == {p \in Contexts : State(p) = "HANDOVER_JOINING" /\ UeManager(p).source = q}

\* A source q has one request under way at a time: the request itself, an
\* answer to it, or the context that the target has for it. A refusal that the
\* target sends when it gives up arrives after the answer.
About(q) ==
    {m \in x2 : \/ m.type = "HANDOVER REQUEST" /\ m.peer = q
                \/ m.type \in {"HANDOVER REQUEST ACK", "HANDOVER PREPARATION FAILURE"} /\ m.to = q}

Request(q) ==
    \A m \in About(q) : m.type = "HANDOVER REQUEST" =>
        /\ State(q) = "HANDOVER_PREPARATION"
        /\ \A n \in About(q) : n = m
        /\ Joining(q) = {}
Ack(q) ==
    \A a \in About(q) : a.type = "HANDOVER REQUEST ACK" =>
        /\ State(q) = "HANDOVER_PREPARATION"
        /\ a.ts >= now
        /\ \A n \in About(q) : n # a => n.type = "HANDOVER PREPARATION FAILURE" /\ a.ts < n.ts
        /\ \A p \in Joining(q) :
             UeManager(p).joining # Never => a.ts < UeManager(p).joining + X2Delay
Failure(q) ==
    \A f \in About(q) : f.type = "HANDOVER PREPARATION FAILURE" =>
        /\ State(q) \in {"HANDOVER_PREPARATION", "HANDOVER_LEAVING"}
        /\ \A n \in About(q) : n.type = "HANDOVER PREPARATION FAILURE" => n = f
        /\ Joining(q) = {}
Target(q) ==
    \A p \in Joining(q) :
        /\ State(q) \in {"HANDOVER_PREPARATION", "HANDOVER_LEAVING"}
        /\ \A n \in Joining(q) : n = p
Converses(q) == Request(q) /\ Ack(q) /\ Failure(q) /\ Target(q)

Talk == \A q \in Contexts : Converses(q)

\* What a message or a context refers to was allocated.
X2Named(m) ==
    /\ m.ts \in Nat \ {0}
    /\ m.type = "HANDOVER REQUEST" => m.to.cell \in Cells /\ Known(m.peer)
    /\ m.type = "HANDOVER REQUEST ACK" => Known(m.to) /\ Known(m.peer)
    /\ m.type = "HANDOVER PREPARATION FAILURE" => Known(m.to)
    /\ m.type = "UE CONTEXT RELEASE" => Known(m.to) /\ Known(m.peer)
RrcNamed(m) ==
    /\ m.type = "handover command" => Known(m.at) /\ Known(m.target)
    /\ m.type \in {"completed", "remove"} => Known(m.at)
ContextNamed(p) ==
    /\ Known(p) /\ IsContext(UeManager(p))
    /\ State(p) \in {"HANDOVER_JOINING", "HANDOVER_PATH_SWITCH"} => Known(UeManager(p).source)

Names ==
    /\ \A m \in x2 : X2Named(m)
    /\ \A m \in rrc : RrcNamed(m)
    /\ \A p \in Contexts : ContextNamed(p)

\* Where the UE is on its way to. It has never been there.
Invited == {a.peer : a \in X2("HANDOVER REQUEST ACK")} \cup {m.target : m \in Rrc("handover command")}

\* The UE is at p or has left it.
Entered(p) ==
    \/ ue.at = p
    \/ \E m \in Rrc("completed") \cup Rrc("remove") : m.at = p

Invitations ==
    /\ \A a \in X2("HANDOVER REQUEST ACK") :
         /\ a.peer \in Contexts => UeManager(a.peer).source = a.to
         /\ \A b \in X2("HANDOVER REQUEST ACK") : b.peer = a.peer => b = a
         /\ \A m \in Rrc("handover command") : m.target # a.peer
    /\ \A m \in Rrc("handover command") :
         /\ m.at \in Contexts => State(m.at) = "HANDOVER_LEAVING" /\ UeManager(m.at).target = m.target
         /\ m.target \in Contexts => UeManager(m.target).source = m.at
         /\ \A n \in Rrc("handover command") : n.target = m.target => n = m
    /\ \A p \in Invited :
         /\ ~Entered(p)
         /\ p \in Contexts => State(p) = "HANDOVER_JOINING"
         /\ \A m \in X2("UE CONTEXT RELEASE") : m.peer # p

\* The UE has left q and does not come back, and q leaves it to p.
Left(q, p) ==
    /\ ue.at # q /\ q \notin Invited
    /\ q \in Contexts => State(q) = "HANDOVER_LEAVING" /\ UeManager(q).target = p

Entries ==
    /\ \A p \in Contexts :
         \/ State(p) = "HANDOVER_PATH_SWITCH"
         \/ State(p) = "HANDOVER_JOINING" /\ Entered(p)
         => Left(UeManager(p).source, p)
    /\ \A m \in X2("UE CONTEXT RELEASE") :
         /\ Left(m.to, m.peer)
         /\ m.peer \in Contexts => State(m.peer) # "HANDOVER_JOINING"

\* A UE that is not idle is known where it is, or will be released.
Safe ==
    \/ ue = IdleUe
    \/ ue.at \in Contexts /\ State(ue.at) # "HANDOVER_JOINING"
    \/ Rrc("release") # {}
    \/ \E q \in Contexts :
         /\ State(q) = "HANDOVER_LEAVING" /\ UeManager(q).target = ue.at
         /\ \A m \in X2("UE CONTEXT RELEASE") : m.to # q

Removal == Rrc("remove") # {} => ue = IdleUe

Inv == Shape /\ Names /\ Talk /\ Invitations /\ Entries /\ Safe /\ Removal

-----------------------------------------------------------------------------
(* Contexts.                                                               *)

\* What is not before an instant is not before it.
LEMMA NotBefore == ASSUME NEW a \in Nat, NEW b \in Nat, a >= b, a < b PROVE FALSE
OBVIOUS

\* No context is nowhere.
LEMMA NotNowhere == ASSUME NEW p \in Place, p.rnti >= 1 PROVE p # Nowhere
<1>1. p.rnti # 0
    BY DEF Place
<1>2. Nowhere.rnti = 0
    BY Zenon DEF Nowhere
<1> QED BY <1>1, <1>2, Zenon

\* An RNTI that was allocated is not the one of an idle UE.
LEMMA KnownPlace == ASSUME NEW p, Known(p) PROVE p # Nowhere
BY NotNowhere, Zenon DEF Known

Is(p, c, r) == p = [cell |-> c, rnti |-> r]

\* The contexts are the RNTIs in the maps of the cells.
LEMMA InContexts ==
    ASSUME NEW p PROVE p \in Contexts <=> \E c \in Cells : \E r \in DOMAIN m_ueMap[c] : Is(p, c, r)
BY DEF Contexts, Is

\* What a step does to the contexts, in short.
Changed(p, x) ==
    /\ Contexts' = Contexts \cup {p} /\ UeManager(p)' = x
    /\ \A q \in Contexts : q # p => UeManager(q)' = UeManager(q)
Removed(p) ==
    /\ Contexts' = Contexts \ {p}
    /\ \A q \in Contexts' : UeManager(q)' = UeManager(q)

\* Updated() adds or changes the context p and no other.
LEMMA UpdatedFacts ==
    ASSUME DOMAIN m_ueMap = Cells, NEW p \in Place, NEW x, m_ueMap' = Updated(p, x)
    PROVE  Changed(p, x) /\ DOMAIN m_ueMap' = Cells
<1>1. PICK c \in Cells : c = p.cell
    BY DEF Place
<1>2. PICK k : k = p.rnti
    BY Zenon
<1>3. Is(p, c, k)
    BY <1>1, <1>2 DEF Place, Is
<1>4. PICK f : f = m_ueMap[c]
    BY Zenon
<1>5. m_ueMap' = [m_ueMap EXCEPT ![c] = Put(f, k, x)]
    BY <1>1, <1>2, <1>4, Zenon DEF Updated
<1>6. /\ DOMAIN m_ueMap' = Cells /\ m_ueMap'[c] = Put(f, k, x)
      /\ \A d \in Cells : d # c => m_ueMap'[d] = m_ueMap[d]
    BY <1>5, Zenon
<1>7. /\ DOMAIN m_ueMap'[c] = DOMAIN f \cup {k} /\ m_ueMap'[c][k] = x
      /\ \A r \in DOMAIN f : r # k => m_ueMap'[c][r] = f[r]
    BY <1>6, Zenon DEF Put
<1>8. \A d \in Cells : d # c => DOMAIN m_ueMap'[d] = DOMAIN m_ueMap[d]
    BY <1>6, Zenon
<1>9. ASSUME NEW q PROVE q \in Contexts' <=> q \in Contexts \/ q = p
    <2>1. q \in Contexts' <=> \E d \in Cells : \E r \in DOMAIN m_ueMap'[d] : Is(q, d, r)
        BY DEF Contexts, Is
    <2>2. CASE q \in Contexts'
        <3>1. PICK d \in Cells : \E r \in DOMAIN m_ueMap'[d] : Is(q, d, r)
            BY <2>1, <2>2, Zenon
        <3>2. PICK r \in DOMAIN m_ueMap'[d] : Is(q, d, r)
            BY <3>1, Zenon
        <3>3. r \in DOMAIN m_ueMap[d] \/ (d = c /\ r = k)
            BY <1>4, <1>7, <1>8, Zenon
        <3>4. d = c /\ r = k => q = p
            BY <1>3, <3>2, Zenon DEF Is
        <3> QED BY <2>2, <3>2, <3>3, <3>4, InContexts, Zenon
    <2>3. CASE q \in Contexts
        <3>1. PICK d \in Cells : \E r \in DOMAIN m_ueMap[d] : Is(q, d, r)
            BY <2>3, InContexts, Zenon
        <3>2. DOMAIN m_ueMap[d] \subseteq DOMAIN m_ueMap'[d]
            BY <1>4, <1>7, <1>8, Zenon
        <3> QED BY <2>1, <2>3, <3>1, <3>2, Zenon
    <2>4. CASE q = p
        BY <1>3, <1>7, <2>1, <2>4, Zenon
    <2> QED BY <2>2, <2>3, <2>4, Zenon
<1>10. ASSUME NEW q \in Contexts, q # p PROVE UeManager(q)' = UeManager(q)
    <2>1. PICK d \in Cells : \E r \in DOMAIN m_ueMap[d] : Is(q, d, r)
        BY InContexts, Zenon
    <2>2. PICK r \in DOMAIN m_ueMap[d] : Is(q, d, r)
        BY <2>1, Zenon
    <2>3. q.cell = d /\ q.rnti = r
        BY <2>2, Zenon DEF Is
    <2>4. d # c \/ r # k
        BY <1>3, <1>10, <2>2, Zenon DEF Is
    <2> QED BY <1>4, <1>6, <1>7, <2>3, <2>4, Zenon DEF UeManager
<1>11. UeManager(p)' = x
    BY <1>1, <1>2, <1>7, Zenon DEF UeManager
<1> QED BY <1>6, <1>9, <1>10, <1>11, Zenon DEF Changed

\* RemoveUe() forgets the context p and no other.
LEMMA RemoveUeFacts ==
    ASSUME DOMAIN m_ueMap = Cells, NEW p \in Place, m_ueMap' = RemoveUe(p)
    PROVE  Removed(p) /\ DOMAIN m_ueMap' = Cells
<1>1. PICK c \in Cells : c = p.cell
    BY DEF Place
<1>2. PICK k : k = p.rnti
    BY Zenon
<1>3. Is(p, c, k)
    BY <1>1, <1>2 DEF Place, Is
<1>4. PICK f : f = m_ueMap[c]
    BY Zenon
<1>5. m_ueMap' = [m_ueMap EXCEPT ![c] = Restrict(f, DOMAIN f \ {k})]
    BY <1>1, <1>2, <1>4, Zenon DEF RemoveUe
<1>6. /\ DOMAIN m_ueMap' = Cells /\ m_ueMap'[c] = Restrict(f, DOMAIN f \ {k})
      /\ \A d \in Cells : d # c => m_ueMap'[d] = m_ueMap[d]
    BY <1>5, Zenon
<1>7. /\ DOMAIN m_ueMap'[c] = DOMAIN f \ {k}
      /\ \A r \in DOMAIN f : r # k => m_ueMap'[c][r] = f[r]
    BY <1>6, Zenon DEF Restrict
<1>8. \A d \in Cells : d # c => DOMAIN m_ueMap'[d] = DOMAIN m_ueMap[d]
    BY <1>6, Zenon
<1>9. ASSUME NEW q PROVE q \in Contexts' <=> q \in Contexts /\ q # p
    <2>1. q \in Contexts' <=> \E d \in Cells : \E r \in DOMAIN m_ueMap'[d] : Is(q, d, r)
        BY DEF Contexts, Is
    <2>2. CASE q \in Contexts'
        <3>1. PICK d \in Cells : \E r \in DOMAIN m_ueMap'[d] : Is(q, d, r)
            BY <2>1, <2>2, Zenon
        <3>2. PICK r \in DOMAIN m_ueMap'[d] : Is(q, d, r)
            BY <3>1, Zenon
        <3>3. r \in DOMAIN m_ueMap[d] /\ (d # c \/ r # k)
            BY <1>4, <1>7, <1>8, Zenon
        <3>4. q.cell = d /\ q.rnti = r
            BY <3>2, Zenon DEF Is
        <3>5. q # p
            BY <1>1, <1>2, <3>3, <3>4, Zenon
        <3> QED BY <2>2, <3>2, <3>3, <3>5, InContexts, Zenon
    <2>3. CASE q \in Contexts /\ q # p
        <3>1. PICK d \in Cells : \E r \in DOMAIN m_ueMap[d] : Is(q, d, r)
            BY <2>3, InContexts, Zenon
        <3>2. PICK r \in DOMAIN m_ueMap[d] : Is(q, d, r)
            BY <3>1, Zenon
        <3>3. d # c \/ r # k
            BY <1>3, <2>3, <3>2, Zenon DEF Is
        <3>4. r \in DOMAIN m_ueMap'[d]
            BY <1>4, <1>7, <1>8, <3>3, Zenon
        <3> QED BY <2>1, <2>3, <3>2, <3>4, Zenon
    <2> QED BY <2>2, <2>3, Zenon
<1>10. ASSUME NEW q \in Contexts, q # p PROVE UeManager(q)' = UeManager(q)
    <2>1. PICK d \in Cells : \E r \in DOMAIN m_ueMap[d] : Is(q, d, r)
        BY InContexts, Zenon
    <2>2. PICK r \in DOMAIN m_ueMap[d] : Is(q, d, r)
        BY <2>1, Zenon
    <2>3. q.cell = d /\ q.rnti = r
        BY <2>2, Zenon DEF Is
    <2>4. d # c \/ r # k
        BY <1>3, <1>10, <2>2, Zenon DEF Is
    <2> QED BY <1>4, <1>6, <1>7, <2>3, <2>4, Zenon DEF UeManager
<1> QED BY <1>6, <1>9, <1>10, Zenon DEF Removed

-----------------------------------------------------------------------------
(* A source and its target.                                                *)

\* About a source that has nothing to do with a handover nothing is said.
LEMMA NothingAbout ==
    ASSUME NEW q, Converses(q), State(q) \notin {"HANDOVER_PREPARATION", "HANDOVER_LEAVING"}
    PROVE  About(q) = {} /\ Joining(q) = {}
<1>1. ASSUME NEW m \in About(q) PROVE FALSE
    <2>1. m.type \in {"HANDOVER REQUEST", "HANDOVER REQUEST ACK", "HANDOVER PREPARATION FAILURE"}
        BY Zenon DEF About
    <2> QED BY <2>1, Zenon DEF Converses, Request, Ack, Failure
<1>2. ASSUME NEW p \in Joining(q) PROVE FALSE
    BY Zenon DEF Converses, Target
<1> QED BY <1>1, <1>2, Zenon

\* A source without messages and without a joining target converses.
LEMMA NothingSaid ==
    ASSUME NEW q, About(q)' = {}, Joining(q)' = {} PROVE Converses(q)'
<1>1. Request(q)' /\ Ack(q)' /\ Failure(q)'
    BY Zenon DEF Request, Ack, Failure
<1>2. Target(q)'
    BY Zenon DEF Target
<1> QED BY <1>1, <1>2, Zenon DEF Converses

\* A step that says nothing new about q.
Quiet(q) ==
    /\ About(q)' \subseteq About(q) /\ Joining(q)' \subseteq Joining(q)
    /\ UeManager(q)'.state = UeManager(q).state
    /\ \A p \in Joining(q)' : UeManager(p)'.joining \in {UeManager(p).joining, Never}
    /\ \A a \in About(q)' : a.type = "HANDOVER REQUEST ACK" => a.ts >= now'

\* A step that says nothing new about q keeps its conversation.
LEMMA QuietStep == ASSUME NEW q, Converses(q), Quiet(q) PROVE Converses(q)'
<1>1. State(q)' = State(q)
    BY Zenon DEF Quiet, State
<1>2. Request(q)'
    BY <1>1, Zenon DEF Quiet, Converses, Request
<1>3. Failure(q)'
    BY <1>1, Zenon DEF Quiet, Converses, Failure
<1>4. Target(q)'
    BY <1>1, Zenon DEF Quiet, Converses, Target
<1>5. ASSUME NEW a \in About(q)', a.type = "HANDOVER REQUEST ACK"
      PROVE  /\ State(q)' = "HANDOVER_PREPARATION"
             /\ a.ts >= now'
             /\ \A n \in About(q)' : n # a => n.type = "HANDOVER PREPARATION FAILURE" /\ a.ts < n.ts
             /\ \A p \in Joining(q)' :
                  UeManager(p)'.joining # Never => a.ts < UeManager(p)'.joining + X2Delay
    <2>1. a \in About(q) /\ a.ts >= now'
        BY <1>5, Zenon DEF Quiet
    <2>2. /\ State(q) = "HANDOVER_PREPARATION"
          /\ \A n \in About(q) : n # a => n.type = "HANDOVER PREPARATION FAILURE" /\ a.ts < n.ts
          /\ \A p \in Joining(q) :
               UeManager(p).joining # Never => a.ts < UeManager(p).joining + X2Delay
        BY <1>5, <2>1, Zenon DEF Converses, Ack
    <2>3. ASSUME NEW p \in Joining(q)', UeManager(p)'.joining # Never
          PROVE  a.ts < UeManager(p)'.joining + X2Delay
        <3>1. p \in Joining(q) /\ UeManager(p)'.joining = UeManager(p).joining
            BY <2>3, Zenon DEF Quiet
        <3> QED BY <2>2, <2>3, <3>1, Zenon
    <2>4. \A n \in About(q)' : n # a => n.type = "HANDOVER PREPARATION FAILURE" /\ a.ts < n.ts
        BY <2>2, Zenon DEF Quiet
    <2> QED BY <1>1, <2>1, <2>2, <2>3, <2>4, Zenon
<1>6. Ack(q)'
    BY <1>5, Zenon DEF Ack
<1> QED BY <1>2, <1>3, <1>4, <1>6, Zenon DEF Converses

-----------------------------------------------------------------------------
(* Where the UE is, was and will be.                                       *)

\* What was allocated remains so.
Grows == \A p : Known(p) => Known(p)'

\* A context that is there after a step was there before, and no handover
\* begins or ends at it but that of a UE that has entered.
Moves(p) ==
    /\ UeManager(p)'.source = UeManager(p).source
    /\ \/ UeManager(p)'.state = State(p) /\ UeManager(p)'.target = UeManager(p).target
       \/ /\ State(p) \notin {"HANDOVER_JOINING", "HANDOVER_LEAVING"}
          /\ UeManager(p)'.state \notin {"HANDOVER_JOINING", "HANDOVER_PATH_SWITCH"}
       \/ /\ State(p) = "HANDOVER_JOINING" /\ Entered(p)
          /\ UeManager(p)'.state = "HANDOVER_PATH_SWITCH"
Drift == \A p \in Contexts' : p \in Contexts /\ Moves(p)

\* A context release is sent when the path is switched.
NewRelease ==
    \A m \in X2("UE CONTEXT RELEASE")' :
        \/ m \in X2("UE CONTEXT RELEASE")
        \/ /\ m.peer \in Contexts /\ State(m.peer) = "HANDOVER_PATH_SWITCH"
           /\ m.to = UeManager(m.peer).source

\* Names are kept when no RNTI is taken back and what is new has names.
LEMMA NamesStep ==
    ASSUME Names, Grows, \A m \in x2' : m \in x2 \/ X2Named(m)', \A m \in rrc' : m \in rrc \/ RrcNamed(m)',
           \A p \in Contexts' :
               \/ p \in Contexts /\ UeManager(p)' = UeManager(p)
               \/ ContextNamed(p)'
    PROVE  Names'
<1>1. ASSUME NEW m \in x2' PROVE X2Named(m)'
    BY Zenon DEF Names, X2Named, Grows
<1>2. ASSUME NEW m \in rrc' PROVE RrcNamed(m)'
    BY Zenon DEF Names, RrcNamed, Grows
<1>3. ASSUME NEW p \in Contexts' PROVE ContextNamed(p)'
    BY Zenon DEF Names, ContextNamed, Grows, State
<1> QED BY <1>1, <1>2, <1>3, Zenon DEF Names

\* A UE that is invited does not enter before it is told to.
LEMMA InvitedStep ==
    ASSUME Invitations, Drift, NewRelease, Invited' \subseteq Invited,
           \A p \in Invited' : Entered(p)' => Entered(p)
    PROVE  \A p \in Invited' :
             /\ ~Entered(p)'
             /\ p \in Contexts' => State(p)' = "HANDOVER_JOINING"
             /\ \A m \in X2("UE CONTEXT RELEASE")' : m.peer # p
<1>1. SUFFICES ASSUME NEW p \in Invited'
               PROVE  /\ ~Entered(p)'
                      /\ p \in Contexts' => State(p)' = "HANDOVER_JOINING"
                      /\ \A m \in X2("UE CONTEXT RELEASE")' : m.peer # p
    BY Zenon
<1>2. p \in Invited /\ ~Entered(p)
    BY Zenon DEF Invitations
<1>3. p \in Contexts => State(p) = "HANDOVER_JOINING"
    BY <1>2, Zenon DEF Invitations
<1>4. \A m \in X2("UE CONTEXT RELEASE") : m.peer # p
    BY <1>2, Zenon DEF Invitations
<1>5. p \in Contexts' => State(p)' = "HANDOVER_JOINING"
    BY <1>2, <1>3, Zenon DEF Drift, Moves, State
<1>6. \A m \in X2("UE CONTEXT RELEASE")' : m.peer # p
    BY <1>3, <1>4, Zenon DEF NewRelease
<1> QED BY <1>2, <1>5, <1>6, Zenon

\* Invitations are kept when nobody is invited and nobody invited is entered.
LEMMA InvitationsStep ==
    ASSUME Invitations, Drift, NewRelease,
           X2("HANDOVER REQUEST ACK")' \subseteq X2("HANDOVER REQUEST ACK"),
           Rrc("handover command")' \subseteq Rrc("handover command"),
           \A p \in Invited' : Entered(p)' => Entered(p)
    PROVE  Invitations'
<1>1. Invited' \subseteq Invited
    BY Zenon DEF Invited
<1>2. \A p \in Invited' :
        /\ ~Entered(p)'
        /\ p \in Contexts' => State(p)' = "HANDOVER_JOINING"
        /\ \A m \in X2("UE CONTEXT RELEASE")' : m.peer # p
    BY <1>1, InvitedStep, Zenon
<1>3. ASSUME NEW a \in X2("HANDOVER REQUEST ACK")'
      PROVE  /\ a.peer \in Contexts' => UeManager(a.peer)'.source = a.to
             /\ \A b \in X2("HANDOVER REQUEST ACK")' : b.peer = a.peer => b = a
             /\ \A m \in Rrc("handover command")' : m.target # a.peer
    BY Zenon DEF Invitations, Drift, Moves
<1>4. ASSUME NEW m \in Rrc("handover command")'
      PROVE  /\ m.at \in Contexts' => State(m.at)' = "HANDOVER_LEAVING" /\ UeManager(m.at)'.target = m.target
             /\ m.target \in Contexts' => UeManager(m.target)'.source = m.at
             /\ \A n \in Rrc("handover command")' : n.target = m.target => n = m
    <2>1. /\ m.at \in Contexts => State(m.at) = "HANDOVER_LEAVING" /\ UeManager(m.at).target = m.target
          /\ m.target \in Contexts => UeManager(m.target).source = m.at
          /\ \A n \in Rrc("handover command") : n.target = m.target => n = m
        BY Zenon DEF Invitations
    <2>2. m.at \in Contexts' => State(m.at)' = "HANDOVER_LEAVING" /\ UeManager(m.at)'.target = m.target
        BY <2>1, Zenon DEF Drift, Moves, State
    <2>3. m.target \in Contexts' => UeManager(m.target)'.source = m.at
        BY <2>1, Zenon DEF Drift, Moves
    <2> QED BY <2>1, <2>2, <2>3, Zenon
<1> QED BY <1>2, <1>3, <1>4, Zenon DEF Invitations

\* What was left stays so.
LEMMA LeftStep ==
    ASSUME NEW q, NEW p, Known(q), Left(q, p), Drift, Invited' \subseteq Invited, ue'.at \in {ue.at, Nowhere}
    PROVE  Left(q, p)'
<1>1. q # Nowhere
    BY KnownPlace, Zenon
<1>2. ue'.at # q /\ q \notin Invited'
    BY <1>1, Zenon DEF Left
<1>3. q \in Contexts' => State(q)' = "HANDOVER_LEAVING" /\ UeManager(q)'.target = p
    BY Zenon DEF Left, Drift, Moves, State
<1> QED BY <1>2, <1>3, Zenon DEF Left

\* Entries are kept when no context is entered and no source returns.
LEMMA EntriesStep ==
    ASSUME Entries, Names, Drift, NewRelease, Invited' \subseteq Invited,
           ue'.at \in {ue.at, Nowhere}, \A p \in Contexts : Entered(p)' => Entered(p)
    PROVE  Entries'
<1>1. ASSUME NEW p \in Contexts',
             \/ State(p)' = "HANDOVER_PATH_SWITCH"
             \/ State(p)' = "HANDOVER_JOINING" /\ Entered(p)'
      PROVE  Left(UeManager(p).source, p)'
    <2>1. p \in Contexts /\ Moves(p)
        BY Zenon DEF Drift
    <2>2. PICK q : q = UeManager(p).source /\ q = UeManager(p)'.source
        BY <2>1, Zenon DEF Moves
    <2>3. \/ State(p) = "HANDOVER_PATH_SWITCH"
          \/ State(p) = "HANDOVER_JOINING" /\ Entered(p)
        BY <1>1, <2>1, Zenon DEF Moves, State
    <2>4. Left(q, p)
        BY <2>1, <2>2, <2>3, Zenon DEF Entries
    <2>5. Known(q)
        BY <2>1, <2>2, <2>3, Zenon DEF Names, ContextNamed
    <2>6. Left(q, p)'
        BY <2>4, <2>5, LeftStep, Zenon
    <2> QED BY <2>2, <2>6, Zenon
<1>2. ASSUME NEW m \in X2("UE CONTEXT RELEASE")'
      PROVE  Left(m.to, m.peer)' /\ (m.peer \in Contexts' => State(m.peer)' # "HANDOVER_JOINING")
    <2>1. Known(m.to) /\ Left(m.to, m.peer) /\ (m.peer \in Contexts => State(m.peer) # "HANDOVER_JOINING")
        <3>1. CASE m \in X2("UE CONTEXT RELEASE")
            <4>1. m \in x2 /\ m.type = "UE CONTEXT RELEASE"
                BY <3>1, Zenon DEF X2
            <4> QED BY <3>1, <4>1, Zenon DEF Entries, Names, X2Named
        <3>2. CASE /\ m.peer \in Contexts /\ State(m.peer) = "HANDOVER_PATH_SWITCH"
                   /\ m.to = UeManager(m.peer).source
            BY <3>2, Zenon DEF Entries, Names, ContextNamed
        <3> QED BY <3>1, <3>2, Zenon DEF NewRelease
    <2>2. Left(m.to, m.peer)'
        BY <2>1, LeftStep, Zenon
    <2>3. m.peer \in Contexts' => State(m.peer)' # "HANDOVER_JOINING"
        BY <2>1, Zenon DEF Drift, Moves, State
    <2> QED BY <2>2, <2>3, Zenon
<1> QED BY <1>1, <1>2, Zenon DEF Entries

-----------------------------------------------------------------------------
(* Steps that begin and end no handover.                                   *)

Calm ==
    /\ UNCHANGED m_lastAllocatedRnti
    /\ now' = now \/ \A m \in x2' : m.ts >= now'
    /\ \A m \in x2' : m \in x2 \/ (m.type = "HANDOVER CANCEL" /\ m.ts \in Nat \ {0})
    /\ \A m \in rrc' :
         \/ m \in rrc
         \/ m.type \in {"release", "random access response", "reconfiguration"}
         \/ m.type \in {"completed", "remove"} /\ m.at = ue.at /\ Known(ue.at)
    /\ \A p \in Contexts' :
         /\ p \in Contexts
         /\ \/ UeManager(p)' = UeManager(p)
            \/ UeManager(p)' = [UeManager(p) EXCEPT !.joining = Never]
    /\ ue'.at \in {ue.at, Nowhere}

\* A timer that is stopped.
LEMMA Stopped ==
    ASSUME NEW x, IsContext(x), NEW y, y = [x EXCEPT !.joining = Never]
    PROVE  /\ IsContext(y) /\ y.joining = Never
           /\ y.state = x.state /\ y.source = x.source /\ y.target = x.target
BY DEF IsContext, Never

\* What a calm step leaves of a context.
LEMMA CalmContext ==
    ASSUME Names, Calm, NEW p \in Contexts'
    PROVE  /\ p \in Contexts /\ IsContext(UeManager(p)')
           /\ UeManager(p)'.joining \in {UeManager(p).joining, Never}
           /\ UeManager(p)'.state = UeManager(p).state
           /\ UeManager(p)'.source = UeManager(p).source
           /\ UeManager(p)'.target = UeManager(p).target
<1>1. p \in Contexts /\ IsContext(UeManager(p))
    BY Zenon DEF Calm, Names, ContextNamed
<1>2. CASE UeManager(p)' = UeManager(p)
    BY <1>1, <1>2, Zenon
<1>3. CASE UeManager(p)' = [UeManager(p) EXCEPT !.joining = Never]
    <2>1. PICK x : x = UeManager(p)
        BY Zenon
    <2>2. PICK y : y = UeManager(p)'
        BY Zenon
    <2>3. IsContext(x) /\ y = [x EXCEPT !.joining = Never]
        BY <1>1, <1>3, <2>1, <2>2, Zenon
    <2>4. /\ IsContext(y) /\ y.joining = Never
          /\ y.state = x.state /\ y.source = x.source /\ y.target = x.target
        BY <2>3, Stopped
    <2> QED BY <1>1, <2>1, <2>2, <2>4, Zenon
<1> QED BY <1>2, <1>3, Zenon DEF Calm

\* A calm step keeps the invariant but for Safe and Removal.
LEMMA CalmStep ==
    ASSUME Names, Talk, Invitations, Entries, Calm PROVE Names' /\ Talk' /\ Invitations' /\ Entries'
<1>1. Grows
    BY Zenon DEF Calm, Grows, Known
<1>2. Drift
    BY CalmContext, Zenon DEF Drift, Moves, State
<1>3. /\ X2("HANDOVER REQUEST ACK")' \subseteq X2("HANDOVER REQUEST ACK")
      /\ X2("UE CONTEXT RELEASE")' \subseteq X2("UE CONTEXT RELEASE")
    BY Zenon DEF Calm, X2
<1>4. Rrc("handover command")' \subseteq Rrc("handover command")
    BY Zenon DEF Calm, Rrc
<1>5. NewRelease
    BY <1>3, Zenon DEF NewRelease
<1>6. ASSUME NEW p, p # Nowhere, Entered(p)' PROVE Entered(p)
    <2>1. CASE ue'.at = p
        BY <1>6, <2>1, Zenon DEF Calm, Entered
    <2>2. CASE \E m \in Rrc("completed")' \cup Rrc("remove")' : m.at = p
        <3>1. PICK m \in Rrc("completed")' \cup Rrc("remove")' : m.at = p
            BY <2>2, Zenon
        <3>2. m \in rrc' /\ m.type \in {"completed", "remove"}
            BY Zenon DEF Rrc
        <3>3. m \in rrc \/ m.at = ue.at
            BY <3>2, Zenon DEF Calm
        <3> QED BY <3>1, <3>2, <3>3, Zenon DEF Entered, Rrc
    <2> QED BY <1>6, <2>1, <2>2, Zenon DEF Entered
<1>7. Invited' \subseteq Invited
    BY <1>3, <1>4, Zenon DEF Invited
<1>8. ASSUME NEW p \in Contexts PROVE p # Nowhere
    BY KnownPlace, Zenon DEF Names, ContextNamed
<1>9. ASSUME NEW p \in Invited PROVE p # Nowhere
    <2>1. CASE \E a \in X2("HANDOVER REQUEST ACK") : p = a.peer
        BY <2>1, KnownPlace, Zenon DEF X2, Names, X2Named
    <2>2. CASE \E m \in Rrc("handover command") : p = m.target
        BY <2>2, KnownPlace, Zenon DEF Rrc, Names, RrcNamed
    <2> QED BY <2>1, <2>2, Zenon DEF Invited
<1>10. Names'
    <2>1. ASSUME NEW m \in x2' PROVE m \in x2 \/ X2Named(m)'
        BY Zenon DEF Calm, X2Named
    <2>2. ASSUME NEW m \in rrc' PROVE m \in rrc \/ RrcNamed(m)'
        BY <1>1, Zenon DEF Calm, RrcNamed, Grows
    <2>3. ASSUME NEW p \in Contexts' PROVE ContextNamed(p)'
        BY <1>1, CalmContext, Zenon DEF Names, ContextNamed, Grows, State
    <2> QED BY <1>1, <2>1, <2>2, <2>3, NamesStep, Zenon
<1>11. ASSUME NEW q \in Contexts' PROVE Converses(q)'
    <2>1. q \in Contexts /\ Converses(q)
        BY Zenon DEF Calm, Talk
    <2>2. About(q)' \subseteq About(q)
        BY Zenon DEF Calm, About
    <2>3. Joining(q)' \subseteq Joining(q)
        BY CalmContext, Zenon DEF Joining, State
    <2>4. \A p \in Joining(q)' : UeManager(p)'.joining \in {UeManager(p).joining, Never}
        BY CalmContext, Zenon DEF Joining
    <2>5. \A a \in About(q)' : a.type = "HANDOVER REQUEST ACK" => a.ts >= now'
        BY <2>1, <2>2, Zenon DEF Calm, About, Converses, Ack
    <2>6. Quiet(q)
        BY <2>2, <2>3, <2>4, <2>5, CalmContext, Zenon DEF Quiet
    <2> QED BY <2>1, <2>6, QuietStep, Zenon
<1>12. Invitations'
    BY <1>2, <1>3, <1>4, <1>5, <1>6, <1>7, <1>9, InvitationsStep, Zenon
<1>13. Entries'
    BY <1>2, <1>5, <1>6, <1>7, <1>8, EntriesStep, Zenon DEF Calm
<1> QED BY <1>10, <1>11, <1>12, <1>13, Zenon DEF Talk

-----------------------------------------------------------------------------
(* Where the UE is known.                                                  *)

\* A context of a UE that has entered stays, and so does one that it leaves.
Keeps(q) ==
    State(q) # "HANDOVER_JOINING" =>
        /\ q \in Contexts' /\ UeManager(q)'.state # "HANDOVER_JOINING"
        /\ State(q) = "HANDOVER_LEAVING" =>
             UeManager(q)'.state = "HANDOVER_LEAVING" /\ UeManager(q)'.target = UeManager(q).target

\* The UE stays where it is, unless it becomes idle.
Stays ==
    \/ ue' = IdleUe
    \/ /\ ue # IdleUe /\ ue'.at = ue.at
       /\ Rrc("release") \subseteq Rrc("release")' /\ Rrc("remove")' \subseteq Rrc("remove")

\* A UE stays safe while nothing that makes it safe goes away.
LEMMA SafeStep ==
    ASSUME Safe, Stays, \A q \in Contexts : Keeps(q),
           X2("UE CONTEXT RELEASE")' \subseteq X2("UE CONTEXT RELEASE")
    PROVE  Safe'
<1>1. CASE ue' = IdleUe
    BY <1>1, Zenon DEF Safe
<1>2. CASE ue # IdleUe /\ ue'.at = ue.at /\ Rrc("release") \subseteq Rrc("release")'
    <2>1. CASE ue.at \in Contexts /\ State(ue.at) # "HANDOVER_JOINING"
        BY <1>2, <2>1, Zenon DEF Safe, Keeps, State
    <2>2. CASE Rrc("release") # {}
        BY <1>2, <2>2, Zenon DEF Safe
    <2>3. CASE \E q \in Contexts :
                 /\ State(q) = "HANDOVER_LEAVING" /\ UeManager(q).target = ue.at
                 /\ \A m \in X2("UE CONTEXT RELEASE") : m.to # q
        <3>1. PICK q \in Contexts :
                 /\ State(q) = "HANDOVER_LEAVING" /\ UeManager(q).target = ue.at
                 /\ \A m \in X2("UE CONTEXT RELEASE") : m.to # q
            BY <2>3, Zenon
        <3>2. /\ q \in Contexts' /\ UeManager(q)'.state = "HANDOVER_LEAVING"
              /\ UeManager(q)'.target = ue'.at
            BY <1>2, <3>1, Zenon DEF Keeps
        <3>3. \A m \in X2("UE CONTEXT RELEASE")' : m.to # q
            BY <3>1, Zenon
        <3> QED BY <3>2, <3>3, Zenon DEF Safe, State
    <2> QED BY <1>2, <2>1, <2>2, <2>3, Zenon DEF Safe
<1> QED BY <1>1, <1>2, Zenon DEF Stays

\* A step that leaves the UE where it is and asks for no removal keeps Removal.
LEMMA RemovalStep == ASSUME Removal, Stays PROVE Removal'
BY Zenon DEF Removal, Stays

-----------------------------------------------------------------------------
(* The steps.                                                              *)

\* A step that leaves the contexts alone.
LEMMA SameContexts ==
    ASSUME UNCHANGED m_ueMap
    PROVE  Contexts' = Contexts /\ \A p : UeManager(p)' = UeManager(p)
<1>1. Contexts' = Contexts
    BY DEF Contexts
<1> QED BY <1>1, Zenon DEF UeManager

\* A step of the UE, of the air interface or of the X2 link.
AirMessages ==
    \A m \in rrc' :
        \/ m \in rrc
        \/ m.type \in {"release", "random access response", "reconfiguration"}
        \/ m.type \in {"completed", "remove"} /\ m.at = ue.at /\ Known(ue.at)

\* It keeps the invariant if the UE stays where it is, or is idle.
LEMMA AirStep ==
    ASSUME Inv, UNCHANGED <<now, m_ueMap, m_lastAllocatedRnti>>, x2' \subseteq x2, AirMessages, Stays,
           ue' = [state |-> ue'.state, at |-> ue'.at, until |-> ue'.until]
    PROVE  Inv'
<1>1. Contexts' = Contexts /\ \A p : UeManager(p)' = UeManager(p)
    BY SameContexts, Zenon
<1>2. IdleUe.at = Nowhere
    BY Zenon DEF IdleUe
<1>3. Calm
    BY <1>1, <1>2, Zenon DEF Calm, AirMessages, Stays
<1>4. \A q \in Contexts : Keeps(q)
    BY <1>1, Zenon DEF Keeps, State
<1>5. X2("UE CONTEXT RELEASE")' \subseteq X2("UE CONTEXT RELEASE")
    BY Zenon DEF X2
<1>6. Shape'
    BY Zenon DEF Inv, Shape, Known, Stays
<1>7. Safe'
    BY <1>4, <1>5, SafeStep, Zenon DEF Inv
<1>8. Names' /\ Talk' /\ Invitations' /\ Entries'
    BY <1>3, CalmStep, Zenon DEF Inv
<1> QED BY <1>6, <1>7, <1>8, RemovalStep, Zenon DEF Inv

\* Without a change of rrc and of the UE it is such a step.
LEMMA SameAir ==
    ASSUME UNCHANGED rrc, UNCHANGED ue PROVE Stays /\ AirMessages
<1>1. Rrc("release")' = Rrc("release") /\ Rrc("remove")' = Rrc("remove")
    BY Zenon DEF Rrc
<1> QED BY <1>1, Zenon DEF Stays, AirMessages

\* Abort() changes nothing that the invariant speaks of.
LEMMA AbortStep == ASSUME Inv, NEW why, Abort(why) PROVE Inv'
<1>1. UNCHANGED <<now, m_ueMap, m_lastAllocatedRnti, ue, x2, rrc>>
    BY Zenon DEF Abort, gnbVars
<1>2. ue' = [state |-> ue'.state, at |-> ue'.at, until |-> ue'.until]
    BY <1>1, Zenon DEF Inv, Shape
<1> QED BY <1>1, <1>2, SameAir, AirStep, Zenon

\* LoseX2Message() takes a message away.
LEMMA LoseStep == ASSUME Inv, NEW m \in x2, LoseX2Message(m) PROVE Inv'
<1>1. UNCHANGED <<now, m_ueMap, m_lastAllocatedRnti, ue, rrc>> /\ x2' \subseteq x2
    BY Zenon DEF LoseX2Message, gnbVars
<1>2. ue' = [state |-> ue'.state, at |-> ue'.at, until |-> ue'.until]
    BY <1>1, Zenon DEF Inv, Shape
<1> QED BY <1>1, <1>2, SameAir, AirStep, Zenon

\* Advance() lets no answer become late.
LEMMA AdvanceStep == ASSUME Inv, Advance PROVE Inv'
<1>1. UNCHANGED <<m_ueMap, m_lastAllocatedRnti, ue, x2, rrc>> /\ now' = now + 1
    BY Zenon DEF Advance, gnbVars
<1>2. Contexts' = Contexts /\ \A p : UeManager(p)' = UeManager(p)
    BY <1>1, SameContexts, Zenon
<1>3. ASSUME NEW m \in x2' PROVE m.ts >= now'
    <2>1. m.ts \in Nat \ {0} /\ now \in Nat \ {0}
        BY <1>1, Zenon DEF Inv, Shape, Names, X2Named
    <2>2. m.ts \in Due
        BY <1>1, Zenon DEF Due
    <2>3. m.ts # 0 => m.ts > now
        BY <2>2, Zenon DEF Advance, Never
    <2> QED BY <1>1, <2>1, <2>3
<1>4. Calm
    BY <1>1, <1>2, <1>3, Zenon DEF Calm
<1>5. \A q \in Contexts : Keeps(q)
    BY <1>2, Zenon DEF Keeps, State
<1>6. Shape'
    <2>1. now' \in Nat \ {0}
        BY <1>1 DEF Inv, Shape
    <2> QED BY <1>1, <2>1, Zenon DEF Inv, Shape, Known
<1>7. X2("UE CONTEXT RELEASE")' \subseteq X2("UE CONTEXT RELEASE")
    BY <1>1, Zenon DEF X2
<1>8. Safe' /\ Removal'
    BY <1>1, <1>5, <1>7, SameAir, SafeStep, RemovalStep, Zenon DEF Inv
<1> QED BY <1>4, <1>6, <1>8, CalmStep, Zenon DEF Inv

Sent(m, type, p, target) == m.type = type /\ m.at = p /\ m.target = target

\* What OverTheAir() sends.
LEMMA AirFacts ==
    ASSUME NEW type, NEW p, NEW target, NEW m \in OverTheAir(type, p, target)
    PROVE  Sent(m, type, p, target)
<1>1. PICK d \in AirDelays : m = [ts |-> now + d, type |-> type, at |-> p, target |-> target]
    BY Zenon DEF OverTheAir
<1> QED BY <1>1, Zenon DEF Sent

\* ProcessRaPreambles()
LEMMA ResponseStep == ASSUME Inv, ProcessRaPreambles PROVE Inv'
<1>1. UNCHANGED <<now, m_ueMap, m_lastAllocatedRnti, ue, x2>>
    BY Zenon DEF ProcessRaPreambles, gnbVars
<1>2. PICK n \in OverTheAir("random access response", ue.at, Nowhere) : rrc' = rrc \cup {n}
    BY Zenon DEF ProcessRaPreambles
<1>3. Sent(n, "random access response", ue.at, Nowhere)
    BY AirFacts, Zenon
<1>4. Rrc("release") \subseteq Rrc("release")' /\ Rrc("remove")' \subseteq Rrc("remove")
    BY <1>2, <1>3, Zenon DEF Rrc, Sent
<1>5. AirMessages
    BY <1>2, <1>3, Zenon DEF AirMessages, Sent
<1>6. Stays /\ ue' = [state |-> ue'.state, at |-> ue'.at, until |-> ue'.until]
    BY <1>1, <1>4, Zenon DEF Stays, Inv, Shape
<1> QED BY <1>1, <1>5, <1>6, AirStep, Zenon

\* DoNotifyRandomAccessSuccessful()
LEMMA AccessStep == ASSUME Inv, NEW m \in rrc, NotifyRandomAccessSuccessful(m) PROVE Inv'
<1>1. UNCHANGED <<now, m_ueMap, m_lastAllocatedRnti, x2>> /\ m.type = "random access response"
    BY Zenon DEF NotifyRandomAccessSuccessful, Receives, gnbVars
<1>2. CASE ue.state = "CONNECTED_HANDOVER" /\ ue.at = m.at
    <2>1. ue # IdleUe /\ Known(ue.at)
        <3>1. IdleUe.state = "IDLE_START"
            BY Zenon DEF IdleUe
        <3> QED BY <1>2, <3>1, Zenon DEF Inv, Shape
    <2>2. PICK n \in OverTheAir("completed", m.at, Nowhere) : rrc' = (rrc \ {m}) \cup {n}
        BY <1>2, Zenon DEF NotifyRandomAccessSuccessful
    <2>3. Sent(n, "completed", m.at, Nowhere)
        BY AirFacts, Zenon
    <2>4. /\ ue'.at = ue.at
          /\ ue' = [state |-> ue'.state, at |-> ue'.at, until |-> ue'.until]
        <3>1. ue' = [ue EXCEPT !.state = "CONNECTED_NORMALLY", !.until = Never]
            BY <1>2, Zenon DEF NotifyRandomAccessSuccessful
        <3>2. ue = [state |-> ue.state, at |-> ue.at, until |-> ue.until]
            BY Zenon DEF Inv, Shape
        <3> QED BY <3>1, <3>2, Zenon
    <2>5. Rrc("release") \subseteq Rrc("release")' /\ Rrc("remove")' \subseteq Rrc("remove")
        BY <1>1, <2>2, <2>3, Zenon DEF Rrc, Sent
    <2>6. AirMessages
        BY <1>2, <2>1, <2>2, <2>3, Zenon DEF AirMessages, Sent
    <2>7. Stays
        BY <2>1, <2>4, <2>5, Zenon DEF Stays
    <2> QED BY <1>1, <2>4, <2>6, <2>7, AirStep, Zenon
<1>3. CASE ~(ue.state = "CONNECTED_HANDOVER" /\ ue.at = m.at)
    <2>1. rrc' = rrc \ {m} /\ ue' = ue
        BY <1>3, Zenon DEF NotifyRandomAccessSuccessful
    <2>2. Rrc("release") \subseteq Rrc("release")' /\ Rrc("remove")' \subseteq Rrc("remove")
        BY <1>1, <2>1, Zenon DEF Rrc
    <2>3. AirMessages
        BY <2>1, Zenon DEF AirMessages
    <2>4. Stays /\ ue' = [state |-> ue'.state, at |-> ue'.at, until |-> ue'.until]
        BY <2>1, <2>2, Zenon DEF Stays, Inv, Shape
    <2> QED BY <1>1, <2>3, <2>4, AirStep, Zenon
<1> QED BY <1>2, <1>3, Zenon

\* LeaveConnectedMode(), of a UE that is not idle.
LEMMA LeaveStep ==
    ASSUME Inv, NEW messages, messages \subseteq rrc, ue # IdleUe, LeaveConnectedMode(messages),
           UNCHANGED <<now, m_ueMap, m_lastAllocatedRnti, x2>>
    PROVE  Inv'
<1>1. Known(ue.at)
    BY Zenon DEF Inv, Shape
<1>2. PICK n : n = Direct("remove", ue.at)
    BY Zenon
<1>3. n.type = "remove" /\ n.at = ue.at
    BY <1>2, Zenon DEF Direct
<1>4. AirMessages
    BY <1>1, <1>2, <1>3, Zenon DEF AirMessages, LeaveConnectedMode
<1>5. ue' = IdleUe /\ Stays
    BY Zenon DEF LeaveConnectedMode, Stays
<1>6. ue' = [state |-> ue'.state, at |-> ue'.at, until |-> ue'.until]
    BY <1>5 DEF IdleUe
<1> QED BY <1>4, <1>5, <1>6, AirStep, Zenon

\* DoNotifyRandomAccessFailed() and RadioLinkFailureDetected()
LEMMA LossStep ==
    ASSUME Inv, NotifyRandomAccessFailed \/ RadioLinkFailureDetected PROVE Inv'
<1>1. UNCHANGED <<now, m_ueMap, m_lastAllocatedRnti, x2>> /\ LeaveConnectedMode(rrc)
    BY Zenon DEF NotifyRandomAccessFailed, RadioLinkFailureDetected, gnbVars
<1>2. ue # IdleUe
    <2>1. ue.state \in {"CONNECTED_NORMALLY", "CONNECTED_HANDOVER"} /\ IdleUe.state = "IDLE_START"
        BY Zenon DEF NotifyRandomAccessFailed, RadioLinkFailureDetected, IdleUe
    <2> QED BY <2>1, Zenon
<1> QED BY <1>1, <1>2, LeaveStep, Zenon

\* DoRecvRrcConnectionRelease()
LEMMA ReleaseStep == ASSUME Inv, NEW m \in rrc, RecvRrcConnectionRelease(m) PROVE Inv'
<1>1. UNCHANGED <<now, m_ueMap, m_lastAllocatedRnti, x2>>
    BY Zenon DEF RecvRrcConnectionRelease, gnbVars
<1>2. CASE ue = IdleUe
    <2>1. rrc' = rrc \ {m} /\ ue' = ue
        BY <1>2, Zenon DEF RecvRrcConnectionRelease
    <2>2. AirMessages
        BY <2>1, Zenon DEF AirMessages
    <2>3. Stays /\ ue' = [state |-> ue'.state, at |-> ue'.at, until |-> ue'.until]
        BY <1>2, <2>1, Zenon DEF Stays, Inv, Shape
    <2> QED BY <1>1, <2>2, <2>3, AirStep, Zenon
<1>3. CASE ue # IdleUe
    <2>1. LeaveConnectedMode(rrc \ {m})
        BY <1>3, Zenon DEF RecvRrcConnectionRelease
    <2> QED BY <1>1, <1>3, <2>1, LeaveStep, Zenon
<1> QED BY <1>2, <1>3, Zenon

\* The handover command moves the UE to the target that the source named.
LEMMA CommandStep ==
    ASSUME Inv, UNCHANGED <<now, m_ueMap, m_lastAllocatedRnti, x2>>, NEW m \in rrc,
           m.type = "handover command", ue.at = m.at, m.at \in Contexts, rrc' = rrc \ {m},
           ue' = [state |-> "CONNECTED_HANDOVER", at |-> m.target, until |-> now + RandomAccessMax]
    PROVE  Inv'
<1> USE DEF Inv
<1>1. Contexts' = Contexts /\ \A p : UeManager(p)' = UeManager(p)
    BY SameContexts, Zenon
<1>2. m \in Rrc("handover command") /\ m.target \in Invited
    BY Zenon DEF Rrc, Invited
<1>3. Known(m.target) /\ ue'.at = m.target
    BY Zenon DEF Names, RrcNamed
<1>4. /\ State(m.at) = "HANDOVER_LEAVING" /\ UeManager(m.at).target = m.target
      /\ m.target \in Contexts => UeManager(m.target).source = m.at
      /\ \A n \in Rrc("handover command") : n.target = m.target => n = m
    BY <1>2, Zenon DEF Invitations
<1>5. m.at \notin Invited
    BY Zenon DEF Invitations, Entered
<1>6. Shape'
    <2>1. ue' = [state |-> ue'.state, at |-> ue'.at, until |-> ue'.until]
        BY Zenon
    <2>2. Known(ue.at)'
        BY <1>3, Zenon DEF Known
    <2> QED BY <2>1, <2>2, Zenon DEF Shape
<1>7. Drift
    BY <1>1, Zenon DEF Drift, Moves, State
<1>8. /\ X2("HANDOVER REQUEST ACK")' = X2("HANDOVER REQUEST ACK")
      /\ X2("UE CONTEXT RELEASE")' = X2("UE CONTEXT RELEASE")
    BY Zenon DEF X2
<1>9. Rrc("handover command")' = Rrc("handover command") \ {m}
    BY Zenon DEF Rrc
<1>10. Rrc("completed")' = Rrc("completed") /\ Rrc("remove")' = Rrc("remove")
    BY Zenon DEF Rrc
<1>11. Invited' \subseteq Invited /\ m.target \notin Invited'
    <2>1. Invited' \subseteq Invited
        BY <1>8, <1>9, Zenon DEF Invited
    <2>2. ASSUME NEW a \in X2("HANDOVER REQUEST ACK") PROVE a.peer # m.target
        BY <1>2, Zenon DEF Invitations
    <2>3. ASSUME NEW n \in Rrc("handover command")' PROVE n.target # m.target
        BY <1>4, <1>9, Zenon
    <2> QED BY <1>8, <2>1, <2>2, <2>3, Zenon DEF Invited
<1>12. ASSUME NEW p, Entered(p)' PROVE p = m.target \/ Entered(p)
    BY <1>3, <1>10, <1>12, Zenon DEF Entered
<1>13. Names'
    <2>1. Grows
        BY Zenon DEF Grows, Known
    <2> QED BY <1>1, <2>1, NamesStep, Zenon
<1>14. Talk'
    <2>1. ASSUME NEW q \in Contexts PROVE Converses(q)'
        <3>1. About(q)' = About(q)
            BY Zenon DEF About
        <3>2. Joining(q)' = Joining(q)
            BY <1>1, Zenon DEF Joining, State
        <3>3. Converses(q)
            BY Zenon DEF Talk
        <3>4. Quiet(q)
            BY <1>1, <3>1, <3>2, <3>3, Zenon DEF Quiet, Converses, Ack
        <3> QED BY <3>3, <3>4, QuietStep, Zenon
    <2> QED BY <1>1, <2>1, Zenon DEF Talk
<1>15. Invitations'
    <2>1. NewRelease
        BY <1>8, Zenon DEF NewRelease
    <2>2. \A p \in Invited' : Entered(p)' => Entered(p)
        BY <1>11, <1>12, Zenon
    <2> QED BY <1>7, <1>8, <1>9, <2>1, <2>2, InvitationsStep, Zenon
<1>16. ASSUME NEW q, NEW p, Left(q, p) PROVE Left(q, p)'
    BY <1>1, <1>2, <1>3, <1>11, <1>16, Zenon DEF Left, State
<1>17. Left(m.at, m.target)'
    <2>1. m.at # m.target
        BY <1>2, <1>5, Zenon
    <2> QED BY <1>1, <1>3, <1>4, <1>5, <1>11, <2>1, Zenon DEF Left, State
<1>18. Entries'
    <2>1. ASSUME NEW p \in Contexts,
                 \/ State(p)' = "HANDOVER_PATH_SWITCH"
                 \/ State(p)' = "HANDOVER_JOINING" /\ Entered(p)'
          PROVE  Left(UeManager(p).source, p)'
        <3>1. PICK q : q = UeManager(p).source /\ q = UeManager(p)'.source
            BY <1>1, Zenon
        <3>2. CASE p = m.target
            BY <1>4, <1>17, <3>1, <3>2, Zenon
        <3>3. CASE p # m.target
            <4>1. \/ State(p) = "HANDOVER_PATH_SWITCH"
                  \/ State(p) = "HANDOVER_JOINING" /\ Entered(p)
                BY <1>1, <1>12, <2>1, <3>3, Zenon DEF State
            <4>2. Left(q, p)
                BY <3>1, <4>1, Zenon DEF Entries
            <4> QED BY <1>16, <3>1, <4>2, Zenon
        <3> QED BY <3>2, <3>3, Zenon
    <2>2. ASSUME NEW n \in X2("UE CONTEXT RELEASE")
          PROVE  Left(n.to, n.peer)' /\ (n.peer \in Contexts => State(n.peer)' # "HANDOVER_JOINING")
        BY <1>1, <1>16, Zenon DEF Entries, State
    <2> QED BY <1>1, <1>8, <2>1, <2>2, Zenon DEF Entries
<1>19. Safe'
    <2>1. ASSUME NEW n \in X2("UE CONTEXT RELEASE") PROVE n.to # m.at
        BY Zenon DEF Entries, Left
    <2> QED BY <1>1, <1>3, <1>4, <1>8, <2>1, Zenon DEF Safe, State
<1>20. Removal'
    <2>1. ue # IdleUe
        <3>1. ue.at # Nowhere /\ IdleUe.at = Nowhere
            BY KnownPlace, Zenon DEF Names, ContextNamed, IdleUe
        <3> QED BY <3>1, Zenon
    <2> QED BY <1>10, <2>1, Zenon DEF Removal
<1> QED BY <1>6, <1>13, <1>14, <1>15, <1>18, <1>19, <1>20, Zenon

\* DoRecvRrcConnectionReconfiguration()
LEMMA ReconfigurationStep == ASSUME Inv, NEW m \in rrc, RecvReconfiguration(m) PROVE Inv'
<1>1. CASE Reaches(m) /\ ue.state # "CONNECTED_NORMALLY"
    BY <1>1, AbortStep, Zenon DEF RecvReconfiguration
<1>2. CASE ~(Reaches(m) /\ ue.state # "CONNECTED_NORMALLY")
    <2>1. UNCHANGED <<now, m_ueMap, m_lastAllocatedRnti, x2>>
        BY <1>2, Zenon DEF RecvReconfiguration, gnbVars
    <2>2. m.type \in {"handover command", "reconfiguration"}
        BY Zenon DEF RecvReconfiguration
    <2>3. CASE ~Reaches(m) /\ rrc' = rrc \ {m} /\ UNCHANGED ue
        <3>1. Rrc("release") \subseteq Rrc("release")' /\ Rrc("remove")' \subseteq Rrc("remove")
            BY <2>2, <2>3, Zenon DEF Rrc
        <3>2. AirMessages
            BY <2>3, Zenon DEF AirMessages
        <3>3. Stays /\ ue' = [state |-> ue'.state, at |-> ue'.at, until |-> ue'.until]
            BY <2>3, <3>1, Zenon DEF Stays, Inv, Shape
        <3> QED BY <2>1, <3>2, <3>3, AirStep, Zenon
    <2>4. CASE /\ Reaches(m) /\ m.type = "handover command"
               /\ ue' = [state |-> "CONNECTED_HANDOVER", at |-> m.target, until |-> now + RandomAccessMax]
               /\ rrc' = rrc \ {m}
        <3>1. ue.at = m.at /\ m.at \in Contexts
            BY <2>4, Zenon DEF Reaches, HasUeManager
        <3> QED BY <2>1, <2>4, <3>1, CommandStep, Zenon
    <2>5. CASE /\ Reaches(m) /\ m.type = "reconfiguration" /\ UNCHANGED ue
               /\ \E answer \in OverTheAir("completed", m.at, Nowhere) : rrc' = (rrc \ {m}) \cup {answer}
        <3>1. PICK n \in OverTheAir("completed", m.at, Nowhere) : rrc' = (rrc \ {m}) \cup {n}
            BY <2>5, Zenon
        <3>2. Sent(n, "completed", m.at, Nowhere)
            BY AirFacts, Zenon
        <3>3. ue.at = m.at /\ Known(ue.at)
            BY <2>5, Zenon DEF Reaches, HasUeManager, Inv, Names, ContextNamed
        <3>4. Rrc("release") \subseteq Rrc("release")' /\ Rrc("remove")' \subseteq Rrc("remove")
            BY <2>2, <3>1, <3>2, Zenon DEF Rrc, Sent
        <3>5. AirMessages
            BY <3>1, <3>2, <3>3, Zenon DEF AirMessages, Sent
        <3>6. Stays /\ ue' = [state |-> ue'.state, at |-> ue'.at, until |-> ue'.until]
            BY <2>5, <3>4, Zenon DEF Stays, Inv, Shape
        <3> QED BY <2>1, <3>5, <3>6, AirStep, Zenon
    <2> QED BY <1>2, <2>3, <2>4, <2>5, Zenon DEF RecvReconfiguration
<1> QED BY <1>1, <1>2, Zenon

\* A step of a gNB that begins and ends no handover.
LEMMA GnbStep ==
    ASSUME Inv, UNCHANGED <<now, m_lastAllocatedRnti, ue>>, AirMessages, DOMAIN m_ueMap' = Cells,
           \A m \in x2' : m \in x2 \/ (m.type = "HANDOVER CANCEL" /\ m.ts \in Nat \ {0}),
           \A p \in Contexts' :
               /\ p \in Contexts
               /\ \/ UeManager(p)' = UeManager(p)
                  \/ UeManager(p)' = [UeManager(p) EXCEPT !.joining = Never],
           Safe', Removal'
    PROVE  Inv'
<1>1. Calm
    BY Zenon DEF Calm, AirMessages
<1>2. Shape'
    BY Zenon DEF Inv, Shape, Known
<1> QED BY <1>1, <1>2, CalmStep, Zenon DEF Inv

\* A context has a place.
LEMMA InPlace == ASSUME Names, NEW p \in Contexts PROVE p \in Place
BY Zenon DEF Names, ContextNamed, Known

\* What a step needs of the clock and of m_ueMap.
LEMMA Clock == ASSUME Shape PROVE now + X2Delay \in Nat \ {0} /\ DOMAIN m_ueMap = Cells
BY HandoverAssumption DEF Shape

\* An answer arrives before the refusal that a timeout would send.
LEMMA TimerLater ==
    ASSUME Shape
    PROVE  /\ JoiningTimer \in Nat /\ now + X2Delay < JoiningTimer + X2Delay
           /\ now + X2Delay >= now
BY HandoverAssumption DEF JoiningTimer, Shape

\* SendRrcConnectionRelease()
LEMMA SendReleaseStep ==
    ASSUME Inv, UNCHANGED <<now, m_lastAllocatedRnti, ue>>, NEW p \in Contexts,
           SendRrcConnectionRelease(p),
           \A m \in x2' : m \in x2 \/ (m.type = "HANDOVER CANCEL" /\ m.ts \in Nat \ {0})
    PROVE  Inv'
<1>1. Removed(p) /\ DOMAIN m_ueMap' = Cells
    BY InPlace, Clock, RemoveUeFacts, Zenon DEF Inv, SendRrcConnectionRelease
<1>2. PICK n : n = Direct("release", p) /\ rrc' = rrc \cup {n}
    BY Zenon DEF SendRrcConnectionRelease, Released
<1>3. n.type = "release"
    BY <1>2, Zenon DEF Direct
<1>4. AirMessages
    BY <1>2, <1>3, Zenon DEF AirMessages
<1>5. Safe'
    BY <1>2, <1>3, Zenon DEF Safe, Rrc
<1>6. Rrc("remove")' = Rrc("remove")
    BY <1>2, <1>3, Zenon DEF Rrc
<1>7. Removal'
    BY <1>6, Zenon DEF Inv, Removal
<1> QED BY <1>1, <1>4, <1>5, <1>7, GnbStep, Zenon DEF Removed

\* HandoverLeavingTimeout()
LEMMA LeavingTimeoutStep == ASSUME Inv, NEW p \in Contexts, HandoverLeavingTimeout(p) PROVE Inv'
<1>1. CASE UeManager(p).state # "HANDOVER_LEAVING"
    BY <1>1, AbortStep, Zenon DEF HandoverLeavingTimeout
<1>2. CASE UeManager(p).state = "HANDOVER_LEAVING"
    <2>1. PICK c : c = X2Message("HANDOVER CANCEL", UeManager(p).target, p) /\ x2' = x2 \cup {c}
        BY <1>2, Zenon DEF HandoverLeavingTimeout
    <2>2. c.type = "HANDOVER CANCEL" /\ c.ts = now + X2Delay
        BY <2>1, Zenon DEF X2Message
    <2>3. \A m \in x2' : m \in x2 \/ (m.type = "HANDOVER CANCEL" /\ m.ts \in Nat \ {0})
        BY <2>1, <2>2, Clock, Zenon DEF Inv
    <2>4. SendRrcConnectionRelease(p) /\ UNCHANGED <<now, m_lastAllocatedRnti, ue>>
        BY <1>2, Zenon DEF HandoverLeavingTimeout
    <2> QED BY <2>3, <2>4, SendReleaseStep, Zenon
<1> QED BY <1>1, <1>2, Zenon

\* A context whose UE is elsewhere and is not to be released there, or is idle,
\* is removed.
LEMMA ForgetStep ==
    ASSUME Inv, UNCHANGED <<now, m_lastAllocatedRnti, ue>>, NEW p \in Contexts, m_ueMap' = RemoveUe(p),
           x2' \subseteq x2, rrc' \subseteq rrc, Rrc("release") \subseteq Rrc("release")',
           \/ ue = IdleUe
           \/ ue.at # p /\ \E m \in X2("UE CONTEXT RELEASE") : m.to = p
    PROVE  Inv'
<1> USE DEF Inv
<1>1. Removed(p) /\ DOMAIN m_ueMap' = Cells
    BY InPlace, Clock, RemoveUeFacts, Zenon
<1>2. AirMessages
    BY Zenon DEF AirMessages
<1>3. Rrc("remove")' \subseteq Rrc("remove")
    BY Zenon DEF Rrc
<1>4. X2("UE CONTEXT RELEASE")' \subseteq X2("UE CONTEXT RELEASE")
    BY Zenon DEF X2
<1>5. Removal'
    BY <1>3, Zenon DEF Removal
<1>6. \A q \in Contexts : q # p => q \in Contexts' /\ UeManager(q)' = UeManager(q)
    BY <1>1, Zenon DEF Removed
<1>7. Safe'
    <2>1. CASE ue = IdleUe
        BY <2>1, Zenon DEF Safe
    <2>2. CASE ue.at # p /\ \E m \in X2("UE CONTEXT RELEASE") : m.to = p
        <3>1. CASE ue.at \in Contexts /\ State(ue.at) # "HANDOVER_JOINING"
            BY <1>6, <2>2, <3>1, Zenon DEF Safe, State
        <3>2. CASE Rrc("release") # {}
            BY <3>2, Zenon DEF Safe
        <3>3. CASE \E q \in Contexts :
                     /\ State(q) = "HANDOVER_LEAVING" /\ UeManager(q).target = ue.at
                     /\ \A m \in X2("UE CONTEXT RELEASE") : m.to # q
            <4>1. PICK q \in Contexts :
                     /\ State(q) = "HANDOVER_LEAVING" /\ UeManager(q).target = ue.at
                     /\ \A m \in X2("UE CONTEXT RELEASE") : m.to # q
                BY <3>3, Zenon
            <4>2. q \in Contexts' /\ UeManager(q)' = UeManager(q)
                BY <1>6, <2>2, <4>1, Zenon
            <4>3. \A m \in X2("UE CONTEXT RELEASE")' : m.to # q
                BY <1>4, <4>1, Zenon
            <4> QED BY <4>1, <4>2, <4>3, Zenon DEF Safe, State
        <3>4. CASE ue = IdleUe
            BY <3>4, Zenon DEF Safe
        <3> QED BY <3>1, <3>2, <3>3, <3>4, Zenon DEF Safe
    <2> QED BY <2>1, <2>2, Zenon
<1> QED BY <1>1, <1>2, <1>5, <1>7, GnbStep, Zenon DEF Removed

\* DoRecvUeContextRelease()
LEMMA ContextReleaseStep == ASSUME Inv, NEW m \in x2, RecvUeContextRelease(m) PROVE Inv'
<1>1. CASE HasUeManager(m.to) /\ UeManager(m.to).state # "HANDOVER_LEAVING"
    BY <1>1, AbortStep, Zenon DEF RecvUeContextRelease
<1>2. CASE ~(HasUeManager(m.to) /\ UeManager(m.to).state # "HANDOVER_LEAVING")
    <2>1. UNCHANGED <<now, m_lastAllocatedRnti, ue, rrc>> /\ x2' = x2 \ {m}
        BY <1>2, Zenon DEF RecvUeContextRelease
    <2>2. m_ueMap' = IF HasUeManager(m.to) THEN RemoveUe(m.to) ELSE m_ueMap
        BY <1>2, Zenon DEF RecvUeContextRelease
    <2>3. CASE ~HasUeManager(m.to)
        <3>1. UNCHANGED m_ueMap
            BY <2>2, <2>3, Zenon
        <3>2. ue' = [state |-> ue'.state, at |-> ue'.at, until |-> ue'.until]
            BY <2>1, Zenon DEF Inv, Shape
        <3> QED BY <2>1, <3>1, <3>2, SameAir, AirStep, Zenon
    <2>4. CASE HasUeManager(m.to)
        <3>1. PICK p \in Contexts : p = m.to
            BY <2>4, Zenon DEF HasUeManager
        <3>2. m \in X2("UE CONTEXT RELEASE")
            BY Zenon DEF RecvUeContextRelease, Receives, X2
        <3>3. ue.at # p
            BY <3>1, <3>2, Zenon DEF Inv, Entries, Left
        <3>4. Rrc("release")' = Rrc("release")
            BY <2>1, Zenon DEF Rrc
        <3>5. m_ueMap' = RemoveUe(p)
            BY <2>2, <2>4, <3>1, Zenon
        <3> QED BY <2>1, <3>1, <3>2, <3>3, <3>4, <3>5, ForgetStep, Zenon
    <2> QED BY <2>3, <2>4, Zenon
<1> QED BY <1>1, <1>2, Zenon

\* DoRecvHandoverCancel()
LEMMA CancelStep == ASSUME Inv, NEW m \in x2, RecvHandoverCancel(m) PROVE Inv'
<1>1. CASE HasUeManager(m.to) /\ UeManager(m.to).state # "HANDOVER_JOINING"
    BY <1>1, AbortStep, Zenon DEF RecvHandoverCancel
<1>2. CASE ~(HasUeManager(m.to) /\ UeManager(m.to).state # "HANDOVER_JOINING")
    <2>1. UNCHANGED <<now, m_lastAllocatedRnti, ue, rrc>> /\ x2' = x2 \ {m}
        BY <1>2, Zenon DEF RecvHandoverCancel
    <2>2. m_ueMap' = IF HasUeManager(m.to)
                     THEN Updated(m.to, [UeManager(m.to) EXCEPT !.joining = Never]) ELSE m_ueMap
        BY <1>2, Zenon DEF RecvHandoverCancel
    <2>3. CASE ~HasUeManager(m.to)
        <3>1. UNCHANGED m_ueMap
            BY <2>2, <2>3, Zenon
        <3>2. ue' = [state |-> ue'.state, at |-> ue'.at, until |-> ue'.until]
            BY <2>1, Zenon DEF Inv, Shape
        <3> QED BY <2>1, <3>1, <3>2, SameAir, AirStep, Zenon
    <2>4. CASE HasUeManager(m.to)
        <3>1. PICK p \in Contexts : p = m.to
            BY <2>4, Zenon DEF HasUeManager
        <3>2. PICK x : x = [UeManager(p) EXCEPT !.joining = Never]
            BY Zenon
        <3>3. m_ueMap' = Updated(p, x)
            BY <2>2, <2>4, <3>1, <3>2, Zenon
        <3>4. Changed(p, x) /\ DOMAIN m_ueMap' = Cells
            BY <3>3, InPlace, Clock, UpdatedFacts, Zenon DEF Inv
        <3>5. \A q \in Contexts' :
                /\ q \in Contexts
                /\ \/ UeManager(q)' = UeManager(q)
                   \/ UeManager(q)' = [UeManager(q) EXCEPT !.joining = Never]
            BY <3>2, <3>4, Zenon DEF Changed
        <3>6. IsContext(UeManager(p))
            BY Zenon DEF Inv, Names, ContextNamed
        <3>7. x.state = UeManager(p).state /\ x.target = UeManager(p).target
            BY <3>2, <3>6 DEF IsContext
        <3>8. \A q \in Contexts : Keeps(q)
            BY <3>4, <3>7, Zenon DEF Changed, Keeps, State
        <3>9. X2("UE CONTEXT RELEASE")' \subseteq X2("UE CONTEXT RELEASE")
            BY <2>1, Zenon DEF X2
        <3>10. Safe' /\ Removal'
            BY <2>1, <3>8, <3>9, SameAir, SafeStep, RemovalStep, Zenon DEF Inv
        <3> QED BY <2>1, <3>4, <3>5, <3>10, SameAir, GnbStep, Zenon
    <2> QED BY <2>3, <2>4, Zenon
<1> QED BY <1>1, <1>2, Zenon

-----------------------------------------------------------------------------
(* Steps that change the state of a context.                               *)

\* The context p becomes x.
Turns(p, x) ==
    /\ p \in Contexts /\ Changed(p, x) /\ DOMAIN m_ueMap' = Cells
    /\ IsContext(x) /\ x.state # "HANDOVER_JOINING" /\ Moves(p)

\* What a turn of the context p does to the contexts.
LEMMA TurnFacts ==
    ASSUME Names, UNCHANGED m_lastAllocatedRnti, NEW p, NEW x, Turns(p, x)
    PROVE  /\ Contexts' = Contexts /\ Drift
           /\ \A q \in Contexts : q # p => UeManager(q)' = UeManager(q)
           /\ ContextNamed(p)'
           /\ \A q : Joining(q)' \subseteq Joining(q) /\ p \notin Joining(q)'
<1>1. Contexts' = Contexts /\ UeManager(p)' = x
    BY Zenon DEF Turns, Changed
<1>2. \A q \in Contexts : q # p => UeManager(q)' = UeManager(q)
    BY Zenon DEF Turns, Changed
<1>3. Drift
    BY <1>1, <1>2, Zenon DEF Drift, Turns, Moves, State
<1>4. ContextNamed(p)'
    <2>1. p \in Contexts /\ ContextNamed(p)
        BY Zenon DEF Turns, Names
    <2>2. Known(p)' /\ IsContext(UeManager(p)')
        BY <1>1, <2>1, Zenon DEF ContextNamed, Turns, Known
    <2>3. ASSUME State(p)' \in {"HANDOVER_JOINING", "HANDOVER_PATH_SWITCH"} PROVE Known(UeManager(p).source)'
        <3>1. State(p) \in {"HANDOVER_JOINING", "HANDOVER_PATH_SWITCH"}
            BY <1>1, <2>3, Zenon DEF Turns, Moves, State
        <3>2. UeManager(p)'.source = UeManager(p).source /\ Known(UeManager(p).source)
            BY <2>1, <3>1, Zenon DEF Turns, Moves, ContextNamed
        <3> QED BY <3>2, Zenon DEF Known
    <2> QED BY <2>2, <2>3, Zenon DEF ContextNamed
<1>5. ASSUME NEW q PROVE Joining(q)' \subseteq Joining(q) /\ p \notin Joining(q)'
    <2>1. p \notin Joining(q)'
        BY <1>1, Zenon DEF Joining, Turns, State
    <2> QED BY <1>1, <1>2, <2>1, Zenon DEF Joining, State
<1> QED BY <1>1, <1>2, <1>3, <1>4, <1>5, Zenon

\* A turn of p leaves the other conversations alone.
LEMMA TurnTalk ==
    ASSUME Names, Talk, UNCHANGED <<now, m_lastAllocatedRnti>>, NEW p, NEW x, Turns(p, x),
           \A q \in Contexts : q # p => About(q)' \subseteq About(q),
           Converses(p)'
    PROVE  Talk'
<1>1. /\ Contexts' = Contexts
      /\ \A q \in Contexts : q # p => UeManager(q)' = UeManager(q)
      /\ \A q : Joining(q)' \subseteq Joining(q) /\ p \notin Joining(q)'
    BY TurnFacts, Zenon
<1>2. ASSUME NEW q \in Contexts, q # p PROVE Converses(q)'
    <2>1. Converses(q)
        BY Zenon DEF Talk
    <2>2. About(q)' \subseteq About(q) /\ Joining(q)' \subseteq Joining(q)
        BY <1>1, <1>2, Zenon
    <2>3. \A r \in Joining(q)' : r \in Contexts /\ r # p
        BY <1>1, Zenon DEF Joining
    <2>4. \A r \in Joining(q)' : UeManager(r)' = UeManager(r)
        BY <1>1, <2>3, Zenon
    <2>5. \A a \in About(q)' : a.type = "HANDOVER REQUEST ACK" => a.ts >= now'
        BY <2>1, <2>2, Zenon DEF Converses, Ack
    <2>6. Quiet(q)
        BY <1>1, <1>2, <2>2, <2>4, <2>5, Zenon DEF Quiet
    <2> QED BY <2>1, <2>6, QuietStep, Zenon
<1> QED BY <1>1, <1>2, Zenon DEF Talk

\* A turn of p keeps names, invitations and entries.
LEMMA TurnStep ==
    ASSUME Inv, UNCHANGED <<now, m_lastAllocatedRnti, ue>>, NEW p, NEW x, Turns(p, x),
           \A m \in x2' : m \in x2 \/ X2Named(m)',
           X2("HANDOVER REQUEST ACK")' \subseteq X2("HANDOVER REQUEST ACK"), NewRelease,
           \A m \in rrc' : m \in rrc \/ m.type = "reconfiguration",
           \A q \in Contexts : q # p => About(q)' \subseteq About(q),
           Converses(p)', Safe'
    PROVE  Inv'
<1> USE DEF Inv
<1>1. /\ Contexts' = Contexts /\ Drift /\ ContextNamed(p)'
      /\ \A q \in Contexts : q # p => UeManager(q)' = UeManager(q)
    BY TurnFacts, Zenon
<1>2. Shape'
    BY Zenon DEF Shape, Known, Turns
<1>3. Rrc("handover command")' \subseteq Rrc("handover command")
    BY Zenon DEF Rrc
<1>4. Rrc("completed")' \subseteq Rrc("completed") /\ Rrc("remove")' \subseteq Rrc("remove")
    BY Zenon DEF Rrc
<1>5. Invited' \subseteq Invited
    BY <1>3, Zenon DEF Invited
<1>6. ASSUME NEW q, Entered(q)' PROVE Entered(q)
    BY <1>4, <1>6, Zenon DEF Entered
<1>7. Names'
    <2>1. Grows
        BY Zenon DEF Grows, Known
    <2>2. \A m \in rrc' : m \in rrc \/ RrcNamed(m)'
        BY Zenon DEF RrcNamed
    <2> QED BY <1>1, <2>1, <2>2, NamesStep, Zenon
<1>8. Talk'
    BY TurnTalk, Zenon
<1>9. Invitations'
    BY <1>1, <1>3, <1>6, InvitationsStep, Zenon
<1>10. Entries'
    BY <1>1, <1>5, <1>6, EntriesStep, Zenon
<1>11. Removal'
    BY <1>4, Zenon DEF Removal
<1> QED BY <1>2, <1>7, <1>8, <1>9, <1>10, <1>11, Zenon

\* A step that keeps the context p where it matters keeps all.
LEMMA TurnSafe ==
    ASSUME Inv, UNCHANGED m_lastAllocatedRnti, Stays, NEW p, NEW x, Turns(p, x), Keeps(p),
           X2("UE CONTEXT RELEASE")' \subseteq X2("UE CONTEXT RELEASE")
    PROVE  Safe'
<1>1. Contexts' = Contexts /\ \A q \in Contexts : q # p => UeManager(q)' = UeManager(q)
    BY TurnFacts, Zenon DEF Inv
<1>2. \A q \in Contexts : Keeps(q)
    BY <1>1, Zenon DEF Keeps, State
<1> QED BY <1>2, SafeStep, Zenon DEF Inv

\* DoTriggerHandover()
LEMMA TriggerStep == ASSUME Inv, NEW p \in Contexts, NEW c \in Cells, TriggerHandover(p, c) PROVE Inv'
<1> USE DEF Inv
<1>1. UNCHANGED <<now, m_lastAllocatedRnti, ue, rrc>> /\ State(p) = "CONNECTED_NORMALLY"
    BY Zenon DEF TriggerHandover, State
<1>2. PICK t : t = [cell |-> c, rnti |-> 0]
    BY Zenon
<1>3. PICK x : x = [UeManager(p) EXCEPT !.state = "HANDOVER_PREPARATION", !.target = t]
    BY Zenon
<1>4. PICK n : n = X2Message("HANDOVER REQUEST", t, p)
    BY Zenon
<1>5. m_ueMap' = Updated(p, x) /\ x2' = x2 \cup {n}
    BY <1>2, <1>3, <1>4, Zenon DEF TriggerHandover, PrepareHandover
<1>6. n.type = "HANDOVER REQUEST" /\ n.to = t /\ n.peer = p /\ n.ts = now + X2Delay
    BY <1>4, Zenon DEF X2Message
<1>7. IsContext(x) /\ x.state = "HANDOVER_PREPARATION" /\ x.source = UeManager(p).source
    <2>1. IsContext(UeManager(p))
        BY Zenon DEF Names, ContextNamed
    <2> QED BY <1>3, <2>1, Zenon DEF IsContext
<1>8. Changed(p, x) /\ DOMAIN m_ueMap' = Cells
    BY <1>5, InPlace, Clock, UpdatedFacts, Zenon
<1>9. Turns(p, x) /\ Keeps(p)
    BY <1>1, <1>7, <1>8, Zenon DEF Turns, Changed, Moves, Keeps
<1>10. X2Named(n)'
    <2>1. t.cell \in Cells
        BY <1>2
    <2>2. Known(p)'
        BY <1>1, Zenon DEF Names, ContextNamed, Known
    <2> QED BY <1>6, <2>1, <2>2, Clock, Zenon DEF X2Named
<1>11. /\ X2("HANDOVER REQUEST ACK")' \subseteq X2("HANDOVER REQUEST ACK")
       /\ X2("UE CONTEXT RELEASE")' \subseteq X2("UE CONTEXT RELEASE")
    BY <1>5, <1>6, Zenon DEF X2
<1>12. ASSUME NEW q \in Contexts, q # p PROVE About(q)' \subseteq About(q)
    BY <1>5, <1>6, <1>12, Zenon DEF About
<1>13. Converses(p)'
    <2>1. About(p) = {} /\ Joining(p) = {}
        BY <1>1, NothingAbout, Zenon DEF Talk
    <2>2. Joining(p)' = {}
        BY <1>1, <1>9, <2>1, TurnFacts, Zenon
    <2>3. \A m \in About(p)' : m = n
        BY <1>5, <2>1, Zenon DEF About
    <2>4. State(p)' = "HANDOVER_PREPARATION"
        BY <1>7, <1>8, Zenon DEF Changed, State
    <2> QED BY <1>6, <2>2, <2>3, <2>4, Zenon DEF Converses, Request, Ack, Failure, Target
<1>14. Safe'
    BY <1>1, <1>9, <1>11, SameAir, TurnSafe, Zenon
<1>15. NewRelease
    BY <1>11, Zenon DEF NewRelease
<1> QED BY <1>1, <1>5, <1>9, <1>10, <1>11, <1>12, <1>13, <1>14, <1>15, TurnStep, Zenon

\* The refusal of a request that is still in preparation.
LEMMA RefusedStep ==
    ASSUME Inv, NEW m \in x2, m.type = "HANDOVER PREPARATION FAILURE", m.ts = now, x2' = x2 \ {m},
           UNCHANGED <<now, m_lastAllocatedRnti, ue, rrc>>, NEW p \in Contexts, p = m.to,
           State(p) = "HANDOVER_PREPARATION",
           m_ueMap' = Updated(p, [UeManager(p) EXCEPT !.state = "CONNECTED_NORMALLY"])
    PROVE  Inv'
<1> USE DEF Inv
<1>1. PICK x : x = [UeManager(p) EXCEPT !.state = "CONNECTED_NORMALLY"]
    BY Zenon
<1>2. IsContext(x) /\ x.state = "CONNECTED_NORMALLY" /\ x.source = UeManager(p).source
    <2>1. IsContext(UeManager(p))
        BY Zenon DEF Names, ContextNamed
    <2> QED BY <1>1, <2>1, Zenon DEF IsContext
<1>3. Changed(p, x) /\ DOMAIN m_ueMap' = Cells
    BY <1>1, InPlace, Clock, UpdatedFacts, Zenon
<1>4. Turns(p, x) /\ Keeps(p)
    BY <1>2, <1>3, Zenon DEF Turns, Changed, Moves, Keeps
<1>5. /\ X2("HANDOVER REQUEST ACK")' \subseteq X2("HANDOVER REQUEST ACK")
      /\ X2("UE CONTEXT RELEASE")' \subseteq X2("UE CONTEXT RELEASE")
    BY Zenon DEF X2
<1>6. \A q \in Contexts : About(q)' \subseteq About(q)
    BY Zenon DEF About
<1>7. Converses(p)'
    <2>1. m \in About(p) /\ Converses(p)
        BY Zenon DEF About, Talk
    <2>2. Joining(p) = {}
        BY <2>1, Zenon DEF Converses, Failure
    <2>3. Joining(p)' = {}
        BY <1>4, <2>2, TurnFacts, Zenon
    <2>4. ASSUME NEW n \in About(p)' PROVE FALSE
        <3>1. n \in About(p) /\ n # m /\ n.ts \in Nat /\ now \in Nat
            BY <1>6, Zenon DEF About, Names, X2Named, Shape
        <3>2. n.type \in {"HANDOVER REQUEST", "HANDOVER REQUEST ACK", "HANDOVER PREPARATION FAILURE"}
            BY Zenon DEF About
        <3>3. n.type # "HANDOVER REQUEST" /\ n.type # "HANDOVER PREPARATION FAILURE"
            BY <2>1, <3>1, Zenon DEF Converses, Request, Failure
        <3>4. n.ts >= now /\ n.ts < now
            BY <2>1, <3>1, <3>2, <3>3, Zenon DEF Converses, Ack
        <3> QED BY <3>1, <3>4, NotBefore, Zenon
    <2> QED BY <2>3, <2>4, NothingSaid, Zenon
<1>8. Safe'
    BY <1>4, <1>5, SameAir, TurnSafe, Zenon
<1>9. NewRelease
    BY <1>5, Zenon DEF NewRelease
<1> QED BY <1>4, <1>5, <1>6, <1>7, <1>8, <1>9, TurnStep, Zenon

\* DoRecvHandoverPreparationFailure()
LEMMA FailureStep == ASSUME Inv, NEW m \in x2, RecvHandoverPreparationFailure(m) PROVE Inv'
<1>1. m.type = "HANDOVER PREPARATION FAILURE" /\ m.ts = now
    BY Zenon DEF RecvHandoverPreparationFailure, Receives
<1>2. CASE Abort("unexpected state")
    BY <1>2, AbortStep, Zenon
<1>3. CASE ~Abort("unexpected state")
    <2>1. UNCHANGED <<now, m_lastAllocatedRnti, ue>> /\ x2' = x2 \ {m}
        BY <1>3, Zenon DEF RecvHandoverPreparationFailure
    <2>2. \/ ~HasUeManager(m.to) /\ UNCHANGED <<m_ueMap, rrc>>
          \/ /\ HasUeManager(m.to) /\ UeManager(m.to).state = "HANDOVER_PREPARATION"
             /\ m_ueMap' = Updated(m.to, [UeManager(m.to) EXCEPT !.state = "CONNECTED_NORMALLY"])
             /\ UNCHANGED rrc
          \/ HasUeManager(m.to) /\ SendRrcConnectionRelease(m.to)
        BY <1>3, Zenon DEF RecvHandoverPreparationFailure
    <2>3. CASE ~HasUeManager(m.to) /\ UNCHANGED <<m_ueMap, rrc>>
        <3>1. ue' = [state |-> ue'.state, at |-> ue'.at, until |-> ue'.until]
            BY <2>1, Zenon DEF Inv, Shape
        <3> QED BY <2>1, <2>3, <3>1, SameAir, AirStep, Zenon
    <2>4. CASE /\ HasUeManager(m.to) /\ UeManager(m.to).state = "HANDOVER_PREPARATION"
               /\ m_ueMap' = Updated(m.to, [UeManager(m.to) EXCEPT !.state = "CONNECTED_NORMALLY"])
               /\ UNCHANGED rrc
        BY <1>1, <2>1, <2>4, RefusedStep, Zenon DEF HasUeManager, State
    <2>5. CASE HasUeManager(m.to) /\ SendRrcConnectionRelease(m.to)
        BY <2>1, <2>5, SendReleaseStep, Zenon DEF HasUeManager
    <2> QED BY <2>2, <2>3, <2>4, <2>5, Zenon
<1> QED BY <1>2, <1>3, Zenon

\* The UE enters: the context takes it for connected.
LEMMA CompletedStep == ASSUME Inv, NEW m \in rrc, RecvReconfigurationCompleted(m) PROVE Inv'
<1> USE DEF Inv
<1>1. m.type = "completed"
    BY Zenon DEF RecvReconfigurationCompleted, Receives
<1>2. CASE Abort("unexpected state")
    BY <1>2, AbortStep, Zenon
<1>3. CASE ~Abort("unexpected state")
    <2>1. UNCHANGED <<now, m_lastAllocatedRnti, ue, x2>> /\ rrc' = rrc \ {m}
        BY <1>3, Zenon DEF RecvReconfigurationCompleted
    <2>2. \/ /\ HasUeManager(m.at) /\ UeManager(m.at).state = "HANDOVER_JOINING"
             /\ m_ueMap' = Updated(m.at, [UeManager(m.at) EXCEPT
                                            !.state = "HANDOVER_PATH_SWITCH", !.joining = Never])
          \/ /\ HasUeManager(m.at) /\ UeManager(m.at).state = "CONNECTION_RECONFIGURATION"
             /\ m_ueMap' = Updated(m.at, [UeManager(m.at) EXCEPT !.state = "CONNECTED_NORMALLY"])
          \/ UNCHANGED m_ueMap
        BY <1>3, Zenon DEF RecvReconfigurationCompleted
    <2>3. Rrc("release") \subseteq Rrc("release")' /\ Rrc("remove")' \subseteq Rrc("remove")
        BY <1>1, <2>1, Zenon DEF Rrc
    <2>4. Stays
        BY <2>1, <2>3, Zenon DEF Stays
    <2>5. /\ X2("HANDOVER REQUEST ACK")' = X2("HANDOVER REQUEST ACK")
          /\ X2("UE CONTEXT RELEASE")' = X2("UE CONTEXT RELEASE")
        BY <2>1, Zenon DEF X2
    <2>6. \A q : About(q)' = About(q)
        BY <2>1, Zenon DEF About
    <2>7. ASSUME NEW p \in Contexts, NEW x, Turns(p, x), Keeps(p),
                 State(p) \notin {"HANDOVER_PREPARATION", "HANDOVER_LEAVING"}
          PROVE  Inv'
        <3>1. Converses(p)'
            <4>1. About(p) = {} /\ Joining(p) = {}
                BY <2>7, NothingAbout, Zenon DEF Talk
            <4>2. Joining(p)' = {}
                BY <2>1, <2>7, <4>1, TurnFacts, Zenon
            <4> QED BY <2>6, <4>1, <4>2, NothingSaid, Zenon
        <3>2. Safe'
            BY <2>1, <2>4, <2>5, <2>7, TurnSafe, Zenon
        <3>3. NewRelease
            BY <2>5, Zenon DEF NewRelease
        <3> QED BY <2>1, <2>5, <2>6, <2>7, <3>1, <3>2, <3>3, TurnStep, Zenon
    <2>8. ASSUME HasUeManager(m.at) PROVE m.at \in Contexts /\ IsContext(UeManager(m.at))
        BY <2>8, Zenon DEF HasUeManager, Names, ContextNamed
    <2>9. CASE /\ HasUeManager(m.at) /\ UeManager(m.at).state = "HANDOVER_JOINING"
               /\ m_ueMap' = Updated(m.at, [UeManager(m.at) EXCEPT
                                              !.state = "HANDOVER_PATH_SWITCH", !.joining = Never])
        <3>1. PICK p \in Contexts : p = m.at /\ IsContext(UeManager(p))
            BY <2>8, <2>9, Zenon
        <3>2. PICK x : x = [UeManager(p) EXCEPT !.state = "HANDOVER_PATH_SWITCH", !.joining = Never]
            BY Zenon
        <3>3. IsContext(x) /\ x.state = "HANDOVER_PATH_SWITCH" /\ x.source = UeManager(p).source
            BY <3>1, <3>2, Zenon DEF IsContext, Never
        <3>4. Changed(p, x) /\ DOMAIN m_ueMap' = Cells
            BY <2>9, <3>1, <3>2, InPlace, Clock, UpdatedFacts, Zenon
        <3>5. Entered(p) /\ State(p) = "HANDOVER_JOINING"
            BY <1>1, <2>9, <3>1, Zenon DEF Entered, Rrc, State
        <3>6. Turns(p, x) /\ Keeps(p)
            BY <3>3, <3>4, <3>5, Zenon DEF Turns, Changed, Moves, Keeps
        <3> QED BY <2>7, <3>5, <3>6, Zenon
    <2>10. CASE /\ HasUeManager(m.at) /\ UeManager(m.at).state = "CONNECTION_RECONFIGURATION"
                /\ m_ueMap' = Updated(m.at, [UeManager(m.at) EXCEPT !.state = "CONNECTED_NORMALLY"])
        <3>1. PICK p \in Contexts : p = m.at /\ IsContext(UeManager(p))
            BY <2>8, <2>10, Zenon
        <3>2. PICK x : x = [UeManager(p) EXCEPT !.state = "CONNECTED_NORMALLY"]
            BY Zenon
        <3>3. IsContext(x) /\ x.state = "CONNECTED_NORMALLY" /\ x.source = UeManager(p).source
            BY <3>1, <3>2 DEF IsContext
        <3>4. Changed(p, x) /\ DOMAIN m_ueMap' = Cells
            BY <2>10, <3>1, <3>2, InPlace, Clock, UpdatedFacts, Zenon
        <3>5. State(p) = "CONNECTION_RECONFIGURATION"
            BY <2>10, <3>1, Zenon DEF State
        <3>6. Turns(p, x) /\ Keeps(p)
            BY <3>3, <3>4, <3>5, Zenon DEF Turns, Changed, Moves, Keeps
        <3> QED BY <2>7, <3>5, <3>6, Zenon
    <2>11. CASE UNCHANGED m_ueMap
        <3>1. AirMessages
            BY <2>1, Zenon DEF AirMessages
        <3>2. ue' = [state |-> ue'.state, at |-> ue'.at, until |-> ue'.until]
            BY <2>1, Zenon DEF Shape
        <3> QED BY <2>1, <2>4, <2>11, <3>1, <3>2, AirStep, Zenon
    <2> QED BY <2>2, <2>9, <2>10, <2>11, Zenon
<1> QED BY <1>2, <1>3, Zenon

\* The target has the path, and the source may forget the UE.
LEMMA PathSwitchStep == ASSUME Inv, NEW s \in s1, PathSwitchRequestAcknowledge(s) PROVE Inv'
<1> USE DEF Inv
<1>1. CASE \E why : Abort(why)
    BY <1>1, AbortStep, Zenon
<1>2. CASE ~\E why : Abort(why)
    <2>1. PICK p \in Contexts : p = s.at /\ State(p) = "HANDOVER_PATH_SWITCH"
        BY <1>2, Zenon DEF PathSwitchRequestAcknowledge, HasUeManager, State
    <2>2. UNCHANGED <<now, m_lastAllocatedRnti, ue>>
        BY <1>2, Zenon DEF PathSwitchRequestAcknowledge
    <2>3. PICK q : q = UeManager(p).source
        BY Zenon
    <2>4. PICK n : n = X2Message("UE CONTEXT RELEASE", q, p)
        BY Zenon
    <2>5. PICK x : x = [UeManager(p) EXCEPT !.state = "CONNECTION_RECONFIGURATION"]
        BY Zenon
    <2>6. /\ x2' = x2 \cup {n} /\ m_ueMap' = Updated(p, x)
          /\ \E r \in OverTheAir("reconfiguration", p, Nowhere) : rrc' = rrc \cup {r}
        BY <1>2, <2>1, <2>3, <2>4, <2>5, Zenon DEF PathSwitchRequestAcknowledge
    <2>7. PICK r \in OverTheAir("reconfiguration", p, Nowhere) : rrc' = rrc \cup {r}
        BY <2>6, Zenon
    <2>8. Sent(r, "reconfiguration", p, Nowhere)
        BY AirFacts, Zenon
    <2>9. n.type = "UE CONTEXT RELEASE" /\ n.to = q /\ n.peer = p /\ n.ts = now + X2Delay
        BY <2>4, Zenon DEF X2Message
    <2>10. IsContext(x) /\ x.state = "CONNECTION_RECONFIGURATION" /\ x.source = UeManager(p).source
        <3>1. IsContext(UeManager(p))
            BY Zenon DEF Names, ContextNamed
        <3> QED BY <2>5, <3>1 DEF IsContext
    <2>11. Changed(p, x) /\ DOMAIN m_ueMap' = Cells
        BY <2>6, InPlace, Clock, UpdatedFacts, Zenon
    <2>12. Turns(p, x) /\ Keeps(p)
        BY <2>1, <2>10, <2>11, Zenon DEF Turns, Changed, Moves, Keeps
    <2>13. X2("HANDOVER REQUEST ACK")' \subseteq X2("HANDOVER REQUEST ACK")
        BY <2>6, <2>9, Zenon DEF X2
    <2>14. ASSUME NEW m \in X2("UE CONTEXT RELEASE")' PROVE m \in X2("UE CONTEXT RELEASE") \/ m = n
        BY <2>6, <2>14, Zenon DEF X2
    <2>15. NewRelease
        BY <2>1, <2>3, <2>9, <2>14, Zenon DEF NewRelease
    <2>16. X2Named(n)'
        <3>1. Known(q) /\ Known(p)
            BY <2>1, <2>3, Zenon DEF Names, ContextNamed
        <3>2. Known(q)' /\ Known(p)'
            BY <2>2, <3>1, Zenon DEF Known
        <3> QED BY <2>9, <3>2, Clock, Zenon DEF X2Named
    <2>17. \A t : About(t)' \subseteq About(t)
        BY <2>6, <2>9, Zenon DEF About
    <2>18. Converses(p)'
        <3>1. About(p) = {} /\ Joining(p) = {}
            BY <2>1, NothingAbout, Zenon DEF Talk
        <3>2. Joining(p)' = {}
            BY <2>2, <2>12, <3>1, TurnFacts, Zenon
        <3>3. About(p)' = {}
            BY <2>17, <3>1, Zenon
        <3> QED BY <3>2, <3>3, NothingSaid, Zenon
    <2>19. \A m \in rrc' : m \in rrc \/ m.type = "reconfiguration"
        BY <2>7, <2>8, Zenon DEF Sent
    <2>20. /\ Contexts' = Contexts /\ UeManager(p)' = x
           /\ \A t \in Contexts : t # p => UeManager(t)' = UeManager(t)
        BY <2>11, Zenon DEF Changed
    <2>21. Safe'
        <3>1. CASE ue = IdleUe
            BY <2>2, <3>1, Zenon DEF Safe
        <3>2. CASE ue.at \in Contexts /\ State(ue.at) # "HANDOVER_JOINING"
            BY <2>2, <2>10, <2>20, <3>2, Zenon DEF Safe, State
        <3>3. CASE Rrc("release") # {}
            BY <2>7, <3>3, Zenon DEF Safe, Rrc
        <3>4. CASE \E t \in Contexts :
                     /\ State(t) = "HANDOVER_LEAVING" /\ UeManager(t).target = ue.at
                     /\ \A m \in X2("UE CONTEXT RELEASE") : m.to # t
            <4>1. PICK t \in Contexts :
                     /\ State(t) = "HANDOVER_LEAVING" /\ UeManager(t).target = ue.at
                     /\ \A m \in X2("UE CONTEXT RELEASE") : m.to # t
                BY <3>4, Zenon
            <4>2. CASE t = q
                <5>1. Left(q, p)
                    BY <2>1, <2>3, Zenon DEF Entries
                <5>2. ue.at = p
                    BY <4>1, <4>2, <5>1, Zenon DEF Left
                <5> QED BY <2>2, <2>10, <2>20, <5>2, Zenon DEF Safe, State
            <4>3. CASE t # q
                <5>1. t # p
                    BY <2>1, <4>1, Zenon
                <5>2. \A m \in X2("UE CONTEXT RELEASE")' : m.to # t
                    BY <2>9, <2>14, <4>1, <4>3, Zenon
                <5> QED BY <2>2, <2>20, <4>1, <5>1, <5>2, Zenon DEF Safe, State
            <4> QED BY <4>2, <4>3, Zenon
        <3> QED BY <3>1, <3>2, <3>3, <3>4, Zenon DEF Safe
    <2> QED BY <2>2, <2>6, <2>12, <2>13, <2>15, <2>16, <2>17, <2>18, <2>19, <2>21, TurnStep, Zenon
<1> QED BY <1>1, <1>2, Zenon

\* The source tells the UE to leave.
LEMMA AckStep == ASSUME Inv, NEW m \in x2, RecvHandoverRequestAck(m) PROVE Inv'
<1> USE DEF Inv
<1>1. m.type = "HANDOVER REQUEST ACK"
    BY Zenon DEF RecvHandoverRequestAck, Receives
<1>2. CASE ~HasUeManager(m.to)
    BY <1>2, AbortStep, Zenon DEF RecvHandoverRequestAck
<1>3. CASE HasUeManager(m.to)
    <2>1. PICK p \in Contexts : p = m.to
        BY <1>3, Zenon DEF HasUeManager
    <2>2. UNCHANGED <<now, m_lastAllocatedRnti, ue>> /\ x2' = x2 \ {m}
        BY <1>3, Zenon DEF RecvHandoverRequestAck
    <2>3. PICK command \in OverTheAir("handover command", p, m.peer) : rrc' = rrc \cup {command}
        BY <1>3, <2>1, Zenon DEF RecvHandoverRequestAck
    <2>4. Sent(command, "handover command", p, m.peer)
        BY AirFacts, Zenon
    <2>5. PICK x : x = [UeManager(p) EXCEPT !.state = "HANDOVER_LEAVING", !.leaving = LeavingTimer,
                                            !.target = m.peer]
        BY Zenon
    <2>6. m_ueMap' = Updated(p, x)
        BY <1>3, <2>1, <2>5, Zenon DEF RecvHandoverRequestAck
    <2>7. /\ IsContext(x) /\ x.state = "HANDOVER_LEAVING"
          /\ x.source = UeManager(p).source /\ x.target = m.peer
        <3>1. IsContext(UeManager(p))
            BY Zenon DEF Names, ContextNamed
        <3> QED BY <2>5, <3>1, Zenon DEF IsContext
    <2>8. Changed(p, x) /\ DOMAIN m_ueMap' = Cells
        BY <2>6, InPlace, Clock, UpdatedFacts, Zenon
    <2>9. m \in About(p) /\ Converses(p)
        BY <1>1, <2>1, Zenon DEF About, Talk
    <2>10. State(p) = "HANDOVER_PREPARATION"
        BY <1>1, <2>9, Zenon DEF Converses, Ack
    <2>11. Turns(p, x) /\ Keeps(p)
        BY <2>7, <2>8, <2>10, Zenon DEF Turns, Changed, Moves, Keeps
    <2>12. /\ Contexts' = Contexts /\ Drift /\ ContextNamed(p)'
           /\ \A q \in Contexts : q # p => UeManager(q)' = UeManager(q)
           /\ Joining(p)' \subseteq Joining(p)
        BY <2>2, <2>11, TurnFacts, Zenon
    <2>13. State(p)' = "HANDOVER_LEAVING" /\ UeManager(p)'.target = m.peer
        BY <2>7, <2>8, Zenon DEF Changed, State
    <2>14. \A q : About(q)' \subseteq About(q)
        BY <2>2, Zenon DEF About
    <2>15. Talk'
        <3>1. \A n \in About(p)' : n \in About(p) /\ n.type = "HANDOVER PREPARATION FAILURE"
            <4>1. \A n \in About(p)' : n \in About(p) /\ n # m
                BY <2>2, <2>14, Zenon DEF About
            <4> QED BY <1>1, <2>9, <4>1, Zenon DEF Converses, Ack
        <3>2. Request(p)' /\ Ack(p)'
            BY <3>1, Zenon DEF Request, Ack
        <3>3. Failure(p)'
            BY <2>9, <2>12, <2>13, <3>1, Zenon DEF Converses, Failure
        <3>4. Target(p)'
            BY <2>9, <2>12, <2>13, Zenon DEF Converses, Target
        <3>5. Converses(p)'
            BY <3>2, <3>3, <3>4, Zenon DEF Converses
        <3> QED BY <2>2, <2>11, <2>14, <3>5, TurnTalk, Zenon
    <2>16. Shape'
        BY <2>2, <2>8, Zenon DEF Shape, Known
    <2>17. Grows
        BY <2>2, Zenon DEF Grows, Known
    <2>18. Names'
        <3>1. Known(m.to)' /\ Known(m.peer)'
            BY <1>1, <2>17, Zenon DEF Names, X2Named, Grows
        <3>2. RrcNamed(command)'
            BY <2>1, <2>4, <3>1, Zenon DEF RrcNamed, Sent
        <3> QED BY <2>2, <2>3, <2>12, <2>17, <3>2, NamesStep, Zenon
    <2>19. X2("HANDOVER REQUEST ACK")' = X2("HANDOVER REQUEST ACK") \ {m}
        BY <2>2, Zenon DEF X2
    <2>20. X2("UE CONTEXT RELEASE")' = X2("UE CONTEXT RELEASE")
        BY <1>1, <2>2, Zenon DEF X2
    <2>21. Rrc("handover command")' = Rrc("handover command") \cup {command}
        BY <2>3, <2>4, Zenon DEF Rrc, Sent
    <2>22. /\ Rrc("completed")' = Rrc("completed") /\ Rrc("remove")' = Rrc("remove")
           /\ Rrc("release")' = Rrc("release")
        BY <2>3, <2>4, Zenon DEF Rrc, Sent
    <2>23. \A q : Entered(q)' <=> Entered(q)
        BY <2>2, <2>22, Zenon DEF Entered
    <2>24. NewRelease
        BY <2>20, Zenon DEF NewRelease
    <2>25. m \in X2("HANDOVER REQUEST ACK") /\ m.peer \in Invited
        BY <1>1, Zenon DEF X2, Invited
    <2>26. Invited' \subseteq Invited
        BY <2>4, <2>19, <2>21, <2>25, Zenon DEF Invited, Sent
    <2>27. Invitations'
        <3>1. ASSUME NEW a \in X2("HANDOVER REQUEST ACK")'
              PROVE  /\ a.peer \in Contexts' => UeManager(a.peer)'.source = a.to
                     /\ \A b \in X2("HANDOVER REQUEST ACK")' : b.peer = a.peer => b = a
                     /\ \A n \in Rrc("handover command")' : n.target # a.peer
            <4>1. a \in X2("HANDOVER REQUEST ACK") /\ a # m
                BY <2>19, Zenon
            <4>2. a.peer # m.peer
                BY <2>25, <4>1, Zenon DEF Invitations
            <4>3. a.peer \in Contexts' => UeManager(a.peer)'.source = a.to
                BY <2>12, <4>1, Zenon DEF Invitations, Drift, Moves
            <4>4. \A b \in X2("HANDOVER REQUEST ACK")' : b.peer = a.peer => b = a
                BY <2>19, <4>1, Zenon DEF Invitations
            <4>5. \A n \in Rrc("handover command")' : n.target # a.peer
                BY <2>4, <2>21, <4>1, <4>2, Zenon DEF Invitations, Sent
            <4> QED BY <4>3, <4>4, <4>5, Zenon
        <3>2. \A n \in Rrc("handover command") : n.target # m.peer
            BY <2>25, Zenon DEF Invitations
        <3>3. ASSUME NEW n \in Rrc("handover command")
              PROVE  /\ n.at \in Contexts' =>
                          State(n.at)' = "HANDOVER_LEAVING" /\ UeManager(n.at)'.target = n.target
                     /\ n.target \in Contexts' => UeManager(n.target)'.source = n.at
                     /\ \A k \in Rrc("handover command")' : k.target = n.target => k = n
            <4>1. /\ n.at \in Contexts => State(n.at) = "HANDOVER_LEAVING" /\ UeManager(n.at).target = n.target
                  /\ n.target \in Contexts => UeManager(n.target).source = n.at
                  /\ \A k \in Rrc("handover command") : k.target = n.target => k = n
                BY Zenon DEF Invitations
            <4>2. n.at \in Contexts' => State(n.at)' = "HANDOVER_LEAVING" /\ UeManager(n.at)'.target = n.target
                BY <2>12, <4>1, Zenon DEF Drift, Moves, State
            <4>3. n.target \in Contexts' => UeManager(n.target)'.source = n.at
                BY <2>12, <4>1, Zenon DEF Drift, Moves
            <4>4. \A k \in Rrc("handover command")' : k.target = n.target => k = n
                BY <2>4, <2>21, <3>2, <4>1, Zenon DEF Sent
            <4> QED BY <4>2, <4>3, <4>4, Zenon
        <3>4. /\ command.at = p /\ command.target = m.peer
              /\ m.peer \in Contexts' => UeManager(m.peer)'.source = p
              /\ \A k \in Rrc("handover command")' : k.target = m.peer => k = command
            <4>1. command.at = p /\ command.target = m.peer
                BY <2>4, Zenon DEF Sent
            <4>2. m.peer \in Contexts' => UeManager(m.peer)'.source = p
                BY <2>1, <2>12, <2>25, Zenon DEF Invitations, Drift, Moves
            <4>3. \A k \in Rrc("handover command")' : k.target = m.peer => k = command
                BY <2>21, <3>2, Zenon
            <4> QED BY <4>1, <4>2, <4>3, Zenon
        <3>5. ASSUME NEW n \in Rrc("handover command")'
              PROVE  /\ n.at \in Contexts' =>
                          State(n.at)' = "HANDOVER_LEAVING" /\ UeManager(n.at)'.target = n.target
                     /\ n.target \in Contexts' => UeManager(n.target)'.source = n.at
                     /\ \A k \in Rrc("handover command")' : k.target = n.target => k = n
            BY <2>13, <2>21, <3>3, <3>4, Zenon
        <3>6. \A q \in Invited' :
                /\ ~Entered(q)'
                /\ q \in Contexts' => State(q)' = "HANDOVER_JOINING"
                /\ \A n \in X2("UE CONTEXT RELEASE")' : n.peer # q
            BY <2>12, <2>23, <2>24, <2>26, InvitedStep, Zenon
        <3> QED BY <3>1, <3>5, <3>6, Zenon DEF Invitations
    <2>28. Entries'
        BY <2>2, <2>12, <2>23, <2>24, <2>26, EntriesStep, Zenon
    <2>29. Stays
        BY <2>2, <2>22, Zenon DEF Stays
    <2>30. Safe' /\ Removal'
        BY <2>2, <2>11, <2>20, <2>29, TurnSafe, RemovalStep, Zenon
    <2> QED BY <2>15, <2>16, <2>18, <2>27, <2>28, <2>30, Zenon
<1> QED BY <1>2, <1>3, Zenon

-----------------------------------------------------------------------------
(* Steps that end or begin a handover at the target.                       *)

\* The RNTI that the target allocates next is of nobody yet.
LEMMA Fresh ==
    ASSUME Shape, NEW c \in Cells, NEW p, p = [cell |-> c, rnti |-> NextRnti(c)]
    PROVE  /\ p \in Place /\ ~Known(p)
           /\ m_lastAllocatedRnti' = [m_lastAllocatedRnti EXCEPT ![c] = p.rnti] =>
                Grows /\ Known(p)' /\ m_lastAllocatedRnti' \in [Cells -> Nat]
<1>1. m_lastAllocatedRnti \in [Cells -> Nat] /\ m_lastAllocatedRnti[c] \in Nat
    BY DEF Shape
<1>2. p.cell = c /\ p.rnti = m_lastAllocatedRnti[c] + 1 /\ p.rnti \in Nat
    BY <1>1 DEF NextRnti
<1>3. p \in Place
    BY <1>2 DEF Place
<1>4. ~Known(p)
    BY <1>1, <1>2 DEF Known
<1>5. ASSUME m_lastAllocatedRnti' = [m_lastAllocatedRnti EXCEPT ![c] = p.rnti]
      PROVE  Grows /\ Known(p)' /\ m_lastAllocatedRnti' \in [Cells -> Nat]
    <2>1. m_lastAllocatedRnti' \in [Cells -> Nat] /\ m_lastAllocatedRnti'[c] = p.rnti
        BY <1>1, <1>2, <1>5
    <2>2. \A d \in Cells : m_lastAllocatedRnti[d] <= m_lastAllocatedRnti'[d]
        BY <1>1, <1>2, <1>5
    <2>3. Known(p)'
        BY <1>1, <1>2, <1>3, <2>1 DEF Known
    <2>4. ASSUME NEW q, Known(q) PROVE Known(q)'
        <3>1. q \in Place /\ q.rnti >= 1 /\ q.rnti <= m_lastAllocatedRnti[q.cell]
            BY <2>4, Zenon DEF Known
        <3>2. PICK r \in Nat, d \in Cells : r = q.rnti /\ d = q.cell
            BY <3>1 DEF Place
        <3>3. r <= m_lastAllocatedRnti'[d]
            BY <1>1, <2>1, <2>2, <3>1, <3>2
        <3> QED BY <3>1, <3>2, <3>3, Zenon DEF Known
    <2> QED BY <2>1, <2>3, <2>4, Zenon DEF Grows
<1> QED BY <1>3, <1>4, <1>5, Zenon

\* What a source has under way when its request arrives: the request.
LEMMA Requested ==
    ASSUME Talk, NEW m \in x2, m.type = "HANDOVER REQUEST", m.peer \in Contexts
    PROVE  /\ State(m.peer) = "HANDOVER_PREPARATION" /\ Joining(m.peer) = {}
           /\ \A n \in About(m.peer) : n = m
<1>1. m \in About(m.peer) /\ Converses(m.peer)
    BY Zenon DEF About, Talk
<1> QED BY <1>1, Zenon DEF Converses, Request

\* The target refuses.
LEMMA RefuseStep ==
    ASSUME Inv, UNCHANGED <<now, m_ueMap, ue, rrc>>, Grows, m_lastAllocatedRnti' \in [Cells -> Nat],
           NEW m \in x2, m.type = "HANDOVER REQUEST", NEW p,
           x2' = (x2 \ {m}) \cup {X2Message("HANDOVER PREPARATION FAILURE", m.peer, p)}
    PROVE  Inv'
<1> USE DEF Inv
<1>1. PICK n : n = X2Message("HANDOVER PREPARATION FAILURE", m.peer, p)
    BY Zenon
<1>2. /\ n.type = "HANDOVER PREPARATION FAILURE" /\ n.to = m.peer /\ n.ts = now + X2Delay
      /\ x2' = (x2 \ {m}) \cup {n}
    BY <1>1, Zenon DEF X2Message
<1>3. Contexts' = Contexts /\ \A q : UeManager(q)' = UeManager(q)
    BY SameContexts, Zenon
<1>4. Shape'
    BY Zenon DEF Shape, Grows
<1>5. Names'
    <2>1. X2Named(n)'
        BY <1>2, Clock, Zenon DEF Names, X2Named, Grows
    <2> QED BY <1>2, <1>3, <2>1, NamesStep, Zenon
<1>6. \A q : Joining(q)' = Joining(q) /\ State(q)' = State(q)
    BY <1>3, Zenon DEF Joining, State
<1>7. ASSUME NEW q \in Contexts PROVE Converses(q)'
    <2>1. CASE q = m.peer
        <3>1. State(q) = "HANDOVER_PREPARATION" /\ Joining(q) = {} /\ \A k \in About(q) : k = m
            BY <2>1, Requested, Zenon
        <3>2. \A k \in About(q)' : k = n
            BY <1>2, <3>1, Zenon DEF About
        <3> QED BY <1>2, <1>6, <3>1, <3>2, Zenon DEF Converses, Request, Ack, Failure, Target
    <2>2. CASE q # m.peer
        <3>1. About(q)' \subseteq About(q)
            BY <1>2, <2>2, Zenon DEF About
        <3>2. Converses(q)
            BY Zenon DEF Talk
        <3>3. Quiet(q)
            BY <1>3, <1>6, <3>1, <3>2, Zenon DEF Quiet, Converses, Ack
        <3> QED BY <3>2, <3>3, QuietStep, Zenon
    <2> QED BY <2>1, <2>2, Zenon
<1>8. Talk'
    BY <1>3, <1>7, Zenon DEF Talk
<1>9. /\ X2("HANDOVER REQUEST ACK")' \subseteq X2("HANDOVER REQUEST ACK")
      /\ X2("UE CONTEXT RELEASE")' \subseteq X2("UE CONTEXT RELEASE")
    BY <1>2, Zenon DEF X2
<1>10. \A type : Rrc(type)' = Rrc(type)
    BY Zenon DEF Rrc
<1>11. \A q : Entered(q)' <=> Entered(q)
    BY <1>10, Zenon DEF Entered
<1>12. Drift /\ NewRelease
    BY <1>3, <1>9, Zenon DEF Drift, Moves, State, NewRelease
<1>13. Invited' \subseteq Invited
    BY <1>9, <1>10, Zenon DEF Invited
<1>14. Invitations'
    BY <1>9, <1>10, <1>11, <1>12, InvitationsStep, Zenon
<1>15. Entries'
    BY <1>11, <1>12, <1>13, EntriesStep, Zenon
<1>16. Safe' /\ Removal'
    <2>1. \A q \in Contexts : Keeps(q)
        BY <1>3, Zenon DEF Keeps, State
    <2> QED BY <1>9, <2>1, SameAir, SafeStep, RemovalStep, Zenon
<1> QED BY <1>4, <1>5, <1>8, <1>14, <1>15, <1>16, Zenon

\* The target accepts, with an RNTI that nothing refers to.
LEMMA AcceptStep ==
    ASSUME Inv, UNCHANGED <<now, ue, rrc>>, Grows, m_lastAllocatedRnti' \in [Cells -> Nat],
           NEW m \in x2, m.type = "HANDOVER REQUEST", NEW p \in Place, ~Known(p), Known(p)',
           x2' = (x2 \ {m}) \cup {X2Message("HANDOVER REQUEST ACK", m.peer, p)},
           m_ueMap' = Updated(p, [state |-> "HANDOVER_JOINING", joining |-> JoiningTimer,
                                  leaving |-> Never, source |-> m.peer, target |-> Nowhere])
    PROVE  Inv'
<1> USE DEF Inv
<1>1. PICK n : n = X2Message("HANDOVER REQUEST ACK", m.peer, p)
    BY Zenon
<1>2. /\ n.type = "HANDOVER REQUEST ACK" /\ n.to = m.peer /\ n.peer = p /\ n.ts = now + X2Delay
      /\ x2' = (x2 \ {m}) \cup {n}
    BY <1>1, Zenon DEF X2Message
<1>3. PICK x : x = [state |-> "HANDOVER_JOINING", joining |-> JoiningTimer,
                    leaving |-> Never, source |-> m.peer, target |-> Nowhere]
    BY Zenon
<1>4. JoiningTimer \in Nat /\ now + X2Delay < JoiningTimer + X2Delay /\ now + X2Delay >= now
    BY TimerLater, Zenon
<1>5. /\ IsContext(x) /\ x.state = "HANDOVER_JOINING" /\ x.joining = JoiningTimer /\ x.source = m.peer
    BY <1>3, <1>4, Zenon DEF IsContext
<1>6. Changed(p, x) /\ DOMAIN m_ueMap' = Cells
    BY <1>3, Clock, UpdatedFacts, Zenon
<1>7. \A q \in Contexts : Known(q) /\ q # p
    BY Zenon DEF Names, ContextNamed
<1>8. /\ Contexts' = Contexts \cup {p} /\ UeManager(p)' = x
      /\ \A q \in Contexts : UeManager(q)' = UeManager(q)
    BY <1>6, <1>7, Zenon DEF Changed
<1>9. Shape'
    BY <1>6, Zenon DEF Shape, Grows
<1>10. Known(m.peer) /\ m.peer # p
    BY Zenon DEF Names, X2Named
<1>11. Names'
    <2>1. X2Named(n)'
        BY <1>2, <1>10, Clock, Zenon DEF X2Named, Grows
    <2>2. ContextNamed(p)'
        BY <1>5, <1>8, <1>10, Zenon DEF ContextNamed, Grows
    <2> QED BY <1>2, <1>8, <2>1, <2>2, NamesStep, Zenon
<1>12. \A q \in Contexts : State(q)' = State(q)
    BY <1>8, Zenon DEF State
<1>13. State(p)' = "HANDOVER_JOINING"
    BY <1>5, <1>8, Zenon DEF State
<1>14. ASSUME NEW q PROVE \A r \in Joining(q)' : r \in Joining(q) \/ (r = p /\ q = m.peer)
    BY <1>5, <1>8, <1>12, Zenon DEF Joining
<1>15. ASSUME NEW q \in Contexts PROVE Converses(q)'
    <2>1. CASE q = m.peer
        <3>1. State(q) = "HANDOVER_PREPARATION" /\ Joining(q) = {} /\ \A k \in About(q) : k = m
            BY <2>1, Requested, Zenon
        <3>2. \A k \in About(q)' : k = n
            BY <1>2, <3>1, Zenon DEF About
        <3>3. \A r \in Joining(q)' : r = p
            BY <1>14, <3>1, Zenon
        <3>4. Request(q)' /\ Failure(q)' /\ Target(q)'
            BY <1>2, <1>12, <3>1, <3>2, <3>3, Zenon DEF Request, Failure, Target
        <3>5. Ack(q)'
            BY <1>2, <1>4, <1>5, <1>8, <1>12, <3>1, <3>2, <3>3, Zenon DEF Ack
        <3> QED BY <3>4, <3>5, Zenon DEF Converses
    <2>2. CASE q # m.peer
        <3>1. About(q)' \subseteq About(q)
            BY <1>2, <2>2, Zenon DEF About
        <3>2. Joining(q)' \subseteq Joining(q)
            BY <1>14, <2>2, Zenon
        <3>3. Converses(q)
            BY Zenon DEF Talk
        <3>4. \A r \in Joining(q)' : UeManager(r)' = UeManager(r)
            BY <1>8, <3>2, Zenon DEF Joining
        <3>5. Quiet(q)
            BY <1>8, <3>1, <3>2, <3>3, <3>4, Zenon DEF Quiet, Converses, Ack
        <3> QED BY <3>3, <3>5, QuietStep, Zenon
    <2> QED BY <2>1, <2>2, Zenon
<1>16. Converses(p)'
    <2>1. ASSUME NEW k \in About(p)' PROVE FALSE
        <3>1. k \in x2 \/ k = n
            BY <1>2, Zenon DEF About
        <3>2. CASE k = n
            BY <1>2, <1>10, <3>2, Zenon DEF About
        <3>3. CASE k \in x2
            BY <3>3, Zenon DEF About, Names, X2Named
        <3> QED BY <3>1, <3>2, <3>3, Zenon
    <2>2. ASSUME NEW r \in Joining(p)' PROVE FALSE
        <3>1. r \in Joining(p)
            BY <1>10, <1>14, Zenon
        <3> QED BY <3>1, Zenon DEF Joining, Names, ContextNamed
    <2>3. About(p)' = {} /\ Joining(p)' = {}
        BY <2>1, <2>2, Zenon
    <2> QED BY <2>3, NothingSaid, Zenon
<1>17. Talk'
    BY <1>8, <1>15, <1>16, Zenon DEF Talk
<1>18. \A k \in X2("HANDOVER REQUEST ACK")' : k \in X2("HANDOVER REQUEST ACK") \/ k = n
    BY <1>2, Zenon DEF X2
<1>19. X2("UE CONTEXT RELEASE")' \subseteq X2("UE CONTEXT RELEASE")
    BY <1>2, Zenon DEF X2
<1>20. \A type : Rrc(type)' = Rrc(type)
    BY Zenon DEF Rrc
<1>21. \A q : Entered(q)' <=> Entered(q)
    BY <1>20, Zenon DEF Entered
<1>22. ASSUME NEW q \in Invited' PROVE q \in Invited \/ q = p
    BY <1>2, <1>18, <1>20, Zenon DEF Invited
<1>23. ~Entered(p)
    <2>1. ue.at # p
        <3>1. IdleUe.at = Nowhere /\ p # Nowhere
            <4>1. p # Nowhere
                BY NotNowhere, Zenon DEF Known
            <4> QED BY <4>1, Zenon DEF IdleUe
        <3> QED BY <3>1, Zenon DEF Shape
    <2>2. \A k \in Rrc("completed") \cup Rrc("remove") : k.at # p
        BY Zenon DEF Rrc, Names, RrcNamed
    <2> QED BY <2>1, <2>2, Zenon DEF Entered
<1>24. Invitations'
    <2>1. ASSUME NEW k \in X2("HANDOVER REQUEST ACK")
          PROVE  k.peer # p /\ (k.peer \in Contexts' => UeManager(k.peer)'.source = k.to)
        <3>1. k.peer # p
            BY Zenon DEF X2, Names, X2Named
        <3> QED BY <1>8, <3>1, Zenon DEF Invitations
    <2>2. ASSUME NEW k \in X2("HANDOVER REQUEST ACK")'
          PROVE  /\ k.peer \in Contexts' => UeManager(k.peer)'.source = k.to
                 /\ \A b \in X2("HANDOVER REQUEST ACK")' : b.peer = k.peer => b = k
                 /\ \A r \in Rrc("handover command")' : r.target # k.peer
        <3>1. CASE k = n
            <4>1. \A r \in Rrc("handover command")' : r.target # p
                BY <1>20, Zenon DEF Rrc, Names, RrcNamed
            <4>2. \A b \in X2("HANDOVER REQUEST ACK")' : b.peer = p => b = n
                BY <1>18, <2>1, Zenon
            <4>3. UeManager(p)'.source = m.peer
                BY <1>5, <1>8, Zenon
            <4> QED BY <1>2, <3>1, <4>1, <4>2, <4>3, Zenon
        <3>2. CASE k \in X2("HANDOVER REQUEST ACK")
            <4>1. \A b \in X2("HANDOVER REQUEST ACK")' : b.peer = k.peer => b = k
                BY <1>2, <1>18, <2>1, <3>2, Zenon DEF Invitations
            <4>2. \A r \in Rrc("handover command")' : r.target # k.peer
                BY <1>20, <3>2, Zenon DEF Invitations
            <4> QED BY <2>1, <3>2, <4>1, <4>2, Zenon
        <3> QED BY <1>18, <3>1, <3>2, Zenon
    <2>3. ASSUME NEW r \in Rrc("handover command")'
          PROVE  /\ r.at \in Contexts' =>
                      State(r.at)' = "HANDOVER_LEAVING" /\ UeManager(r.at)'.target = r.target
                 /\ r.target \in Contexts' => UeManager(r.target)'.source = r.at
                 /\ \A k \in Rrc("handover command")' : k.target = r.target => k = r
        <3>1. r \in Rrc("handover command") /\ r.at # p /\ r.target # p
            BY <1>20, Zenon DEF Rrc, Names, RrcNamed
        <3>2. /\ r.at \in Contexts => State(r.at) = "HANDOVER_LEAVING" /\ UeManager(r.at).target = r.target
              /\ r.target \in Contexts => UeManager(r.target).source = r.at
              /\ \A k \in Rrc("handover command") : k.target = r.target => k = r
            BY <3>1, Zenon DEF Invitations
        <3> QED BY <1>8, <1>12, <1>20, <3>1, <3>2, Zenon
    <2>4. ASSUME NEW q \in Invited'
          PROVE  /\ ~Entered(q)'
                 /\ q \in Contexts' => State(q)' = "HANDOVER_JOINING"
                 /\ \A k \in X2("UE CONTEXT RELEASE")' : k.peer # q
        <3>1. CASE q = p
            <4>1. \A k \in X2("UE CONTEXT RELEASE") : k.peer # p
                BY Zenon DEF X2, Names, X2Named
            <4> QED BY <1>13, <1>19, <1>21, <1>23, <3>1, <4>1, Zenon
        <3>2. CASE q \in Invited /\ q # p
            <4>1. /\ ~Entered(q) /\ (q \in Contexts => State(q) = "HANDOVER_JOINING")
                  /\ \A k \in X2("UE CONTEXT RELEASE") : k.peer # q
                BY <3>2, Zenon DEF Invitations
            <4> QED BY <1>8, <1>12, <1>19, <1>21, <3>2, <4>1, Zenon
        <3> QED BY <1>22, <3>1, <3>2, Zenon
    <2> QED BY <2>2, <2>3, <2>4, Zenon DEF Invitations
<1>25. ASSUME NEW q, NEW r, Known(q), Left(q, r) PROVE Left(q, r)'
    <2>1. q # p /\ q \notin Invited'
        BY <1>22, <1>25, Zenon DEF Left
    <2> QED BY <1>8, <1>12, <1>25, <2>1, Zenon DEF Left
<1>26. Entries'
    <2>1. ASSUME NEW r \in Contexts',
                 \/ State(r)' = "HANDOVER_PATH_SWITCH"
                 \/ State(r)' = "HANDOVER_JOINING" /\ Entered(r)'
          PROVE  Left(UeManager(r).source, r)'
        <3>1. r # p /\ r \in Contexts
            BY <1>8, <1>13, <1>21, <1>23, <2>1, Zenon
        <3>2. \/ State(r) = "HANDOVER_PATH_SWITCH"
              \/ State(r) = "HANDOVER_JOINING" /\ Entered(r)
            BY <1>12, <1>21, <2>1, <3>1, Zenon
        <3>3. PICK q : q = UeManager(r).source /\ q = UeManager(r)'.source
            BY <1>8, <3>1, Zenon
        <3>4. Left(q, r) /\ Known(q)
            BY <3>1, <3>2, <3>3, Zenon DEF Entries, Names, ContextNamed
        <3> QED BY <1>25, <3>3, <3>4, Zenon
    <2>2. ASSUME NEW k \in X2("UE CONTEXT RELEASE")'
          PROVE  Left(k.to, k.peer)' /\ (k.peer \in Contexts' => State(k.peer)' # "HANDOVER_JOINING")
        <3>1. k \in X2("UE CONTEXT RELEASE") /\ Known(k.to) /\ Known(k.peer)
            BY <1>19, Zenon DEF X2, Names, X2Named
        <3>2. Left(k.to, k.peer) /\ (k.peer \in Contexts => State(k.peer) # "HANDOVER_JOINING")
            BY <3>1, Zenon DEF Entries
        <3>3. k.peer # p
            BY <3>1, Zenon
        <3> QED BY <1>8, <1>12, <1>25, <3>1, <3>2, <3>3, Zenon
    <2> QED BY <2>1, <2>2, Zenon DEF Entries
<1>27. Safe' /\ Removal'
    <2>1. \A q \in Contexts : Keeps(q)
        BY <1>8, Zenon DEF Keeps, State
    <2> QED BY <1>19, <2>1, SameAir, SafeStep, RemovalStep, Zenon
<1> QED BY <1>9, <1>11, <1>17, <1>24, <1>26, <1>27, Zenon

\* DoRecvHandoverRequest()
LEMMA RequestStep == ASSUME Inv, NEW m \in x2, RecvHandoverRequest(m) PROVE Inv'
<1>1. m.type = "HANDOVER REQUEST" /\ UNCHANGED <<now, ue, rrc>>
    BY Zenon DEF RecvHandoverRequest, Receives
<1>2. PICK c \in Cells : c = m.to.cell
    BY <1>1, Zenon DEF Inv, Names, X2Named
<1>3. PICK p : p = [cell |-> c, rnti |-> NextRnti(c)]
    BY Zenon
<1>4. p.cell = c
    BY <1>3, Zenon
<1>5. /\ p \in Place /\ ~Known(p)
      /\ m_lastAllocatedRnti' = [m_lastAllocatedRnti EXCEPT ![c] = p.rnti] =>
           Grows /\ Known(p)' /\ m_lastAllocatedRnti' \in [Cells -> Nat]
    BY <1>3, Fresh, Zenon DEF Inv
<1>6. CASE /\ x2' = (x2 \ {m}) \cup {X2Message("HANDOVER PREPARATION FAILURE", m.peer, p)}
           /\ \/ m_lastAllocatedRnti' = [m_lastAllocatedRnti EXCEPT ![c] = p.rnti]
              \/ UNCHANGED m_lastAllocatedRnti
           /\ UNCHANGED m_ueMap
    <2>1. Grows /\ m_lastAllocatedRnti' \in [Cells -> Nat]
        <3>1. CASE UNCHANGED m_lastAllocatedRnti
            BY <3>1, Zenon DEF Grows, Known, Inv, Shape
        <3> QED BY <1>5, <1>6, <3>1, Zenon
    <2> QED BY <1>1, <1>6, <2>1, RefuseStep, Zenon
<1>7. CASE /\ x2' = (x2 \ {m}) \cup {X2Message("HANDOVER REQUEST ACK", m.peer, p)}
           /\ m_lastAllocatedRnti' = [m_lastAllocatedRnti EXCEPT ![c] = p.rnti]
           /\ m_ueMap' = Updated(p, [state |-> "HANDOVER_JOINING", joining |-> JoiningTimer,
                                     leaving |-> Never, source |-> m.peer, target |-> Nowhere])
    BY <1>1, <1>5, <1>7, AcceptStep, Zenon
<1> QED BY <1>2, <1>3, <1>4, <1>6, <1>7, Zenon DEF RecvHandoverRequest

\* The target gives up, because its timer ends or because the UE does.
LEMMA GiveUpStep ==
    ASSUME Inv, UNCHANGED <<now, m_lastAllocatedRnti, ue>>, NEW p \in Contexts,
           State(p) = "HANDOVER_JOINING", UeManager(p).joining = now \/ Entered(p),
           m_ueMap' = RemoveUe(p), x2' = x2 \cup {PreparationFailure(p)},
           rrc' \subseteq rrc, Rrc("release") \subseteq Rrc("release")'
    PROVE  Inv'
<1> USE DEF Inv
<1>1. PICK q : q = UeManager(p).source
    BY Zenon
<1>2. PICK n : n = X2Message("HANDOVER PREPARATION FAILURE", q, p) /\ x2' = x2 \cup {n}
    BY <1>1, Zenon DEF PreparationFailure
<1>3. n.type = "HANDOVER PREPARATION FAILURE" /\ n.to = q /\ n.ts = now + X2Delay
    BY <1>2, Zenon DEF X2Message
<1>4. Removed(p) /\ DOMAIN m_ueMap' = Cells
    BY InPlace, Clock, RemoveUeFacts, Zenon
<1>5. Contexts' = Contexts \ {p} /\ \A t \in Contexts' : UeManager(t)' = UeManager(t)
    BY <1>4, Zenon DEF Removed
<1>6. Shape'
    BY <1>4, Zenon DEF Shape, Known
<1>7. Grows
    BY Zenon DEF Grows, Known
<1>8. Names'
    <2>1. X2Named(n)'
        BY <1>1, <1>3, <1>7, Clock, Zenon DEF Names, ContextNamed, X2Named, Grows
    <2> QED BY <1>2, <1>5, <1>7, <2>1, NamesStep, Zenon
<1>9. \A t : Joining(t)' \subseteq Joining(t) \ {p}
    BY <1>5, Zenon DEF Joining, State
<1>10. ASSUME NEW t \in Contexts', t # q PROVE Converses(t)'
    <2>1. Converses(t)
        BY <1>5, Zenon DEF Talk
    <2>2. About(t)' \subseteq About(t)
        BY <1>2, <1>3, <1>10, Zenon DEF About
    <2>3. \A r \in Joining(t)' : UeManager(r)' = UeManager(r)
        BY <1>5, Zenon DEF Joining
    <2>4. Quiet(t)
        BY <1>5, <1>9, <2>1, <2>2, <2>3, Zenon DEF Quiet, Converses, Ack
    <2> QED BY <2>1, <2>4, QuietStep, Zenon
<1>11. ASSUME q \in Contexts' PROVE Converses(q)'
    <2>1. q \in Contexts /\ Converses(q) /\ UeManager(q)' = UeManager(q)
        BY <1>5, <1>11, Zenon DEF Talk
    <2>2. State(q)' = State(q)
        BY <2>1, Zenon DEF State
    <2>3. p \in Joining(q)
        BY <1>1, Zenon DEF Joining
    <2>4. Joining(q)' = {}
        BY <1>9, <2>1, <2>3, Zenon DEF Converses, Target
    <2>5. State(q) \in {"HANDOVER_PREPARATION", "HANDOVER_LEAVING"}
        BY <2>1, <2>3, Zenon DEF Converses, Target
    <2>6. ASSUME NEW a \in About(q)
          PROVE  /\ a.type = "HANDOVER REQUEST ACK" /\ State(q) = "HANDOVER_PREPARATION"
                 /\ a.ts >= now /\ \A k \in About(q) : k = a
                 /\ UeManager(p).joining # Never => a.ts < UeManager(p).joining + X2Delay
        <3>1. ASSUME NEW k \in About(q) PROVE k.type = "HANDOVER REQUEST ACK"
            <4>1. k.type \in {"HANDOVER REQUEST", "HANDOVER REQUEST ACK", "HANDOVER PREPARATION FAILURE"}
                BY Zenon DEF About
            <4> QED BY <2>1, <2>3, <4>1, Zenon DEF Converses, Request, Failure
        <3>2. \A k \in About(q) : k # a => k.type = "HANDOVER PREPARATION FAILURE"
            BY <2>1, <3>1, Zenon DEF Converses, Ack
        <3> QED BY <2>1, <2>3, <3>1, <3>2, Zenon DEF Converses, Ack
    <2>7. ASSUME NEW a \in About(q) PROVE a.ts < n.ts
        <3>1. CASE UeManager(p).joining = now
            <4>1. now # Never
                BY Zenon DEF Shape, Never
            <4> QED BY <1>3, <2>6, <3>1, <4>1, Zenon
        <3>2. CASE Entered(p)
            <4>1. State(q) = "HANDOVER_LEAVING"
                BY <1>1, <2>1, <3>2, Zenon DEF Entries, Left
            <4> QED BY <2>6, <4>1, Zenon
        <3> QED BY <3>1, <3>2, Zenon
    <2>8. \A k \in About(q)' : k \in About(q) \/ k = n
        BY <1>2, Zenon DEF About
    <2>9. Request(q)' /\ Target(q)'
        BY <1>3, <2>4, <2>6, <2>8, Zenon DEF Request, Target
    <2>10. Ack(q)'
        BY <1>3, <2>2, <2>4, <2>6, <2>7, <2>8, Zenon DEF Ack
    <2>11. Failure(q)'
        BY <1>3, <2>2, <2>4, <2>5, <2>6, <2>8, Zenon DEF Failure
    <2> QED BY <2>9, <2>10, <2>11, Zenon DEF Converses
<1>12. Talk'
    BY <1>10, <1>11, Zenon DEF Talk
<1>13. /\ X2("HANDOVER REQUEST ACK")' \subseteq X2("HANDOVER REQUEST ACK")
       /\ X2("UE CONTEXT RELEASE")' \subseteq X2("UE CONTEXT RELEASE")
    BY <1>2, <1>3, Zenon DEF X2
<1>14. \A type : Rrc(type)' \subseteq Rrc(type)
    BY Zenon DEF Rrc
<1>15. ASSUME NEW t, Entered(t)' PROVE Entered(t)
    BY <1>14, <1>15, Zenon DEF Entered
<1>16. Drift /\ NewRelease
    BY <1>5, <1>13, Zenon DEF Drift, Moves, State, NewRelease
<1>17. Invited' \subseteq Invited
    BY <1>13, <1>14, Zenon DEF Invited
<1>18. Invitations'
    BY <1>13, <1>14, <1>15, <1>16, InvitationsStep, Zenon
<1>19. Entries'
    BY <1>15, <1>16, <1>17, EntriesStep, Zenon
<1>20. Safe' /\ Removal'
    <2>1. \A t \in Contexts : Keeps(t)
        BY <1>5, Zenon DEF Keeps, State
    <2>2. Stays
        BY <1>14, Zenon DEF Stays
    <2> QED BY <1>13, <2>1, <2>2, SafeStep, RemovalStep, Zenon
<1> QED BY <1>6, <1>8, <1>12, <1>18, <1>19, <1>20, Zenon

\* HandoverJoiningTimeout()
LEMMA JoiningTimeoutStep == ASSUME Inv, NEW p \in Contexts, HandoverJoiningTimeout(p) PROVE Inv'
<1>1. CASE UeManager(p).state # "HANDOVER_JOINING"
    BY <1>1, AbortStep, Zenon DEF HandoverJoiningTimeout
<1>2. CASE UeManager(p).state = "HANDOVER_JOINING"
    <2>1. /\ x2' = x2 \cup {PreparationFailure(p)} /\ m_ueMap' = RemoveUe(p)
          /\ UNCHANGED <<now, m_lastAllocatedRnti, ue, rrc>> /\ UeManager(p).joining = now
        BY <1>2, Zenon DEF HandoverJoiningTimeout
    <2>2. rrc' \subseteq rrc /\ Rrc("release") \subseteq Rrc("release")'
        BY <2>1, Zenon DEF Rrc
    <2> QED BY <1>2, <2>1, <2>2, GiveUpStep, Zenon DEF State
<1> QED BY <1>1, <1>2, Zenon

\* DoRecvIdealUeContextRemoveRequest()
LEMMA RemoveRequestStep ==
    ASSUME Inv, NEW m \in rrc, RecvIdealUeContextRemoveRequest(m) PROVE Inv'
<1>1. /\ m.type = "remove" /\ rrc' = rrc \ {m} /\ UNCHANGED <<now, m_lastAllocatedRnti, ue>>
      /\ x2' = IF HasUeManager(m.at) /\ UeManager(m.at).state = "HANDOVER_JOINING"
               THEN x2 \cup {PreparationFailure(m.at)} ELSE x2
      /\ m_ueMap' = IF HasUeManager(m.at) THEN RemoveUe(m.at) ELSE m_ueMap
    BY Zenon DEF RecvIdealUeContextRemoveRequest, Receives
<1>2. m \in Rrc("remove") /\ ue = IdleUe /\ Entered(m.at)
    BY <1>1, Zenon DEF Rrc, Inv, Removal, Entered
<1>3. rrc' \subseteq rrc /\ Rrc("release") \subseteq Rrc("release")'
    BY <1>1, Zenon DEF Rrc
<1>4. CASE ~HasUeManager(m.at)
    <2>1. UNCHANGED m_ueMap /\ x2' = x2
        BY <1>1, <1>4, Zenon
    <2>2. AirMessages /\ Stays
        BY <1>1, <1>2, <1>3, Zenon DEF AirMessages, Stays
    <2>3. ue' = [state |-> ue'.state, at |-> ue'.at, until |-> ue'.until]
        BY <1>1, Zenon DEF Inv, Shape
    <2> QED BY <1>1, <2>1, <2>2, <2>3, AirStep, Zenon
<1>5. CASE HasUeManager(m.at)
    <2>1. PICK p \in Contexts : p = m.at
        BY <1>5, Zenon DEF HasUeManager
    <2>2. m_ueMap' = RemoveUe(p)
        BY <1>1, <1>5, <2>1, Zenon
    <2>3. CASE State(p) = "HANDOVER_JOINING"
        <3>1. x2' = x2 \cup {PreparationFailure(p)}
            BY <1>1, <1>5, <2>1, <2>3, Zenon DEF State
        <3> QED BY <1>1, <1>2, <1>3, <2>1, <2>2, <2>3, <3>1, GiveUpStep, Zenon
    <2>4. CASE State(p) # "HANDOVER_JOINING"
        <3>1. x2' = x2
            BY <1>1, <1>5, <2>1, <2>4, Zenon DEF State
        <3> QED BY <1>1, <1>2, <1>3, <2>2, <3>1, ForgetStep, Zenon
    <2> QED BY <2>3, <2>4, Zenon
<1> QED BY <1>4, <1>5, Zenon

-----------------------------------------------------------------------------
(* The theorem.                                                            *)

\* At first the UE is connected, and its context is the only one.
LEMMA InitInv == ASSUME Init PROVE Inv
<1>1. x2 = {} /\ rrc = {} /\ now = 1
    BY Zenon DEF Init
<1>2. PICK c \in Cells : LET p == [cell |-> c, rnti |-> 1] IN
        /\ ue = [state |-> "CONNECTED_NORMALLY", at |-> p, until |-> Never]
        /\ m_ueMap = [d \in Cells |-> IF d # c THEN EmptyMap
                        ELSE Put(EmptyMap, 1, [state |-> "CONNECTED_NORMALLY", joining |-> Never,
                            leaving |-> Never, source |-> Nowhere, target |-> Nowhere])]
        /\ m_lastAllocatedRnti = [d \in Cells |-> IF d = c THEN 1 ELSE 0]
    BY Zenon DEF Init
<1>3. PICK p : p = [cell |-> c, rnti |-> 1]
    BY Zenon
<1>4. PICK x : x = [state |-> "CONNECTED_NORMALLY", joining |-> Never,
                    leaving |-> Never, source |-> Nowhere, target |-> Nowhere]
    BY Zenon
<1>5. /\ ue = [state |-> "CONNECTED_NORMALLY", at |-> p, until |-> Never]
      /\ m_ueMap = [d \in Cells |-> IF d # c THEN EmptyMap ELSE Put(EmptyMap, 1, x)]
      /\ m_lastAllocatedRnti = [d \in Cells |-> IF d = c THEN 1 ELSE 0]
    BY <1>2, <1>3, <1>4, Zenon
<1>6. /\ p.cell = c /\ p.rnti = 1 /\ IsContext(x) /\ x.state = "CONNECTED_NORMALLY"
      /\ p \in Place
    BY <1>3, <1>4 DEF IsContext, Never, Place
<1>7. Known(p) /\ m_lastAllocatedRnti \in [Cells -> Nat] /\ DOMAIN m_ueMap = Cells
    BY <1>5, <1>6 DEF Known
<1>8. \A d \in Cells : \A r \in DOMAIN m_ueMap[d] : d = c /\ r = 1
    BY <1>5, Zenon DEF Put, EmptyMap
<1>9. m_ueMap[c][1] = x /\ 1 \in DOMAIN m_ueMap[c]
    BY <1>5, Zenon DEF Put, EmptyMap
<1>10. \A q \in Contexts : q = p
    BY <1>3, <1>8, InContexts, Zenon DEF Is
<1>11. p \in Contexts
    BY <1>3, <1>9, InContexts, Zenon DEF Is
<1>12. UeManager(p) = x
    BY <1>6, <1>9, Zenon DEF UeManager
<1>13. State(p) = "CONNECTED_NORMALLY"
    BY <1>6, <1>12, Zenon DEF State
<1>14. Shape
    <2>1. ue.at = p /\ ue = [state |-> ue.state, at |-> ue.at, until |-> ue.until]
        BY <1>5
    <2>2. now \in Nat \ {0}
        BY <1>1
    <2> QED BY <1>7, <2>1, <2>2, Zenon DEF Shape
<1>15. Names
    BY <1>1, <1>6, <1>7, <1>10, <1>12, <1>13, Zenon DEF Names, ContextNamed
<1>16. Talk
    <2>1. About(p) = {} /\ Joining(p) = {}
        BY <1>1, <1>10, <1>13, Zenon DEF About, Joining
    <2>2. Converses(p)
        BY <2>1, Zenon DEF Converses, Request, Ack, Failure, Target
    <2> QED BY <1>10, <2>2, Zenon DEF Talk
<1>17. \A type : X2(type) = {} /\ Rrc(type) = {}
    BY <1>1, Zenon DEF X2, Rrc
<1>18. Invitations
    BY <1>17, Zenon DEF Invitations, Invited
<1>19. Entries
    BY <1>10, <1>13, <1>17, Zenon DEF Entries
<1>20. Safe
    <2>1. ue.at = p
        BY <1>5, Zenon
    <2> QED BY <1>11, <1>13, <2>1, Zenon DEF Safe
<1>21. Removal
    BY <1>17, Zenon DEF Removal
<1> QED BY <1>14, <1>15, <1>16, <1>18, <1>19, <1>20, <1>21, Zenon DEF Inv

\* A stuttering step keeps the invariant.
LEMMA StutterInv == ASSUME Inv, UNCHANGED vars PROVE Inv'
<1>1. UNCHANGED <<now, m_ueMap, m_lastAllocatedRnti, ue, x2, rrc>>
    BY Zenon DEF vars, gnbVars
<1>2. ue' = [state |-> ue'.state, at |-> ue'.at, until |-> ue'.until]
    BY <1>1, Zenon DEF Inv, Shape
<1> QED BY <1>1, <1>2, SameAir, AirStep, Zenon

\* Every step keeps the invariant.
LEMMA NextInv == ASSUME Inv, [Next]_vars PROVE Inv'
<1>1. CASE Advance
    BY <1>1, AdvanceStep, Zenon
<1>2. CASE \E p \in Contexts, c \in Cells : TriggerHandover(p, c)
    BY <1>2, TriggerStep, Zenon
<1>3. CASE \E p \in Contexts : HandoverLeavingTimeout(p)
    BY <1>3, LeavingTimeoutStep, Zenon
<1>4. CASE \E p \in Contexts : HandoverJoiningTimeout(p)
    BY <1>4, JoiningTimeoutStep, Zenon
<1>5. CASE \E m \in x2 : RecvHandoverRequest(m)
    BY <1>5, RequestStep, Zenon
<1>6. CASE \E m \in x2 : RecvHandoverRequestAck(m)
    BY <1>6, AckStep, Zenon
<1>7. CASE \E m \in x2 : RecvHandoverPreparationFailure(m)
    BY <1>7, FailureStep, Zenon
<1>8. CASE \E m \in x2 : RecvUeContextRelease(m)
    BY <1>8, ContextReleaseStep, Zenon
<1>9. CASE \E m \in x2 : RecvHandoverCancel(m)
    BY <1>9, CancelStep, Zenon
<1>10. CASE \E m \in x2 : LoseX2Message(m)
    BY <1>10, LoseStep, Zenon
<1>11. CASE \E s \in s1 : PathSwitchRequestAcknowledge(s)
    BY <1>11, PathSwitchStep, Zenon
<1>12. CASE ProcessRaPreambles
    BY <1>12, ResponseStep, Zenon
<1>13. CASE \E m \in rrc : RecvReconfigurationCompleted(m)
    BY <1>13, CompletedStep, Zenon
<1>14. CASE \E m \in rrc : RecvIdealUeContextRemoveRequest(m)
    BY <1>14, RemoveRequestStep, Zenon
<1>15. CASE \E m \in rrc : RecvReconfiguration(m)
    BY <1>15, ReconfigurationStep, Zenon
<1>16. CASE \E m \in rrc : NotifyRandomAccessSuccessful(m)
    BY <1>16, AccessStep, Zenon
<1>17. CASE \E m \in rrc : RecvRrcConnectionRelease(m)
    BY <1>17, ReleaseStep, Zenon
<1>18. CASE NotifyRandomAccessFailed \/ RadioLinkFailureDetected
    BY <1>18, LossStep, Zenon
<1>19. CASE UNCHANGED vars
    BY <1>19, StutterInv, Zenon
<1> QED BY <1>1, <1>2, <1>3, <1>4, <1>5, <1>6, <1>7, <1>8, <1>9, <1>10, <1>11, <1>12, <1>13,
           <1>14, <1>15, <1>16, <1>17, <1>18, <1>19, Zenon DEF Next

\* For any cells, timeouts and delays, whatever the X2 link loses and wherever
\* the radio link fails, a UE that takes itself for connected is known where it
\* is, or a gNB is going to release it: HandoverJoiningTimeout() and
\* HandoverLeavingTimeout() forget no UE that is still connected.
THEOREM UeIsNotStranded == Spec => []UeNotStranded
<1>1. Inv => UeNotStranded
    BY Zenon DEF Inv, Safe, UeNotStranded, HasUeManager, State, Rrc
<1>2. Init => Inv
    BY InitInv
<1>3. Inv /\ [Next]_vars => Inv'
    BY NextInv
<1> QED BY <1>1, <1>2, <1>3, PTL DEF Spec
=============================================================================
