------------------------------ MODULE E2Proofs ------------------------------
(***************************************************************************)
(* Proofs about the E2 interface, for any set of nodes, delays, intervals  *)
(* and script.                                                             *)
(***************************************************************************)
EXTENDS E2, TLAPS

Ids(E) == {e.id : e \in E}

\* E is a queue with events of S only.
Queue(E, S) == \A e \in E : "id" \in DOMAIN e /\ e.id \in S

\* Whatever is done to the queue, an event in it was there before or is one
\* that was scheduled.
LEMMA QueueKept ==
    ASSUME NEW S, NEW E, Queue(E, S), NEW t, NEW i, NEW due, NEW e
    PROVE  /\ Queue(E \ {e}, S)
           /\ Queue(Cancel(E, i), S)
           /\ i \in S => Queue(Post(E, t, i), S)
           /\ i \in S => Queue(Assign(E, t, i), S)
           /\ (\A p \in due : p[2] \in S) => Queue(PostAll(E, due), S)
<1>1. Queue(E \ {e}, S) /\ Queue(Cancel(E, i), S)
    BY Zenon DEF Queue, Cancel
<1>2. ASSUME i \in S, NEW F, Queue(F, S) PROVE Queue(Post(F, t, i), S)
    BY <1>2 DEF Queue, Post, Event
<1>3. Queue(LetGo(E, i), S)
    BY Zenon DEF Queue, LetGo, Held
<1>4. i \in S => Queue(Assign(E, t, i), S)
    BY <1>2, <1>3, Zenon DEF Assign
<1>5. (\A p \in due : p[2] \in S) => Queue(PostAll(E, due), S)
    BY DEF Queue, PostAll, Event
<1> QED BY <1>1, <1>2, <1>4, <1>5, Zenon

-----------------------------------------------------------------------------
(* The database.                                                           *)

DbFields(d) == {"seq", "reg", "ue", "gnb"} \subseteq DOMAIN d /\ d.seq \in Nat

\* Registering a node, of either type, issues at most the identifier that it
\* returns and registers no other.
LEMMA Registered ==
    ASSUME NEW d, DbFields(d), NEW id, NEW x, NEW t,
           NEW r, r = RegisterNodeNrUe(d, id, x, t) \/ r = RegisterNodeNrGnb(d, id, x, t)
    PROVE  /\ {"seq", "reg", "ue", "gnb"} \subseteq DOMAIN r
           /\ r.seq = IF Assigned(d, id) > d.seq THEN Assigned(d, id) ELSE d.seq
           /\ \A j : j # Assigned(d, id) /\ IsNodeRegistered(r, j) => IsNodeRegistered(d, j)
<1> DEFINE q == RegisterNode(d, id, t)
<1>1. /\ {"seq", "reg", "ue", "gnb"} \subseteq DOMAIN q
      /\ q.seq = IF Assigned(d, id) > d.seq THEN Assigned(d, id) ELSE d.seq
      /\ q.reg = Logged(d.reg, Assigned(d, id), TRUE, t)
    BY Zenon DEF DbFields, RegisterNode
<1>2. \A j : j # Assigned(d, id) /\ j \in DOMAIN q.reg /\ q.reg[j].last
               => j \in DOMAIN d.reg /\ d.reg[j].last
    BY <1>1 DEF Logged, Put
<1> HIDE DEF q
<1>3. /\ DOMAIN r = DOMAIN q /\ r.seq = q.seq /\ r.reg = q.reg
    BY <1>1, Zenon DEF RegisterNodeNrUe, RegisterNodeNrGnb, q
<1> QED BY <1>1, <1>2, <1>3, Zenon DEF IsNodeRegistered

\* A row "registered = false" registers no node.
LEMMA LoggedFalse ==
    ASSUME NEW reg, NEW id, NEW t, NEW j,
           j \in DOMAIN Logged(reg, id, FALSE, t), Logged(reg, id, FALSE, t)[j].last
    PROVE  j \in DOMAIN reg /\ reg[j].last
BY Zenon DEF Logged, Put

-----------------------------------------------------------------------------
(* Identifiers.                                                            *)

\* The part of the types that the argument needs.
Shape ==
    /\ DbFields(db)
    /\ DOMAIN m_e2NodeId = Nodes
    /\ DOMAIN m_reports = Nodes
    /\ Queue(events, Ids(events))

\* The database outlives the restarts of the RIC, if there are any.
DatabaseKept == InMemory = FALSE \/ "Stop" \notin Calls

\* A step that takes no identifier away from a node keeps every sound event
\* sound.
LEMMA SoundKept ==
    ASSUME \A id, n : Owned(id, n) => Owned(id, n)', NEW i, Sound(i)
    PROVE  Sound(i)'
BY Zenon DEF Sound

\* The initial state: no terminator is known and no node has an identifier.
LEMMA IdInit == ASSUME Init PROVE Shape /\ IdInv
<1>1. Shape
    BY Zenon DEF Init, Shape, DbFields, EmptyDb, Queue
<1>2. IdInv
    BY Zenon DEF Init, IdInv, EmptyDb, EmptyMap, IsNodeRegistered
<1> QED BY <1>1, <1>2, Zenon

\* A step that changes none of this keeps it.
LEMMA IdKept ==
    ASSUME Shape, IdInv,
           UNCHANGED <<db, events, m_nodeTerminators, m_e2NodeId, m_reports, saved>>
    PROVE  Shape' /\ IdInv'
<1>1. \A id, n : Owned(id, n)' <=> Owned(id, n)
    BY Zenon DEF Owned
<1>2. Shape'
    BY Zenon DEF Shape, DbFields, Queue, Ids
<1>3. IdInv'
    BY <1>1, SoundKept, Zenon DEF IdInv, IsNodeRegistered
<1> QED BY <1>2, <1>3, Zenon

\* What is left to show of a step that changes neither the terminators nor
\* the database.
LEMMA QuietStep ==
    ASSUME Shape, IdInv, UNCHANGED <<db, m_nodeTerminators>>,
           NEW S, Queue(events', Ids(events) \cup S), \A i \in S : Sound(i),
           DOMAIN m_e2NodeId' = Nodes,
           \A n \in Nodes : m_e2NodeId'[n] = 0 \/ Owned(m_e2NodeId'[n], n),
           DOMAIN m_reports' = Nodes,
           \A n \in Nodes : \A r \in m_reports'[n] : r.id = 0 \/ Owned(r.id, r.node),
           \A r \in saved' : Owned(r.id, r.node)
    PROVE  Shape' /\ IdInv'
<1>1. \A id, n : Owned(id, n)' <=> Owned(id, n)
    BY Zenon DEF Owned
<1>2. \A i : Sound(i) => Sound(i)'
    BY <1>1, SoundKept, Zenon
<1>3. \A e \in events' : Sound(e.id)'
    BY <1>2, Zenon DEF Queue, Ids, IdInv
<1>4. Shape'
    BY Zenon DEF Shape, DbFields, Queue, Ids
<1>5. IdInv'
    BY <1>1, <1>3, Zenon DEF IdInv, IsNodeRegistered
<1> QED BY <1>4, <1>5, Zenon

\* Register() sends a request with the node's own identifier.
LEMMA RegisteringKept ==
    ASSUME Shape, IdInv, NEW n \in Nodes, NEW E, NEW d
    PROVE  LET S == {RegisterMember(n), RegistrationRequest(n, m_e2NodeId[n])}
           IN  /\ Queue(E, Ids(events)) => Queue(Registering(n, E, d), Ids(events) \cup S)
               /\ \A i \in S : Sound(i)
<1> DEFINE S == {RegisterMember(n), RegistrationRequest(n, m_e2NodeId[n])}
           T == Ids(events) \cup S
           E1 == Cancel(E, RegisterMember(n))
           E2 == Post(E1, now + d, RegistrationRequest(n, m_e2NodeId[n]))
<1>1. ASSUME Queue(E, Ids(events)) PROVE Queue(Registering(n, E, d), T)
    <2>1. Queue(E, T)
        BY <1>1, Zenon DEF Queue
    <2>2. Queue(E1, T)
        BY <2>1, QueueKept, Zenon
    <2>3. Queue(E2, T)
        <3> HIDE DEF E1
        <3> QED BY <2>2, QueueKept, Zenon
    <2>4. Queue(Post(E2, now + RegistrationInterval, RegisterMember(n)), T)
        <3> HIDE DEF E2
        <3> QED BY <2>3, QueueKept, Zenon
    <2> QED BY <2>4, Zenon DEF Registering
<1>2. \A i \in S : Sound(i)
    BY DEF Sound, RegisterMember, RegistrationRequest, IdInv
<1> QED BY <1>1, <1>2, Zenon

\* The steps of the node keep the invariant.
LEMMA NodeStep ==
    ASSUME Shape, IdInv,
           \/ Advance
           \/ \E n \in Nodes : ActivateNode(n) \/ DeactivateNode(n)
           \/ \E e \in events : \/ Ignored(e) \/ RegisterEvent(e)
                                \/ RegistrationResponseEvent(e)
                                \/ DeregistrationResponseEvent(e)
                                \/ TriggerEvent(e) \/ SendEvent(e)
    PROVE  Shape' /\ IdInv'
<1> DEFINE Q == Ids(events)
<1>a. /\ Queue(events, Q)
      /\ \A e \in events : Queue(events \ {e}, Q)
      /\ DOMAIN m_e2NodeId = Nodes /\ DOMAIN m_reports = Nodes
    BY QueueKept, Zenon DEF Shape
<1>b. /\ \A n \in Nodes : m_e2NodeId[n] = 0 \/ Owned(m_e2NodeId[n], n)
      /\ \A n \in Nodes : \A r \in m_reports[n] : r.id = 0 \/ Owned(r.id, r.node)
      /\ \A r \in saved : Owned(r.id, r.node)
      /\ \A e \in events : Sound(e.id)
    BY Zenon DEF IdInv
<1>1. CASE Advance
    <2> DEFINE U == {}
    <2>1. Queue(events', Q \cup U) /\ \A i \in U : Sound(i)
        BY <1>1, <1>a, Zenon DEF Advance, Queue
    <2> HIDE DEF U
    <2>2. UNCHANGED <<db, m_nodeTerminators, m_e2NodeId, m_reports, saved>>
        BY <1>1, Zenon DEF Advance, ricVars, nodeVars
    <2> QED BY <1>a, <1>b, <2>1, <2>2, QuietStep, Zenon
<1>2. ASSUME NEW n \in Nodes, ActivateNode(n) PROVE Shape' /\ IdInv'
    <2> DEFINE S == {RegisterMember(n), RegistrationRequest(n, m_e2NodeId[n])}
    <2> PICK d \in Delays : events' =
              IF hasTrigger[n]
              THEN Assign(Registering(n, events, d), now + TriggerInterval, TriggerMember(n))
              ELSE Registering(n, events, d)
        BY <1>2, Zenon DEF ActivateNode
    <2>1. Queue(Registering(n, events, d), Q \cup S) /\ \A i \in S : Sound(i)
        BY <1>a, RegisteringKept, Zenon
    <2> DEFINE U == S \cup {TriggerMember(n)}
    <2>2. \A i \in U : Sound(i)
        BY <2>1 DEF Sound, TriggerMember
    <2>3. Queue(Registering(n, events, d), Q \cup U)
        BY <2>1, Zenon DEF Queue
    <2>4. Queue(Assign(Registering(n, events, d), now + TriggerInterval, TriggerMember(n)),
                Q \cup U)
        BY <2>3, QueueKept, Zenon
    <2>5. Queue(events', Q \cup U)
        BY <2>3, <2>4, Zenon
    <2>6. /\ DOMAIN m_reports' = Nodes
          /\ \A m \in Nodes : \A r \in m_reports'[m] : r.id = 0 \/ Owned(r.id, r.node)
        BY <1>2, <1>a, <1>b, Zenon DEF ActivateNode
    <2>7. UNCHANGED <<db, m_nodeTerminators, m_e2NodeId, saved>>
        BY <1>2, Zenon DEF ActivateNode, ricVars
    <2> HIDE DEF U
    <2> QED BY <1>a, <1>b, <2>2, <2>5, <2>6, <2>7, QuietStep, Zenon
<1>3. ASSUME NEW n \in Nodes, DeactivateNode(n) PROVE Shape' /\ IdInv'
    <2> DEFINE E == IF reporterActive[n] THEN Cancel(events, TriggerMember(n)) ELSE events
               F == Cancel(Cancel(E, SendMember(n)), RegisterMember(n))
               U == {DeregistrationRequest(m_e2NodeId[n])}
    <2> PICK d \in Delays :
            events' = Post(F, now + d, DeregistrationRequest(m_e2NodeId[n]))
        BY <1>3, Zenon DEF DeactivateNode
    <2>1. Queue(E, Q)
        BY <1>a, QueueKept, Zenon
    <2> HIDE DEF E
    <2>2. Queue(Cancel(E, SendMember(n)), Q)
        BY <2>1, QueueKept, Zenon
    <2>3. Queue(F, Q)
        BY <2>2, QueueKept, Zenon
    <2> HIDE DEF F
    <2>4. Queue(F, Q \cup U)
        BY <2>3, Zenon DEF Queue
    <2>5. Queue(events', Q \cup U)
        BY <2>4, QueueKept, Zenon
    <2>6. \A i \in U : Sound(i)
        BY DEF Sound, DeregistrationRequest
    <2>7. UNCHANGED <<db, m_nodeTerminators, m_e2NodeId, m_reports, saved>>
        BY <1>3, Zenon DEF DeactivateNode, ricVars
    <2> HIDE DEF U
    <2> QED BY <1>a, <1>b, <2>5, <2>6, <2>7, QuietStep, Zenon
<1>4. ASSUME NEW e \in events, Ignored(e) PROVE Shape' /\ IdInv'
    <2> DEFINE U == {}
    <2>1. Queue(events', Q \cup U) /\ \A i \in U : Sound(i)
        BY <1>4, <1>a, Zenon DEF Ignored, Queue
    <2> HIDE DEF U
    <2>2. UNCHANGED <<db, m_nodeTerminators, m_e2NodeId, m_reports, saved>>
        BY <1>4, Zenon DEF Ignored, ricVars, nodeVars
    <2> QED BY <1>a, <1>b, <2>1, <2>2, QuietStep, Zenon
<1>5. ASSUME NEW e \in events, RegisterEvent(e) PROVE Shape' /\ IdInv'
    <2> DEFINE n == e.id[2]
               S == {RegisterMember(n), RegistrationRequest(n, m_e2NodeId[n])}
    <2>1. n \in Nodes
        BY <1>5, <1>b, Zenon DEF RegisterEvent, Kind, Sound
    <2> PICK d \in Delays : events' = Registering(n, events \ {e}, d)
        BY <1>5, Zenon DEF RegisterEvent, Node
    <2> HIDE DEF n
    <2>2. Queue(events', Q \cup S) /\ \A i \in S : Sound(i)
        BY <1>a, <2>1, RegisteringKept, Zenon
    <2>3. UNCHANGED <<db, m_nodeTerminators, m_e2NodeId, m_reports, saved>>
        BY <1>5, Zenon DEF RegisterEvent, ricVars, nodeVars
    <2> HIDE DEF S
    <2> QED BY <1>a, <1>b, <2>2, <2>3, QuietStep, Zenon
<1>6. ASSUME NEW e \in events, RegistrationResponseEvent(e) PROVE Shape' /\ IdInv'
    <2> DEFINE n == e.id[2]
               id == e.id[3]
               U == {TriggerMember(n), SendMember(n)}
               E == Assign(events \ {e}, now + TriggerInterval, TriggerMember(n))
    <2>1. n \in Nodes /\ Owned(id, n)
        BY <1>6, <1>b, Zenon DEF RegistrationResponseEvent, Kind, Sound
    <2>2. /\ m_e2NodeId' = [m_e2NodeId EXCEPT ![n] = id]
          /\ \/ m_reports' = [m_reports EXCEPT ![n] = @ \cup {Report(n, id)}]
             \/ m_reports' = [m_reports EXCEPT ![n] = @]
          /\ \/ events' = Assign(E, now + SendInterval, SendMember(n))
             \/ events' = Assign(events \ {e}, now + SendInterval, SendMember(n))
          /\ UNCHANGED <<db, m_nodeTerminators, saved>>
        BY <1>6, Zenon DEF RegistrationResponseEvent, Node, Argument, ricVars
    <2> HIDE DEF n, id
    <2>3. \A i \in U : Sound(i)
        BY <2>1 DEF Sound, TriggerMember, SendMember
    <2>4. Queue(events \ {e}, Q \cup U)
        BY <1>a, Zenon DEF Queue
    <2>5. Queue(E, Q \cup U)
        BY <2>4, QueueKept, Zenon
    <2> HIDE DEF E
    <2>6. Queue(events', Q \cup U)
        <3>1. Queue(Assign(E, now + SendInterval, SendMember(n)), Q \cup U)
            BY <2>5, QueueKept, Zenon
        <3>2. Queue(Assign(events \ {e}, now + SendInterval, SendMember(n)), Q \cup U)
            BY <2>4, QueueKept, Zenon
        <3> QED BY <2>2, <3>1, <3>2, Zenon
    <2>7. /\ DOMAIN m_e2NodeId' = Nodes
          /\ \A m \in Nodes : m_e2NodeId'[m] = 0 \/ Owned(m_e2NodeId'[m], m)
        BY <1>a, <1>b, <2>1, <2>2, Zenon
    <2>8. /\ DOMAIN m_reports' = Nodes
          /\ \A m \in Nodes : \A r \in m_reports'[m] : r.id = 0 \/ Owned(r.id, r.node)
        <3>1. Report(n, id).id = id /\ Report(n, id).node = n
            BY Zenon DEF Report
        <3>2. \A m \in Nodes : m_reports'[m] \subseteq m_reports[m] \cup {Report(n, id)}
            BY <1>a, <2>1, <2>2, Zenon
        <3> QED BY <1>a, <1>b, <2>1, <2>2, <3>1, <3>2, Zenon
    <2> HIDE DEF U
    <2> QED BY <1>a, <1>b, <2>2, <2>3, <2>6, <2>7, <2>8, QuietStep, Zenon
<1>7. ASSUME NEW e \in events, DeregistrationResponseEvent(e) PROVE Shape' /\ IdInv'
    <2>1. /\ \/ m_e2NodeId' = m_e2NodeId
             \/ m_e2NodeId' = [m_e2NodeId EXCEPT ![e.id[2]] = 0]
          /\ events' = events \ {e}
          /\ UNCHANGED <<db, m_nodeTerminators, m_reports, saved>>
        BY <1>7, Zenon DEF DeregistrationResponseEvent, Node, ricVars
    <2> DEFINE U == {}
    <2>2. Queue(events', Q \cup U) /\ \A i \in U : Sound(i)
        BY <1>a, <2>1, Zenon DEF Queue
    <2> HIDE DEF U
    <2>3. /\ DOMAIN m_e2NodeId' = Nodes
          /\ \A m \in Nodes : m_e2NodeId'[m] = 0 \/ Owned(m_e2NodeId'[m], m)
        BY <1>a, <1>b, <2>1, Zenon
    <2> QED BY <1>a, <1>b, <2>1, <2>2, <2>3, QuietStep, Zenon
<1>8. ASSUME NEW e \in events, TriggerEvent(e) PROVE Shape' /\ IdInv'
    <2> DEFINE n == e.id[2]
               U == {TriggerMember(n)}
    <2>1. n \in Nodes
        BY <1>8, <1>b, Zenon DEF TriggerEvent, Kind, Sound
    <2>2. /\ \/ m_reports' = m_reports
             \/ m_reports' = [m_reports EXCEPT ![n] = @ \cup {Report(n, m_e2NodeId[n])}]
          /\ \/ events' = events \ {e}
             \/ events' = Assign(events \ {e}, now + TriggerInterval, TriggerMember(n))
          /\ UNCHANGED <<db, m_nodeTerminators, m_e2NodeId, saved>>
        BY <1>8, Zenon DEF TriggerEvent, Node, ricVars
    <2> HIDE DEF n
    <2>3. \A i \in U : Sound(i)
        BY <2>1 DEF Sound, TriggerMember
    <2>4. Queue(events \ {e}, Q \cup U)
        BY <1>a, Zenon DEF Queue
    <2>5. Queue(events', Q \cup U)
        <3>1. Queue(Assign(events \ {e}, now + TriggerInterval, TriggerMember(n)), Q \cup U)
            BY <2>4, QueueKept, Zenon
        <3> QED BY <2>2, <2>4, <3>1, Zenon
    <2>6. /\ DOMAIN m_reports' = Nodes
          /\ \A m \in Nodes : \A r \in m_reports'[m] : r.id = 0 \/ Owned(r.id, r.node)
        <3>1. Report(n, m_e2NodeId[n]).id = m_e2NodeId[n] /\ Report(n, m_e2NodeId[n]).node = n
            BY Zenon DEF Report
        <3>2. \A m \in Nodes :
                  m_reports'[m] \subseteq m_reports[m] \cup {Report(n, m_e2NodeId[n])}
            BY <1>a, <2>1, <2>2, Zenon
        <3> QED BY <1>a, <1>b, <2>1, <2>2, <3>1, <3>2, Zenon
    <2> HIDE DEF U
    <2> QED BY <1>a, <1>b, <2>2, <2>3, <2>5, <2>6, QuietStep, Zenon
<1>9. ASSUME NEW e \in events, SendEvent(e) PROVE Shape' /\ IdInv'
    <2> DEFINE n == e.id[2]
    <2>1. n \in Nodes
        BY <1>9, <1>b, Zenon DEF SendEvent, Kind, Sound
    <2>2. /\ m_reports' = [m_reports EXCEPT ![n] = {}]
          /\ UNCHANGED <<db, m_nodeTerminators, m_e2NodeId, saved>>
        BY <1>9, Zenon DEF SendEvent, Node, ricVars
    <2> PICK delay \in [m_reports[n] -> Delays] :
            events' = Assign(PostAll(events \ {e},
                                     {<<now + delay[r], ReportMessage(r)>> : r \in m_reports[n]}),
                             now + SendInterval, SendMember(n))
        BY <1>9, Zenon DEF SendEvent, Node
    <2> HIDE DEF n
    <2> DEFINE due == {<<now + delay[r], ReportMessage(r)>> : r \in m_reports[n]}
               U == {ReportMessage(r) : r \in m_reports[n]} \cup {SendMember(n)}
    <2>3. \A i \in U : Sound(i)
        <3>1. \A r \in m_reports[n] : Sound(ReportMessage(r))
            BY <1>b, <2>1, Zenon DEF Sound, ReportMessage
        <3>2. Sound(SendMember(n))
            BY <2>1, Zenon DEF Sound, SendMember
        <3> QED BY <3>1, <3>2, Zenon
    <2>4. Queue(events \ {e}, Q \cup U)
        BY <1>a, Zenon DEF Queue
    <2>5. \A p \in due : p[2] \in Q \cup U
        OBVIOUS
    <2>6. SendMember(n) \in Q \cup U
        BY Zenon
    <2> HIDE DEF due, U
    <2>7. Queue(PostAll(events \ {e}, due), Q \cup U)
        BY <2>4, <2>5, QueueKept, Zenon
    <2>8. Queue(events', Q \cup U)
        BY <2>6, <2>7, QueueKept, Zenon DEF due
    <2>9. /\ DOMAIN m_reports' = Nodes
          /\ \A m \in Nodes : \A r \in m_reports'[m] : r.id = 0 \/ Owned(r.id, r.node)
        BY <1>a, <1>b, <2>2, Zenon
    <2> QED BY <1>a, <1>b, <2>2, <2>3, <2>8, <2>9, QuietStep, Zenon
<1> QED BY <1>1, <1>2, <1>3, <1>4, <1>5, <1>6, <1>7, <1>8, <1>9, Zenon

\* A registration request is answered with the node's own identifier: the one
\* it sent, or one that no node has.
LEMMA RegistrationStep ==
    ASSUME Shape, IdInv, NEW e \in events, RegistrationRequestEvent(e)
    PROVE  Shape' /\ IdInv'
<1> DEFINE n == e.id[2]
           id == e.id[3]
<1> PICK new : new = Assigned(db, id)
    BY Zenon
<1> DEFINE U == {RegistrationResponse(n, new)}
<1>1. /\ db' = RegisterNodeNrUe(db, id, n, now) \/ db' = RegisterNodeNrGnb(db, id, n, now)
      /\ m_nodeTerminators' = Put(m_nodeTerminators, new, n)
      /\ UNCHANGED <<m_e2NodeId, m_reports, saved>>
    BY Zenon DEF RegistrationRequestEvent, Node, Argument, nodeVars
<1>2. n \in Nodes /\ (id = 0 \/ Owned(id, n))
    BY Zenon DEF RegistrationRequestEvent, IdInv, Kind, Sound
<1>3. Queue(events', Ids(events) \cup U)
    <2>1. PICK d \in Delays :
              events' = Post(events \ {e}, now + d, RegistrationResponse(n, new))
        BY Zenon DEF RegistrationRequestEvent, Node, Argument
    <2>2. Queue(events \ {e}, Ids(events) \cup U)
        BY Zenon DEF Shape, Queue
    <2> QED BY <2>1, <2>2, QueueKept, Zenon
<1> HIDE DEF n, id
<1>4. DbFields(db)
    BY Zenon DEF Shape
<1>5. /\ {"seq", "reg", "ue", "gnb"} \subseteq DOMAIN db'
      /\ db'.seq = IF new > db.seq THEN new ELSE db.seq
      /\ \A j : j # new /\ IsNodeRegistered(db', j) => IsNodeRegistered(db, j)
    <2> PICK d, r, t : d = db /\ r = db' /\ t = now
        BY Zenon
    <2>1. /\ DbFields(d)
          /\ r = RegisterNodeNrUe(d, id, n, t) \/ r = RegisterNodeNrGnb(d, id, n, t)
        BY <1>1, <1>4, Zenon
    <2>2. /\ {"seq", "reg", "ue", "gnb"} \subseteq DOMAIN r
          /\ r.seq = IF Assigned(d, id) > d.seq THEN Assigned(d, id) ELSE d.seq
          /\ \A j : j # Assigned(d, id) /\ IsNodeRegistered(r, j) => IsNodeRegistered(d, j)
        <3>1. {"seq", "reg", "ue", "gnb"} \subseteq DOMAIN r
            BY <2>1, Registered
        <3>2. r.seq = IF Assigned(d, id) > d.seq THEN Assigned(d, id) ELSE d.seq
            BY <2>1, Registered
        <3>3. \A j : j # Assigned(d, id) /\ IsNodeRegistered(r, j) => IsNodeRegistered(d, j)
            BY <2>1, Registered, Zenon
        <3> QED BY <3>1, <3>2, <3>3, Zenon
    <2> QED BY <2>2, Zenon
<1>6. /\ new \in Nat \ {0}
      /\ new \in DOMAIN m_nodeTerminators => m_nodeTerminators[new] = n
    BY <1>2, <1>4 DEF Assigned, DbFields, IdInv, Owned
<1>7. Owned(new, n)' /\ \A i, m : Owned(i, m) => Owned(i, m)'
    <2>1. /\ DOMAIN m_nodeTerminators' = DOMAIN m_nodeTerminators \cup {new}
          /\ m_nodeTerminators'[new] = n
          /\ \A i \in DOMAIN m_nodeTerminators : i # new =>
                 m_nodeTerminators'[i] = m_nodeTerminators[i]
        BY <1>1, Zenon DEF Put
    <2> QED BY <1>6, <2>1, Zenon DEF Owned
<1>8. \A i \in DOMAIN m_nodeTerminators' : i \in 1..db'.seq
    <2>1. db.seq \in Nat /\ db'.seq \in Nat /\ new <= db'.seq /\ db.seq <= db'.seq
        BY <1>4, <1>5, <1>6 DEF DbFields
    <2>2. DOMAIN m_nodeTerminators' = DOMAIN m_nodeTerminators \cup {new}
        BY <1>1, Zenon DEF Put
    <2> QED BY <2>1, <2>2, <1>6 DEF IdInv
<1>9. \A f \in events' : Sound(f.id)'
    <2>1. \A i \in U : Sound(i)'
        BY <1>2, <1>7 DEF Sound, RegistrationResponse
    <2>2. \A f \in events : Sound(f.id)'
        BY <1>7, SoundKept, Zenon DEF IdInv
    <2> HIDE DEF U
    <2> QED BY <1>3, <2>1, <2>2, Zenon DEF Queue, Ids
<1>10. ~IsNodeRegistered(db', 0)
    BY <1>5, <1>6, Zenon DEF IdInv
<1>11. Shape'
    BY <1>1, <1>3, <1>4, <1>5, <1>6, Zenon DEF Shape, DbFields, Queue, Ids
<1>12. IdInv'
    BY <1>1, <1>7, <1>8, <1>9, <1>10, Zenon DEF IdInv, IsNodeRegistered
<1> QED BY <1>11, <1>12, Zenon

\* Deregistering a node issues no identifier and registers no node.
LEMMA DeregisteredOne ==
    ASSUME NEW d, DbFields(d), NEW t, NEW r, NEW id, r = DeregisterNode(d, id, t)
    PROVE  DbFields(r) /\ r.seq = d.seq
           /\ \A j : IsNodeRegistered(r, j) => IsNodeRegistered(d, j)
<1>1. DbFields(r) /\ r.seq = d.seq /\ r.reg = Logged(d.reg, id, FALSE, t)
    BY Zenon DEF DbFields, DeregisterNode
<1> QED BY <1>1, LoggedFalse, Zenon DEF IsNodeRegistered

\* The same of the nodes that CheckForInactivity() deregisters.
LEMMA DeregisteredAll ==
    ASSUME NEW d, DbFields(d), NEW t, NEW r, NEW ids,
           r = DeregisterNodes(d, ids, t)
    PROVE  DbFields(r) /\ r.seq = d.seq
           /\ \A j : IsNodeRegistered(r, j) => IsNodeRegistered(d, j)
<1>1. /\ DbFields(r) /\ r.seq = d.seq
      /\ r.reg = [id \in DOMAIN d.reg |->
                     IF id \in ids THEN Logged(d.reg, id, FALSE, t)[id] ELSE d.reg[id]]
    BY Zenon DEF DbFields, DeregisterNodes
<1>2. ASSUME NEW j, IsNodeRegistered(r, j) PROVE IsNodeRegistered(d, j)
    <2>1. j \in DOMAIN d.reg
        BY <1>1, <1>2, Zenon DEF IsNodeRegistered
    <2>2. CASE j \in ids
        <3>1. Logged(d.reg, j, FALSE, t)[j].last
            BY <1>1, <1>2, <2>1, <2>2, Zenon DEF IsNodeRegistered
        <3>2. j \in DOMAIN Logged(d.reg, j, FALSE, t)
            BY <2>1, Zenon DEF Logged, Put
        <3> QED BY <3>1, <3>2, LoggedFalse, Zenon DEF IsNodeRegistered
    <2>3. CASE j \notin ids
        BY <1>1, <1>2, <2>1, <2>3, Zenon DEF IsNodeRegistered
    <2> QED BY <2>2, <2>3, Zenon
<1> QED BY <1>1, <1>2, Zenon

\* What is left to show of a step of the RIC that registers no node.
LEMMA RicStep ==
    ASSUME Shape, IdInv, UNCHANGED <<m_nodeTerminators, m_e2NodeId, m_reports>>,
           NEW S, Queue(events', Ids(events) \cup S), \A i \in S : Sound(i),
           DbFields(db'), db'.seq = db.seq, ~IsNodeRegistered(db', 0),
           \A r \in saved' : Owned(r.id, r.node)
    PROVE  Shape' /\ IdInv'
<1>1. \A id, n : Owned(id, n)' <=> Owned(id, n)
    BY Zenon DEF Owned
<1>2. \A i : Sound(i) => Sound(i)'
    BY <1>1, SoundKept, Zenon
<1>3. \A e \in events' : Sound(e.id)'
    BY <1>2, Zenon DEF Queue, Ids, IdInv
<1>4. Shape'
    BY Zenon DEF Shape, Queue, Ids
<1>5. IdInv'
    BY <1>1, <1>3, Zenon DEF IdInv
<1> QED BY <1>4, <1>5, Zenon

\* The other steps of the RIC keep the invariant, if the database outlives
\* its restarts.
LEMMA OtherRicSteps ==
    ASSUME Shape, IdInv, DatabaseKept,
           \/ Start \/ Stop
           \/ \E e \in events : \/ DeregistrationRequestEvent(e)
                                \/ ReportEvent(e)
                                \/ CheckForInactivity(e)
    PROVE  Shape' /\ IdInv'
<1> DEFINE Q == Ids(events)
<1>a. /\ Queue(events, Q)
      /\ \A e \in events : Queue(events \ {e}, Q)
      /\ DbFields(db)
    BY QueueKept, Zenon DEF Shape
<1>b. /\ ~IsNodeRegistered(db, 0)
      /\ \A r \in saved : Owned(r.id, r.node)
    BY Zenon DEF IdInv
<1>1. CASE Start
    <2> DEFINE U == {LmQueryMember, InactivityMember}
               E == Post(events, now + LmQueryInterval, LmQueryMember)
    <2>1. \A i \in U : Sound(i)
        BY DEF Sound, LmQueryMember, InactivityMember
    <2>2. Queue(events, Q \cup U)
        BY <1>a, Zenon DEF Queue
    <2>3. Queue(E, Q \cup U)
        BY <2>2, QueueKept, Zenon
    <2>4. /\ events' = Post(E, now + InactivityInterval, InactivityMember)
          /\ UNCHANGED <<db, m_nodeTerminators, m_e2NodeId, m_reports, saved>>
        BY <1>1, Zenon DEF Start, nodeVars
    <2> HIDE DEF E
    <2>5. Queue(events', Q \cup U)
        BY <2>3, <2>4, QueueKept, Zenon
    <2> HIDE DEF U
    <2> QED BY <1>a, <1>b, <2>1, <2>4, <2>5, RicStep, Zenon
<1>2. CASE Stop
    <2> DEFINE U == {}
    <2>1. /\ events' = Cancel(Cancel(events, LmQueryMember), InactivityMember)
          /\ UNCHANGED <<db, m_nodeTerminators, m_e2NodeId, m_reports, saved>>
        BY <1>2, Zenon DEF Stop, Call, DatabaseKept, nodeVars
    <2>2. Queue(Cancel(events, LmQueryMember), Q)
        BY <1>a, QueueKept, Zenon
    <2>3. Queue(events', Q)
        BY <2>1, <2>2, QueueKept, Zenon
    <2>4. Queue(events', Q \cup U) /\ \A i \in U : Sound(i)
        BY <2>3, Zenon DEF Queue
    <2> HIDE DEF U
    <2> QED BY <1>a, <1>b, <2>1, <2>4, RicStep, Zenon
<1>3. ASSUME NEW e \in events, DeregistrationRequestEvent(e) PROVE Shape' /\ IdInv'
    <2> PICK n : n = Terminator(e.id[3])
        BY Zenon
    <2> DEFINE U == {DeregistrationResponse(n)}
    <2>1. /\ db' = DeregisterNode(db, e.id[3], now)
          /\ \E d : events' = Post(events \ {e}, now + d, DeregistrationResponse(n))
          /\ UNCHANGED <<m_nodeTerminators, m_e2NodeId, m_reports, saved>>
        BY <1>3, Zenon DEF DeregistrationRequestEvent, Argument, nodeVars
    <2>2. \A i \in U : Sound(i)
        BY DEF Sound, DeregistrationResponse
    <2>3. Queue(events', Q \cup U)
        <3>1. Queue(events \ {e}, Q \cup U)
            BY <1>a, Zenon DEF Queue
        <3>2. PICK d : events' = Post(events \ {e}, now + d, DeregistrationResponse(n))
            BY <2>1, Zenon
        <3> QED BY <3>1, <3>2, QueueKept, Zenon
    <2>4. DbFields(db') /\ db'.seq = db.seq /\ ~IsNodeRegistered(db', 0)
        <3> PICK d, r, t : d = db /\ r = db' /\ t = now
            BY Zenon
        <3>1. DbFields(d) /\ r = DeregisterNode(d, e.id[3], t)
            BY <1>a, <2>1, Zenon
        <3>2. DbFields(r) /\ r.seq = d.seq
            BY <3>1, DeregisteredOne
        <3>3. \A j : IsNodeRegistered(r, j) => IsNodeRegistered(d, j)
            BY <3>1, DeregisteredOne
        <3> QED BY <1>b, <3>2, <3>3, Zenon
    <2> HIDE DEF U
    <2> QED BY <1>b, <2>1, <2>2, <2>3, <2>4, RicStep, Zenon
<1>4. ASSUME NEW e \in events, ReportEvent(e) PROVE Shape' /\ IdInv'
    <2> DEFINE U == {}
    <2>1. /\ events' = events \ {e}
          /\ UNCHANGED <<db, m_nodeTerminators, m_e2NodeId, m_reports>>
        BY <1>4, Zenon DEF ReportEvent, ricVars, nodeVars
    <2>2. \A r \in saved' : Owned(r.id, r.node)
        <3>1. e.id[3].id = 0 \/ Owned(e.id[3].id, e.id[3].node)
            BY <1>4, Zenon DEF IdInv, Sound, ReportEvent, Kind
        <3>2. saved' = saved \/ (IsNodeRegistered(db, e.id[3].id) /\ saved' = saved \cup {e.id[3]})
            BY <1>4, Zenon DEF ReportEvent, Argument
        <3> QED BY <1>b, <3>1, <3>2, Zenon
    <2>3. Queue(events', Q \cup U) /\ \A i \in U : Sound(i)
        BY <1>a, <2>1, Zenon DEF Queue
    <2> HIDE DEF U
    <2> QED BY <1>a, <1>b, <2>1, <2>2, <2>3, RicStep, Zenon
<1>5. ASSUME NEW e \in events, CheckForInactivity(e) PROVE Shape' /\ IdInv'
    <2> DEFINE E == Cancel(events \ {e}, InactivityMember)
               Due(silent, delay) ==
                   {<<now + delay[id], DeregistrationResponse(Terminator(id))>> : id \in silent}
               Checked(silent, delay) ==
                   Post(PostAll(E, Due(silent, delay)), now + InactivityInterval, InactivityMember)
    <2>1. PICK silent, delay :
            /\ db' = DeregisterNodes(db, silent, now)
            /\ \/ events' = Post(Checked(silent, delay), now + LmQueryInterval, LmQueryMember)
               \/ events' = Checked(silent, delay)
        <3>1. PICK listed \in GetLastRegistrationRequests(db) :
                \E delay \in [{id \in listed : now > db.reg[id].time + Threshold} -> Delays] :
                    /\ db' = DeregisterNodes(db, DOMAIN delay, now)
                    /\ events' =
                         IF e.id = LmQueryMember
                         THEN Post(Checked(DOMAIN delay, delay), now + LmQueryInterval, LmQueryMember)
                         ELSE Checked(DOMAIN delay, delay)
            BY <1>5, Zenon DEF CheckForInactivity
        <3>2. PICK delay \in [{id \in listed : now > db.reg[id].time + Threshold} -> Delays] :
                /\ db' = DeregisterNodes(db, DOMAIN delay, now)
                /\ \/ events' = Post(Checked(DOMAIN delay, delay),
                                     now + LmQueryInterval, LmQueryMember)
                   \/ events' = Checked(DOMAIN delay, delay)
            BY <3>1, Zenon
        <3> HIDE DEF Checked
        <3> QED BY <3>2, Zenon
    <2> DEFINE due == Due(silent, delay)
               U == {LmQueryMember, InactivityMember}
                      \cup {DeregistrationResponse(Terminator(id)) : id \in silent}
    <2>2. UNCHANGED <<m_nodeTerminators, m_e2NodeId, m_reports, saved>>
        BY <1>5, Zenon DEF CheckForInactivity, nodeVars
    <2>3. \A i \in U : Sound(i)
        BY DEF Sound, LmQueryMember, InactivityMember, DeregistrationResponse
    <2>4. Queue(events', Q \cup U)
        <3>1. Queue(events \ {e}, Q \cup U)
            BY <1>a, Zenon DEF Queue
        <3>2. Queue(E, Q \cup U)
            BY <3>1, QueueKept, Zenon
        <3>3. \A p \in due : p[2] \in Q \cup U
            OBVIOUS
        <3>4. LmQueryMember \in Q \cup U /\ InactivityMember \in Q \cup U
            BY Zenon
        <3> HIDE DEF E, due, U
        <3>5. Queue(PostAll(E, due), Q \cup U)
            BY <3>2, <3>3, QueueKept, Zenon
        <3> DEFINE F == Post(PostAll(E, due), now + InactivityInterval, InactivityMember)
        <3>6. Queue(F, Q \cup U)
            BY <3>4, <3>5, QueueKept, Zenon
        <3>7. events' = F \/ events' = Post(F, now + LmQueryInterval, LmQueryMember)
            BY <2>1, Zenon DEF due
        <3> HIDE DEF F
        <3>8. Queue(Post(F, now + LmQueryInterval, LmQueryMember), Q \cup U)
            BY <3>4, <3>6, QueueKept, Zenon
        <3> QED BY <3>6, <3>7, <3>8, Zenon
    <2>5. DbFields(db') /\ db'.seq = db.seq /\ ~IsNodeRegistered(db', 0)
        <3> PICK d, r, t : d = db /\ r = db' /\ t = now
            BY Zenon
        <3>1. DbFields(d) /\ r = DeregisterNodes(d, silent, t)
            BY <1>a, <2>1, Zenon
        <3>2. DbFields(r) /\ r.seq = d.seq
            BY <3>1, DeregisteredAll
        <3>3. \A j : IsNodeRegistered(r, j) => IsNodeRegistered(d, j)
            BY <3>1, DeregisteredAll, Zenon
        <3> QED BY <1>b, <3>2, <3>3, Zenon
    <2> HIDE DEF U
    <2> QED BY <1>b, <2>2, <2>3, <2>4, <2>5, RicStep, Zenon
<1> QED BY <1>1, <1>2, <1>3, <1>4, <1>5, Zenon

\* Every step keeps what is known of the identifiers.
LEMMA IdStep ==
    ASSUME Shape, IdInv, DatabaseKept, [Next]_vars
    PROVE  Shape' /\ IdInv'
<1>1. CASE Next
    BY <1>1, NodeStep, RegistrationStep, OtherRicSteps, Zenon DEF Next, Script
<1>2. CASE UNCHANGED vars
    BY <1>2, IdKept, Zenon DEF vars, simVars, ricVars, nodeVars
<1> QED BY <1>1, <1>2, Zenon

\* IdInv is an invariant wherever the database outlives the restarts of the
\* RIC (a file, or no restart).
LEMMA IdInvariance == ASSUME DatabaseKept PROVE Spec => []IdInv
<1>1. Init => Shape /\ IdInv
    BY IdInit, Zenon
<1>2. Shape /\ IdInv /\ [Next]_vars => Shape' /\ IdInv'
    BY IdStep, Zenon
<1> QED BY <1>1, <1>2, PTL DEF Spec

\* With a database that outlives the restarts of the RIC the E2 interface never
\* confuses two nodes, for any number of them and through any loss, delay and
\* reordering of messages, any activation and deactivation of nodes and any
\* restart of the RIC: a node only ever holds an identifier of its own
\* (ReceiveRegistrationRequest() and ReceiveRegistrationResponse()).
THEOREM IdsNeverMixed == ASSUME DatabaseKept PROVE Spec => []OwnedIds
<1>1. IdInv => OwnedIds
    BY Zenon DEF IdInv, OwnedIds
<1> QED BY <1>1, IdInvariance, PTL

\* In the same regime the repository attributes every report that
\* ReceiveReport() saves to the node that made it: a report that was stamped
\* before its node was registered, or under an identifier that the node has
\* lost since, is not filed under that of another node.
THEOREM ReportsStayAttributed == ASSUME DatabaseKept PROVE Spec => []ReportsAttributed
<1>1. IdInv => ReportsAttributed
    BY Zenon DEF IdInv, ReportsAttributed
<1> QED BY <1>1, IdInvariance, PTL

-----------------------------------------------------------------------------
(* The tables of nodes.                                                    *)

\* A row of nrue or nrgnb is of the node that its identifier belongs to, or is
\* the row that a first request leaves under 0, which is never registered.
RowInv ==
    /\ \A r \in db.ue : r.id = 0 \/ (Owned(r.id, r.imsi) /\ r.imsi \in Ues)
    /\ \A r \in db.gnb : r.id = 0 \/ (Owned(r.id, r.cell) /\ r.cell \in Nodes \ Ues)
    /\ 0 \in DOMAIN db.reg => TRUE \notin db.reg[0].flags

\* How a step changes the database and the map of terminators.
LEMMA DbSteps ==
    ASSUME DatabaseKept, [Next]_vars
    PROVE  \/ UNCHANGED <<db, m_nodeTerminators>>
           \/ \E e \in events : RegistrationRequestEvent(e)
           \/ /\ UNCHANGED m_nodeTerminators
              /\ \/ \E id : db' = DeregisterNode(db, id, now)
                 \/ \E ids : db' = DeregisterNodes(db, ids, now)
<1> USE DEF simVars, scriptVars, ricVars, nodeVars
<1>1. CASE Advance \/ UNCHANGED vars
    BY <1>1, Zenon DEF Advance, vars
<1>2. CASE Script
    BY <1>2, Zenon DEF Script, Start, Stop, Call, DatabaseKept, ActivateNode, DeactivateNode
<1>3. ASSUME NEW e \in events,
             \/ Ignored(e) \/ RegisterEvent(e) \/ RegistrationResponseEvent(e)
             \/ DeregistrationResponseEvent(e) \/ TriggerEvent(e) \/ SendEvent(e)
             \/ ReportEvent(e)
      PROVE  UNCHANGED <<db, m_nodeTerminators>>
    BY <1>3, Zenon DEF Ignored, RegisterEvent, RegistrationResponseEvent,
                DeregistrationResponseEvent, TriggerEvent, SendEvent, ReportEvent
<1>4. ASSUME NEW e \in events, DeregistrationRequestEvent(e)
      PROVE  UNCHANGED m_nodeTerminators /\ \E id : db' = DeregisterNode(db, id, now)
    BY <1>4, Zenon DEF DeregistrationRequestEvent
<1>5. ASSUME NEW e \in events, CheckForInactivity(e)
      PROVE  UNCHANGED m_nodeTerminators /\ \E ids : db' = DeregisterNodes(db, ids, now)
    BY <1>5, Zenon DEF CheckForInactivity
<1> QED BY <1>1, <1>2, <1>3, <1>4, <1>5, Zenon DEF Next

\* The rows of noderegistration with one more for id.
LoggedIn(reg, id, t) == Logged(reg, id, TRUE, t)
LoggedOut(reg, id, t) == Logged(reg, id, FALSE, t)

\* Registering a node writes its row under the identifier of the request.
LEMMA RegisteredUe ==
    ASSUME NEW d, DbFields(d), NEW id, NEW n, NEW t,
           NEW u, u = RegisterNodeNrUe(d, id, n, t)
    PROVE  /\ u.reg = LoggedIn(d.reg, Assigned(d, id), t)
           /\ u.gnb = d.gnb
           /\ \A r \in u.ue : r \in d.ue \/ (r.id = id /\ r.imsi = n)
           /\ \A r \in d.ue : r.id # id /\ r.imsi # n => r \in u.ue
           /\ \E r \in u.ue : r.id = id /\ r.imsi = n
<1> DEFINE q == RegisterNode(d, id, t)
<1>1. /\ {"seq", "reg", "ue", "gnb"} \subseteq DOMAIN q
      /\ q.reg = LoggedIn(d.reg, Assigned(d, id), t)
      /\ q.ue = d.ue /\ q.gnb = d.gnb
    BY Zenon DEF DbFields, RegisterNode, LoggedIn
<1> HIDE DEF q
<1>2. /\ u.reg = q.reg /\ u.gnb = q.gnb
      /\ u.ue = {r \in q.ue : r.id # id /\ r.imsi # n} \cup {[id |-> id, imsi |-> n]}
    BY <1>1, Zenon DEF RegisterNodeNrUe, q
<1> DEFINE row == [id |-> id, imsi |-> n]
<1>3. row.id = id /\ row.imsi = n
    BY Zenon
<1>4. /\ \A r \in u.ue : r \in d.ue \/ r = row
      /\ \A r \in d.ue : r.id # id /\ r.imsi # n => r \in u.ue
      /\ row \in u.ue
    BY <1>1, <1>2, Zenon
<1> HIDE DEF row
<1> QED BY <1>1, <1>2, <1>3, <1>4, Zenon

\* The same of a gNB.
LEMMA RegisteredGnb ==
    ASSUME NEW d, DbFields(d), NEW id, NEW n, NEW t,
           NEW g, g = RegisterNodeNrGnb(d, id, n, t)
    PROVE  /\ g.reg = LoggedIn(d.reg, Assigned(d, id), t)
           /\ g.ue = d.ue
           /\ \A r \in g.gnb : r \in d.gnb \/ (r.id = id /\ r.cell = n)
           /\ \A r \in d.gnb : r.id # id => r \in g.gnb
           /\ \E r \in g.gnb : r.id = id /\ r.cell = n
<1> DEFINE q == RegisterNode(d, id, t)
<1>1. /\ {"seq", "reg", "ue", "gnb"} \subseteq DOMAIN q
      /\ q.reg = LoggedIn(d.reg, Assigned(d, id), t)
      /\ q.ue = d.ue /\ q.gnb = d.gnb
    BY Zenon DEF DbFields, RegisterNode, LoggedIn
<1> HIDE DEF q
<1>2. /\ g.reg = q.reg /\ g.ue = q.ue
      /\ g.gnb = {r \in q.gnb : r.id # id} \cup {[id |-> id, cell |-> n]}
    BY <1>1, Zenon DEF RegisterNodeNrGnb, q
<1> DEFINE row == [id |-> id, cell |-> n]
<1>3. row.id = id /\ row.cell = n
    BY Zenon
<1>4. /\ \A r \in g.gnb : r \in d.gnb \/ r = row
      /\ \A r \in d.gnb : r.id # id => r \in g.gnb
      /\ row \in g.gnb
    BY <1>1, <1>2, Zenon
<1> HIDE DEF row
<1> QED BY <1>1, <1>2, <1>3, <1>4, Zenon

\* Neither a registration of another identifier nor a deregistration gives
\* identifier j a row "registered = true".
LEMMA FlagsKept ==
    ASSUME NEW reg, NEW j, j \in DOMAIN reg => TRUE \notin reg[j].flags,
           NEW id, NEW t
    PROVE  /\ id # j /\ j \in DOMAIN LoggedIn(reg, id, t)
                => TRUE \notin LoggedIn(reg, id, t)[j].flags
           /\ j \in DOMAIN LoggedOut(reg, id, t)
                => TRUE \notin LoggedOut(reg, id, t)[j].flags
BY Zenon DEF LoggedIn, LoggedOut, Logged, Put

\* Every step of the E2 interface keeps the rows right, and takes no identifier
\* away from a node.
LEMMA RowStep ==
    ASSUME Shape, IdInv, RowInv, DatabaseKept, [Next]_vars
    PROVE  RowInv' /\ \A id, n : Owned(id, n) => Owned(id, n)'
<1>f. DbFields(db)
    BY Zenon DEF Shape
<1>1. CASE UNCHANGED <<db, m_nodeTerminators>>
    BY <1>1, Zenon DEF RowInv, Owned
<1>2. ASSUME NEW e \in events, RegistrationRequestEvent(e)
      PROVE  RowInv' /\ \A id, n : Owned(id, n) => Owned(id, n)'
    <2> PICK n, id, new, d, t, r : n = e.id[2] /\ id = e.id[3] /\ new = Assigned(db, id)
                                /\ d = db /\ t = now /\ r = db'
        BY Zenon
    <2>1. /\ r = IF n \in Ues THEN RegisterNodeNrUe(d, id, n, t)
                             ELSE RegisterNodeNrGnb(d, id, n, t)
          /\ m_nodeTerminators' = Put(m_nodeTerminators, new, n)
        BY <1>2, Zenon DEF RegistrationRequestEvent, Node, Argument
    <2>2. n \in Nodes /\ (id = 0 \/ Owned(id, n))
        BY <1>2, Zenon DEF RegistrationRequestEvent, IdInv, Kind, Sound
    <2>3. new # 0 /\ (new \in DOMAIN m_nodeTerminators => m_nodeTerminators[new] = n)
        BY <1>f, <2>2 DEF Assigned, DbFields, IdInv, Owned
    <2>4. Owned(new, n)' /\ \A i, m : Owned(i, m) => Owned(i, m)'
        <3>1. /\ DOMAIN m_nodeTerminators' = DOMAIN m_nodeTerminators \cup {new}
              /\ m_nodeTerminators'[new] = n
              /\ \A i \in DOMAIN m_nodeTerminators : i # new =>
                     m_nodeTerminators'[i] = m_nodeTerminators[i]
            BY <2>1, Zenon DEF Put
        <3> QED BY <2>3, <3>1, Zenon DEF Owned
    <2>5. /\ r.reg = LoggedIn(d.reg, new, t)
          /\ n \in Ues =>
               /\ \A x \in r.ue : x \in d.ue \/ (x.id = id /\ x.imsi = n)
               /\ r.gnb = d.gnb
          /\ n \notin Ues =>
               /\ \A x \in r.gnb : x \in d.gnb \/ (x.id = id /\ x.cell = n)
               /\ r.ue = d.ue
        <3>1. DbFields(d) /\ new = Assigned(d, id)
            BY <1>f, Zenon
        <3>2. CASE n \in Ues
            <4>1. r = RegisterNodeNrUe(d, id, n, t)
                BY <2>1, <3>2, Zenon
            <4>2. r.reg = LoggedIn(d.reg, Assigned(d, id), t)
                BY <3>1, <4>1, RegisteredUe
            <4>3. r.gnb = d.gnb
                BY <3>1, <4>1, RegisteredUe
            <4>4. \A x \in r.ue : x \in d.ue \/ (x.id = id /\ x.imsi = n)
                BY <3>1, <4>1, RegisteredUe
            <4> QED BY <3>1, <3>2, <4>2, <4>3, <4>4, Zenon
        <3>3. CASE n \notin Ues
            <4>1. r = RegisterNodeNrGnb(d, id, n, t)
                BY <2>1, <3>3, Zenon
            <4>2. r.reg = LoggedIn(d.reg, Assigned(d, id), t)
                BY <3>1, <4>1, RegisteredGnb
            <4>3. r.ue = d.ue
                BY <3>1, <4>1, RegisteredGnb
            <4>4. \A x \in r.gnb : x \in d.gnb \/ (x.id = id /\ x.cell = n)
                BY <3>1, <4>1, RegisteredGnb
            <4> QED BY <3>1, <3>3, <4>2, <4>3, <4>4, Zenon
        <3> QED BY <3>2, <3>3, Zenon
    <2>6. id = 0 \/ Owned(id, n)'
        BY <2>2, <2>4, Zenon
    <2>7. \A x \in r.ue : x.id = 0 \/ (Owned(x.id, x.imsi)' /\ x.imsi \in Ues)
        <3>1. \A x \in d.ue : x.id = 0 \/ (Owned(x.id, x.imsi)' /\ x.imsi \in Ues)
            BY <2>4, Zenon DEF RowInv
        <3> QED BY <2>5, <2>6, <3>1, Zenon
    <2>8. \A x \in r.gnb : x.id = 0 \/ (Owned(x.id, x.cell)' /\ x.cell \in Nodes \ Ues)
        <3>1. \A x \in d.gnb : x.id = 0 \/ (Owned(x.id, x.cell)' /\ x.cell \in Nodes \ Ues)
            BY <2>4, Zenon DEF RowInv
        <3> QED BY <2>2, <2>5, <2>6, <3>1, Zenon
    <2>9. 0 \in DOMAIN r.reg => TRUE \notin r.reg[0].flags
        <3>1. 0 \in DOMAIN d.reg => TRUE \notin d.reg[0].flags
            BY Zenon DEF RowInv
        <3>2. 0 \in DOMAIN LoggedIn(d.reg, new, t)
                => TRUE \notin LoggedIn(d.reg, new, t)[0].flags
            BY <2>3, <3>1, FlagsKept, Zenon
        <3> QED BY <2>5, <3>2, Zenon
    <2> QED BY <2>4, <2>7, <2>8, <2>9, Zenon DEF RowInv
<1>3. ASSUME UNCHANGED m_nodeTerminators,
             \/ \E id : db' = DeregisterNode(db, id, now)
             \/ \E ids : db' = DeregisterNodes(db, ids, now)
      PROVE  RowInv' /\ \A id, n : Owned(id, n) => Owned(id, n)'
    <2> PICK d, t, r : d = db /\ t = now /\ r = db'
        BY Zenon
    <2>1. 0 \in DOMAIN d.reg => TRUE \notin d.reg[0].flags
        BY Zenon DEF RowInv
    <2>2. /\ r.ue = d.ue /\ r.gnb = d.gnb
          /\ 0 \in DOMAIN r.reg => TRUE \notin r.reg[0].flags
        <3>1. ASSUME NEW id, r = DeregisterNode(d, id, t)
              PROVE  /\ r.ue = d.ue /\ r.gnb = d.gnb
                     /\ 0 \in DOMAIN r.reg => TRUE \notin r.reg[0].flags
            <4>1. r.ue = d.ue /\ r.gnb = d.gnb /\ r.reg = LoggedOut(d.reg, id, t)
                BY <1>f, <3>1, Zenon DEF DbFields, DeregisterNode, LoggedOut
            <4>2. 0 \in DOMAIN LoggedOut(d.reg, id, t)
                    => TRUE \notin LoggedOut(d.reg, id, t)[0].flags
                BY <2>1, FlagsKept, Zenon
            <4> QED BY <4>1, <4>2, Zenon
        <3>2. ASSUME NEW ids, r = DeregisterNodes(d, ids, t)
              PROVE  /\ r.ue = d.ue /\ r.gnb = d.gnb
                     /\ 0 \in DOMAIN r.reg => TRUE \notin r.reg[0].flags
            <4>1. /\ r.ue = d.ue /\ r.gnb = d.gnb
                  /\ r.reg = [id \in DOMAIN d.reg |->
                       IF id \in ids THEN LoggedOut(d.reg, id, t)[id] ELSE d.reg[id]]
                BY <1>f, <3>2, Zenon DEF DbFields, DeregisterNodes, LoggedOut
            <4>2. ASSUME 0 \in DOMAIN d.reg
                  PROVE  TRUE \notin LoggedOut(d.reg, 0, t)[0].flags
                <5>1. 0 \in DOMAIN LoggedOut(d.reg, 0, t)
                    BY <4>2, Zenon DEF LoggedOut, Logged, Put
                <5> QED BY <2>1, <5>1, FlagsKept, Zenon
            <4> QED BY <2>1, <4>1, <4>2, Zenon
        <3> QED BY <1>3, <3>1, <3>2, Zenon
    <2>3. \A id, n : Owned(id, n)' <=> Owned(id, n)
        BY <1>3, Zenon DEF Owned
    <2> QED BY <2>2, <2>3, Zenon DEF RowInv
<1> QED BY <1>1, <1>2, <1>3, DbSteps, Zenon
=============================================================================
