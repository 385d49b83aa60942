--------------------------- MODULE E2TimingProofs ---------------------------
(***************************************************************************)
(* Proofs about the timers of the E2 interface: the periodic registrations *)
(* of the nodes against the delays of the messages and the inactivity      *)
(* checks of the RIC, for any set of nodes and any values of the delays,   *)
(* intervals and threshold.                                                *)
(***************************************************************************)
EXTENDS E2Proofs

\* The entries of a queue say what they are for.
Entries(E) == \A e \in E : "id" \in DOMAIN e

\* The operations on the queue keep it one.
LEMMA EntriesKept ==
    ASSUME NEW E, Entries(E), NEW t, NEW i, NEW due, NEW e
    PROVE  /\ Entries(E \ {e})
           /\ Entries(Cancel(E, i))
           /\ Entries(Post(E, t, i))
           /\ Entries(Assign(E, t, i))
           /\ Entries(PostAll(E, due))
<1>1. Entries(E \ {e}) /\ Entries(Cancel(E, i))
    BY Zenon DEF Entries, Cancel
<1>2. ASSUME NEW F, Entries(F) PROVE Entries(Post(F, t, i))
    BY <1>2 DEF Entries, Post, Event
<1>3. Entries(LetGo(E, i))
    BY Zenon DEF Entries, LetGo, Held
<1>4. Entries(Assign(E, t, i))
    BY <1>2, <1>3, Zenon DEF Assign
<1>5. Entries(PostAll(E, due))
    BY DEF Entries, PostAll, Event
<1> QED BY <1>1, <1>2, <1>4, <1>5, Zenon

\* The events of E of the kinds K.
Only(E, K) == {e \in E : e.id[1] \in K}

\* Operations on events of other kinds do not touch those of the kinds K.
LEMMA OnlyKept ==
    ASSUME NEW K, NEW E, Entries(E), NEW t, NEW i, i[1] \notin K
    PROVE  /\ Only(Post(E, t, i), K) = Only(E, K)
           /\ Only(Assign(E, t, i), K) = Only(E, K)
           /\ Only(Cancel(E, i), K) = Only(E, K)
<1>1. ASSUME NEW F PROVE Only(Post(F, t, i), K) = Only(F, K)
    BY DEF Only, Post, Event
<1>2. Only(LetGo(E, i), K) = Only(E, K)
    BY Zenon DEF Only, LetGo, Held, Entries
<1>3. Only(Assign(E, t, i), K) = Only(E, K)
    BY <1>1, <1>2, Zenon DEF Assign
<1>4. Only(Cancel(E, i), K) = Only(E, K)
    BY Zenon DEF Only, Cancel, Held
<1> QED BY <1>1, <1>3, <1>4, Zenon

\* p is what a call of Schedule() inserts for time t and member i.
Scheduled(p, t, i) == p.ts = t /\ p.id = i /\ p.held

\* Schedule() adds one event to the queue.
LEMMA PostAdds ==
    ASSUME NEW E, NEW t, NEW i
    PROVE  \E p : Post(E, t, i) = E \cup {p} /\ Scheduled(p, t, i)
<1> DEFINE p == Event(t, Stamped(E, t), i)
<1>1. Scheduled(p, t, i)
    BY Zenon DEF Event, Scheduled
<1>2. Post(E, t, i) = E \cup {p}
    BY Zenon DEF Post
<1> QED BY <1>1, <1>2, Zenon

\* Register() sends a request and schedules the next registration.
LEMMA RegisteringAdds ==
    ASSUME NEW n, NEW E, NEW d
    PROVE  \E q, p :
             /\ Registering(n, E, d) = Cancel(E, RegisterMember(n)) \cup {q, p}
             /\ Scheduled(q, now + d, RegistrationRequest(n, m_e2NodeId[n]))
             /\ Scheduled(p, now + RegistrationInterval, RegisterMember(n))
<1> PICK F, i, j : /\ F = Cancel(E, RegisterMember(n))
                   /\ i = RegistrationRequest(n, m_e2NodeId[n])
                   /\ j = RegisterMember(n)
    BY Zenon
<1> PICK s, t : s = now + d /\ t = now + RegistrationInterval
    BY Zenon
<1>1. PICK q : Post(F, s, i) = F \cup {q} /\ Scheduled(q, s, i)
    BY PostAdds, Zenon
<1>2. PICK p : Post(Post(F, s, i), t, j) = Post(F, s, i) \cup {p} /\ Scheduled(p, t, j)
    BY PostAdds, Zenon
<1>3. Registering(n, E, d) = F \cup {q, p}
    BY <1>1, <1>2, Zenon DEF Registering
<1> QED BY <1>1, <1>2, <1>3, Zenon

-----------------------------------------------------------------------------
(* The steps, by what they do to the events that carry registrations.      *)

\* The kinds of events, without those of the reports.
CoreKinds == {"register", "registrationRequest", "registrationResponse",
              "deregistrationRequest", "deregistrationResponse", "inactivity", "lmQuery"}

Core(E) == Only(E, CoreKinds)

coreVars == <<db, m_nodeTerminators, m_e2NodeId, nodeActive, ricActive>>


\* Node n registers; the events gone leave the queue.
Sends(n, gone) ==
    \E d \in Delays : \E q, p :
        /\ Core(events') = (Core(events) \ gone) \cup {q, p}
        /\ Scheduled(q, now + d, RegistrationRequest(n, m_e2NodeId[n]))
        /\ Scheduled(p, now + RegistrationInterval, RegisterMember(n))

\* The pending events that the member i refers to.
Members(i) == Held(events, i)

\* What Register() leaves of the queue.
LEMMA RegisteringCore ==
    ASSUME NEW n, NEW E, NEW d
    PROVE  \E q, p :
             /\ Core(Registering(n, E, d)) = (Core(E) \ Held(E, RegisterMember(n))) \cup {q, p}
             /\ Scheduled(q, now + d, RegistrationRequest(n, m_e2NodeId[n]))
             /\ Scheduled(p, now + RegistrationInterval, RegisterMember(n))
<1>1. PICK q, p :
             /\ Registering(n, E, d) = Cancel(E, RegisterMember(n)) \cup {q, p}
             /\ Scheduled(q, now + d, RegistrationRequest(n, m_e2NodeId[n]))
             /\ Scheduled(p, now + RegistrationInterval, RegisterMember(n))
    BY RegisteringAdds, Zenon
<1>2. q.id[1] \in CoreKinds /\ p.id[1] \in CoreKinds
    BY <1>1 DEF Scheduled, RegistrationRequest, RegisterMember, CoreKinds
<1> PICK H : H = Held(E, RegisterMember(n))
    BY Zenon
<1>3. Core((E \ H) \cup {q, p}) = (Core(E) \ H) \cup {q, p}
    BY <1>2, Zenon DEF Core, Only
<1> QED BY <1>1, <1>3, Zenon DEF Cancel

\* Activate() of a node.
LEMMA ActivateEffect ==
    ASSUME Entries(events), NEW n \in Nodes, ActivateNode(n)
    PROVE  /\ Sends(n, Members(RegisterMember(n)))
           /\ ~nodeActive[n] /\ nodeActive' = [nodeActive EXCEPT ![n] = TRUE]
           /\ UNCHANGED <<now, db, m_nodeTerminators, m_e2NodeId, ricActive>>
<1>1. PICK d \in Delays : events' =
         IF hasTrigger[n]
         THEN Assign(Registering(n, events, d), now + TriggerInterval, TriggerMember(n))
         ELSE Registering(n, events, d)
    BY Zenon DEF ActivateNode
<1> PICK R : R = Registering(n, events, d)
    BY Zenon
<1>2. Entries(R)
    <2> PICK F, i, j : /\ F = Cancel(events, RegisterMember(n))
                       /\ i = RegistrationRequest(n, m_e2NodeId[n])
                       /\ j = RegisterMember(n)
        BY Zenon
    <2>1. Entries(F)
        BY EntriesKept, Zenon
    <2>2. Entries(Post(F, now + d, i))
        BY <2>1, EntriesKept, Zenon
    <2>3. Entries(Post(Post(F, now + d, i), now + RegistrationInterval, j))
        BY <2>2, EntriesKept, Zenon
    <2> QED BY <2>3, Zenon DEF Registering
<1>3. Core(events') = Core(R)
    <2> PICK i, t : i = TriggerMember(n) /\ t = now + TriggerInterval
        BY Zenon
    <2>1. i[1] \notin CoreKinds
        BY Zenon DEF TriggerMember, CoreKinds
    <2>2. Core(Assign(R, t, i)) = Core(R)
        BY <1>2, <2>1, OnlyKept DEF Core
    <2> QED BY <1>1, <2>2, Zenon
<1>4. Sends(n, Members(RegisterMember(n)))
    BY <1>3, RegisteringCore, Zenon DEF Sends, Members
<1> QED BY <1>4, Zenon DEF ActivateNode, ricVars

\* The event of the periodic registration.
LEMMA RegisterEffect ==
    ASSUME NEW e \in events, RegisterEvent(e)
    PROVE  /\ Sends(e.id[2], {e} \cup Members(RegisterMember(e.id[2])))
           /\ UNCHANGED <<now, coreVars>>
<1> PICK n : n = e.id[2]
    BY Zenon
<1>1. PICK d \in Delays : events' = Registering(n, events \ {e}, d)
    BY Zenon DEF RegisterEvent, Node
<1>2. PICK q, p :
         /\ Core(events') = (Core(events \ {e}) \ Held(events \ {e}, RegisterMember(n)))
                               \cup {q, p}
         /\ Scheduled(q, now + d, RegistrationRequest(n, m_e2NodeId[n]))
         /\ Scheduled(p, now + RegistrationInterval, RegisterMember(n))
    BY <1>1, RegisteringCore, Zenon
<1>3. Core(events \ {e}) \ Held(events \ {e}, RegisterMember(n))
        = Core(events) \ ({e} \cup Members(RegisterMember(n)))
    BY Zenon DEF Core, Only, Held, Members
<1>4. Sends(n, {e} \cup Members(RegisterMember(n)))
    BY <1>2, <1>3, Zenon DEF Sends
<1>5. UNCHANGED <<now, coreVars>>
    BY Zenon DEF RegisterEvent, coreVars, ricVars, nodeVars
<1> QED BY <1>4, <1>5, Zenon

\* An event leaves the queue.
LEMMA TakenCore ==
    ASSUME NEW E, NEW e
    PROVE  Core(E \ {e}) = Core(E) \ {e}
BY Zenon DEF Core, Only

\* Deactivate() of a node: its next registration is cancelled and one request
\* sent.
LEMMA DeactivateEffect ==
    ASSUME Entries(events), NEW n \in Nodes, DeactivateNode(n)
    PROVE  /\ \E d \in Delays : \E p :
                 /\ Core(events') = (Core(events) \ Members(RegisterMember(n))) \cup {p}
                 /\ Scheduled(p, now + d, DeregistrationRequest(m_e2NodeId[n]))
           /\ nodeActive' = [nodeActive EXCEPT ![n] = FALSE]
           /\ UNCHANGED <<now, db, m_nodeTerminators, m_e2NodeId, ricActive>>
<1> PICK s, t, r, i : /\ s = SendMember(n) /\ t = TriggerMember(n)
                      /\ r = RegisterMember(n) /\ i = DeregistrationRequest(m_e2NodeId[n])
    BY Zenon
<1>k. s[1] \notin CoreKinds /\ t[1] \notin CoreKinds /\ i[1] \in CoreKinds /\ s # r /\ t # r
    BY Zenon DEF SendMember, TriggerMember, RegisterMember, DeregistrationRequest, CoreKinds
<1>1. PICK d \in Delays : \E E :
         /\ E = events \/ E = Cancel(events, t)
         /\ events' = Post(Cancel(Cancel(E, s), r), now + d, i)
    BY Zenon DEF DeactivateNode
<1>a. PICK E : /\ E = events \/ E = Cancel(events, t)
               /\ events' = Post(Cancel(Cancel(E, s), r), now + d, i)
    BY <1>1, Zenon
<1> PICK F : F = Cancel(Cancel(E, s), r)
    BY Zenon
<1>2. Core(F) = Core(events) \ Members(r)
    BY <1>a, <1>k, Zenon DEF Core, Only, Cancel, Held, Members
<1>3. PICK p : events' = F \cup {p} /\ Scheduled(p, now + d, i)
    BY <1>a, PostAdds, Zenon
<1>4. Core(F \cup {p}) = Core(F) \cup {p}
    BY <1>3, <1>k, Zenon DEF Core, Only, Scheduled
<1>5. Core(events') = (Core(events) \ Members(r)) \cup {p}
    BY <1>2, <1>3, <1>4, Zenon
<1> QED BY <1>3, <1>5, Zenon DEF DeactivateNode, ricVars

\* ReceiveRegistrationResponse() in an active node.
LEMMA ResponseEffect ==
    ASSUME Entries(events), NEW e \in events, RegistrationResponseEvent(e)
    PROVE  /\ Core(events') = Core(events) \ {e}
           /\ m_e2NodeId' = [m_e2NodeId EXCEPT ![e.id[2]] = e.id[3]]
           /\ UNCHANGED <<now, db, m_nodeTerminators, nodeActive, ricActive>>
<1> PICK n : n = e.id[2]
    BY Zenon
<1> PICK s, t, x, y : /\ s = SendMember(n) /\ t = TriggerMember(n)
                      /\ x = now + SendInterval /\ y = now + TriggerInterval
    BY Zenon
<1>k. s[1] \notin CoreKinds /\ t[1] \notin CoreKinds
    BY Zenon DEF SendMember, TriggerMember, CoreKinds
<1>1. PICK F, E : /\ F = events \ {e}
                  /\ E = F \/ E = Assign(F, y, t)
                  /\ events' = Assign(E, x, s)
    BY Zenon DEF RegistrationResponseEvent, Node
<1>2. Entries(F)
    BY <1>1, EntriesKept, Zenon
<1>3. Entries(E) /\ Core(E) = Core(F)
    <2>1. Entries(Assign(F, y, t))
        BY <1>2, EntriesKept, Zenon
    <2>2. Core(Assign(F, y, t)) = Core(F)
        BY <1>2, <1>k, OnlyKept DEF Core
    <2> QED BY <1>1, <1>2, <2>1, <2>2, Zenon
<1>4. Core(events') = Core(E)
    BY <1>1, <1>3, <1>k, OnlyKept DEF Core
<1>5. Core(events') = Core(events) \ {e}
    BY <1>1, <1>3, <1>4, TakenCore, Zenon
<1> QED BY <1>5, Zenon DEF RegistrationResponseEvent, Node, Argument, ricVars

\* The events of the reports, of the triggers and of the sends, and the
\* messages that an inactive object ignores.
LEMMA ReportEffect ==
    ASSUME Entries(events), NEW e \in events,
           TriggerEvent(e) \/ SendEvent(e) \/ ReportEvent(e) \/ Ignored(e)
    PROVE  /\ Core(events') = Core(events) \ {e}
           /\ UNCHANGED <<now, coreVars>>
<1>0. UNCHANGED <<now, coreVars>>
    BY Zenon DEF TriggerEvent, SendEvent, ReportEvent, Ignored, coreVars, ricVars, nodeVars
<1>1. CASE events' = events \ {e}
    BY <1>0, <1>1, TakenCore, Zenon
<1> PICK n, F : n = e.id[2] /\ F = events \ {e}
    BY Zenon
<1>e. Entries(F) /\ Core(F) = Core(events) \ {e}
    BY EntriesKept, TakenCore, Zenon
<1> PICK s, t, x, y : /\ s = SendMember(n) /\ t = TriggerMember(n)
                      /\ x = now + SendInterval /\ y = now + TriggerInterval
    BY Zenon
<1>k. s[1] \notin CoreKinds /\ t[1] \notin CoreKinds
    BY Zenon DEF SendMember, TriggerMember, CoreKinds
<1>2. CASE TriggerEvent(e) /\ events' # events \ {e}
    <2>1. events' = Assign(F, y, t)
        BY <1>2, Zenon DEF TriggerEvent, Node
    <2>2. Core(Assign(F, y, t)) = Core(F)
        BY <1>e, <1>k, OnlyKept DEF Core
    <2> QED BY <2>1, <2>2, <1>0, <1>e, Zenon
<1>3. CASE SendEvent(e)
    <2>1. PICK delay \in [m_reports[n] -> Delays] :
             events' = Assign(PostAll(F, {<<now + delay[r], ReportMessage(r)>> : r \in m_reports[n]}),
                              x, s)
        BY <1>3, Zenon DEF SendEvent, Node
    <2> PICK due, G : /\ due = {<<now + delay[r], ReportMessage(r)>> : r \in m_reports[n]}
                      /\ G = PostAll(F, due)
        BY Zenon
    <2>2. \A p \in due : p[2][1] \notin CoreKinds
        BY DEF ReportMessage, CoreKinds
    <2>3. Core(G) = Core(F)
        BY <2>2 DEF Core, Only, PostAll, Event
    <2>4. Entries(G)
        BY <1>e, EntriesKept, Zenon
    <2>5. Core(Assign(G, x, s)) = Core(G)
        BY <2>4, <1>k, OnlyKept DEF Core
    <2> QED BY <2>1, <2>3, <2>5, <1>0, <1>e, Zenon
<1>4. CASE ReportEvent(e) \/ Ignored(e)
    BY <1>1, <1>4, Zenon DEF ReportEvent, Ignored
<1> QED BY <1>1, <1>2, <1>3, <1>4, Zenon

\* ReceiveRegistrationRequest() in an active RIC.
LEMMA RequestEffect ==
    ASSUME NEW e \in events, RegistrationRequestEvent(e)
    PROVE  /\ \E d \in Delays : \E p :
                 /\ Core(events') = (Core(events) \ {e}) \cup {p}
                 /\ Scheduled(p, now + d,
                              RegistrationResponse(e.id[2], Assigned(db, e.id[3])))
           /\ UNCHANGED <<now, nodeActive, m_e2NodeId, ricActive>>
<1> PICK i : i = RegistrationResponse(e.id[2], Assigned(db, e.id[3]))
    BY Zenon
<1>k. i[1] \in CoreKinds
    BY Zenon DEF RegistrationResponse, CoreKinds
<1>1. PICK d \in Delays : events' = Post(events \ {e}, now + d, i)
    BY Zenon DEF RegistrationRequestEvent, Node, Argument
<1>2. PICK p : events' = (events \ {e}) \cup {p} /\ Scheduled(p, now + d, i)
    BY <1>1, PostAdds, Zenon
<1>3. Core(events') = (Core(events) \ {e}) \cup {p}
    BY <1>2, <1>k, Zenon DEF Core, Only, Scheduled
<1> QED BY <1>2, <1>3, Zenon DEF RegistrationRequestEvent, nodeVars

\* ReceiveDeregistrationRequest() in an active RIC.
LEMMA DeregistrationEffect ==
    ASSUME NEW e \in events, DeregistrationRequestEvent(e)
    PROVE  /\ \E d \in Delays : \E p :
                 /\ Core(events') = (Core(events) \ {e}) \cup {p}
                 /\ Scheduled(p, now + d,
                              DeregistrationResponse(Terminator(e.id[3])))
           /\ db' = DeregisterNode(db, e.id[3], now)
           /\ ricActive
           /\ UNCHANGED <<now, nodeActive, m_e2NodeId, ricActive, m_nodeTerminators>>
<1> PICK i : i = DeregistrationResponse(Terminator(e.id[3]))
    BY Zenon
<1>k. i[1] \in CoreKinds
    BY Zenon DEF DeregistrationResponse, CoreKinds
<1>1. PICK d \in Delays : events' = Post(events \ {e}, now + d, i)
    BY Zenon DEF DeregistrationRequestEvent, Argument
<1>2. PICK p : events' = (events \ {e}) \cup {p} /\ Scheduled(p, now + d, i)
    BY <1>1, PostAdds, Zenon
<1>3. Core(events') = (Core(events) \ {e}) \cup {p}
    BY <1>2, <1>k, Zenon DEF Core, Only, Scheduled
<1> QED BY <1>2, <1>3, Zenon DEF DeregistrationRequestEvent, nodeVars, Argument

\* Start() of the RIC.
LEMMA StartEffect ==
    ASSUME Start
    PROVE  /\ \E l, c :
                 /\ Core(events') = Core(events) \cup {l, c}
                 /\ Scheduled(l, now + LmQueryInterval, LmQueryMember)
                 /\ Scheduled(c, now + InactivityInterval, InactivityMember)
           /\ ~ricActive /\ ricActive' = TRUE
           /\ UNCHANGED <<now, db, m_nodeTerminators, m_e2NodeId, nodeActive>>
<1> PICK i, j, s, t : /\ i = LmQueryMember /\ j = InactivityMember
                      /\ s = now + LmQueryInterval /\ t = now + InactivityInterval
    BY Zenon
<1>k. i[1] \in CoreKinds /\ j[1] \in CoreKinds
    BY Zenon DEF LmQueryMember, InactivityMember, CoreKinds
<1>1. events' = Post(Post(events, s, i), t, j)
    BY Zenon DEF Start
<1>2. PICK l : Post(events, s, i) = events \cup {l} /\ Scheduled(l, s, i)
    BY PostAdds, Zenon
<1>3. PICK c : Post(Post(events, s, i), t, j) = Post(events, s, i) \cup {c} /\ Scheduled(c, t, j)
    BY PostAdds, Zenon
<1>4. Core(events') = Core(events) \cup {l, c}
    <2>1. events' = events \cup {l, c}
        BY <1>1, <1>2, <1>3, Zenon
    <2>2. l.id[1] \in CoreKinds /\ c.id[1] \in CoreKinds
        BY <1>2, <1>3, <1>k, Zenon DEF Scheduled
    <2> QED BY <2>1, <2>2, Zenon DEF Core, Only
<1> QED BY <1>2, <1>3, <1>4, Zenon DEF Start, nodeVars

\* Stop() of the RIC.
LEMMA StopEffect ==
    ASSUME Stop
    PROVE  /\ Core(events') = Core(events) \ (Members(LmQueryMember) \cup Members(InactivityMember))
           /\ ricActive' = FALSE
           /\ UNCHANGED <<now, m_nodeTerminators, m_e2NodeId, nodeActive>>
<1> PICK i, j : i = LmQueryMember /\ j = InactivityMember
    BY Zenon
<1>1. events' = Cancel(Cancel(events, i), j)
    BY Zenon DEF Stop
<1>2. Core(events') = Core(events) \ (Members(i) \cup Members(j))
    BY <1>1, Zenon DEF Core, Only, Cancel, Held, Members
<1> QED BY <1>2, Zenon DEF Stop, nodeVars

\* The check of event e deregisters the silent ones of the listed nodes: the
\* answers D to them, the next check c and, in a query, the next query in L.
Checks(e, listed, silent, D, L, c) ==
    /\ silent = {id \in listed : now > db.reg[id].time + Threshold}
    /\ db' = DeregisterNodes(db, silent, now)
    /\ Core(events') = ((Core(events) \ ({e} \cup Members(InactivityMember)))
                           \cup D) \cup {c} \cup L
    /\ \A p \in D : /\ p.id[1] = "deregistrationResponse"
                    /\ \E d \in Delays : p.ts = now + d
    /\ silent = {} => D = {}
    /\ Scheduled(c, now + InactivityInterval, InactivityMember)
    /\ \A l \in L : Scheduled(l, now + LmQueryInterval, LmQueryMember)
    /\ e.id = InactivityMember => L = {}

\* CheckForInactivity()
LEMMA CheckEffect ==
    ASSUME NEW e \in events, CheckForInactivity(e)
    PROVE  /\ e.id \in {InactivityMember, LmQueryMember}
           /\ \E listed \in Grouped(db) : \E silent, D, L, c :
                Checks(e, listed, silent, D, L, c)
           /\ UNCHANGED <<now, ricActive, m_nodeTerminators, m_e2NodeId, nodeActive>>
<1> PICK i, j, s, t : /\ i = LmQueryMember /\ j = InactivityMember
                      /\ s = now + LmQueryInterval /\ t = now + InactivityInterval
    BY Zenon
<1>k. i[1] \in CoreKinds /\ j[1] \in CoreKinds /\ i # j
    BY Zenon DEF LmQueryMember, InactivityMember, CoreKinds
<1> PICK E : E = Cancel(events \ {e}, j)
    BY Zenon
<1>1. PICK listed \in Grouped(db) : \E silent : \E delay \in [silent -> Delays] :
         /\ silent = {id \in listed : now > db.reg[id].time + Threshold}
         /\ db' = DeregisterNodes(db, silent, now)
         /\ events' = LET C == Post(PostAll(E, {<<now + delay[id],
                                                  DeregistrationResponse(Terminator(id))>> :
                                                    id \in DOMAIN delay}), t, j)
                      IN  IF e.id = i THEN Post(C, s, i) ELSE C
    BY Zenon DEF CheckForInactivity, GetLastRegistrationRequests
<1>2. PICK silent : \E delay \in [silent -> Delays] :
         /\ silent = {id \in listed : now > db.reg[id].time + Threshold}
         /\ db' = DeregisterNodes(db, silent, now)
         /\ events' = LET C == Post(PostAll(E, {<<now + delay[id],
                                                  DeregistrationResponse(Terminator(id))>> :
                                                    id \in DOMAIN delay}), t, j)
                      IN  IF e.id = i THEN Post(C, s, i) ELSE C
    BY <1>1, Zenon
<1>3. PICK delay \in [silent -> Delays] :
         /\ silent = {id \in listed : now > db.reg[id].time + Threshold}
         /\ db' = DeregisterNodes(db, silent, now)
         /\ events' = LET C == Post(PostAll(E, {<<now + delay[id],
                                                  DeregistrationResponse(Terminator(id))>> :
                                                    id \in DOMAIN delay}), t, j)
                      IN  IF e.id = i THEN Post(C, s, i) ELSE C
    BY <1>2, Zenon
<1> PICK due : due = {<<now + delay[id], DeregistrationResponse(Terminator(id))>> :
                         id \in DOMAIN delay}
    BY Zenon
<1> PICK D : D = {Event(p[1], Stamped(E, p[1]), p[2]) : p \in due}
    BY Zenon
<1>4. \A p \in D : p.id[1] = "deregistrationResponse" /\ \E d \in Delays : p.ts = now + d
    <2>1. \A p \in due : p[2][1] = "deregistrationResponse" /\ \E d \in Delays : p[1] = now + d
        BY DEF DeregistrationResponse
    <2> QED BY <2>1 DEF Event
<1>5. silent = {} => D = {}
    BY Zenon
<1> PICK F : F = PostAll(E, due)
    BY Zenon
<1>6. F = E \cup D
    BY Zenon DEF PostAll
<1>7. PICK c : Post(F, t, j) = F \cup {c} /\ Scheduled(c, t, j)
    BY PostAdds, Zenon
<1>8. PICK l : Post(Post(F, t, j), s, i) = Post(F, t, j) \cup {l} /\ Scheduled(l, s, i)
    BY PostAdds, Zenon
<1> PICK L : L = IF e.id = i THEN {l} ELSE {}
    BY Zenon
<1>9. events' = ((E \cup D) \cup {c}) \cup L
    BY <1>3, <1>6, <1>7, <1>8, Zenon
<1>10. Core(events') = ((Core(events) \ ({e} \cup Members(j))) \cup D) \cup {c} \cup L
    <2>1. \A p \in D : p.id[1] \in CoreKinds
        BY <1>4, Zenon DEF CoreKinds
    <2>2. c.id[1] \in CoreKinds /\ \A p \in L : p.id[1] \in CoreKinds
        BY <1>7, <1>8, <1>k, Zenon DEF Scheduled
    <2>3. Core(E) = Core(events) \ ({e} \cup Members(j))
        BY Zenon DEF Core, Only, Cancel, Held, Members
    <2>4. Core(events') = ((Core(E) \cup D) \cup {c}) \cup L
        BY <1>9, <2>1, <2>2, Zenon DEF Core, Only
    <2> QED BY <2>3, <2>4, Zenon
<1>11. (\A p \in L : Scheduled(p, s, i)) /\ (e.id = j => L = {})
    BY <1>8, <1>k, Zenon
<1>12. e.id \in {j, i}
    BY Zenon DEF CheckForInactivity
<1>13. UNCHANGED <<now, ricActive, m_nodeTerminators, m_e2NodeId, nodeActive>>
    BY Zenon DEF CheckForInactivity, nodeVars
<1>14. Checks(e, listed, silent, D, L, c)
    BY <1>3, <1>4, <1>5, <1>7, <1>10, <1>11, Zenon DEF Checks
<1> QED BY <1>12, <1>13, <1>14, Zenon

\* Whatever happens, the queue is one.
LEMMA EntriesStep ==
    ASSUME Entries(events), [Next]_vars
    PROVE  Entries(events')
<1>m. \A e : Entries(events \ {e})
    BY EntriesKept, Zenon
<1>1. ASSUME NEW n, NEW E, Entries(E), NEW d PROVE Entries(Registering(n, E, d))
    <2> PICK F, i, j : /\ F = Cancel(E, RegisterMember(n))
                       /\ i = RegistrationRequest(n, m_e2NodeId[n])
                       /\ j = RegisterMember(n)
        BY Zenon
    <2>1. Entries(F)
        BY <1>1, EntriesKept, Zenon
    <2>2. Entries(Post(F, now + d, i))
        BY <2>1, EntriesKept, Zenon
    <2>3. Entries(Post(Post(F, now + d, i), now + RegistrationInterval, j))
        BY <2>2, EntriesKept, Zenon
    <2> QED BY <2>3, Zenon DEF Registering
<1>2. CASE UNCHANGED vars \/ Advance
    BY <1>2, Zenon DEF vars, simVars, Advance
<1>3. CASE Start
    BY <1>3, EntriesKept, Zenon DEF Start
<1>4. CASE Stop
    BY <1>4, EntriesKept, Zenon DEF Stop
<1>5. ASSUME NEW n \in Nodes, ActivateNode(n) PROVE Entries(events')
    <2>1. PICK d \in Delays : events' =
             IF hasTrigger[n]
             THEN Assign(Registering(n, events, d), now + TriggerInterval, TriggerMember(n))
             ELSE Registering(n, events, d)
        BY <1>5, Zenon DEF ActivateNode
    <2>2. PICK R : R = Registering(n, events, d) /\ Entries(R)
        BY <1>1, Zenon
    <2>3. Entries(Assign(R, now + TriggerInterval, TriggerMember(n)))
        BY <2>2, EntriesKept, Zenon
    <2> QED BY <2>1, <2>2, <2>3, Zenon
<1>6. ASSUME NEW n \in Nodes, DeactivateNode(n) PROVE Entries(events')
    <2>1. PICK d \in Delays : \E E :
             /\ E = events \/ E = Cancel(events, TriggerMember(n))
             /\ events' = Post(Cancel(Cancel(E, SendMember(n)), RegisterMember(n)),
                               now + d, DeregistrationRequest(m_e2NodeId[n]))
        BY <1>6, Zenon DEF DeactivateNode
    <2>2. PICK E : /\ E = events \/ E = Cancel(events, TriggerMember(n))
                   /\ events' = Post(Cancel(Cancel(E, SendMember(n)), RegisterMember(n)),
                                     now + d, DeregistrationRequest(m_e2NodeId[n]))
        BY <2>1, Zenon
    <2>3. Entries(E)
        BY <2>2, EntriesKept, Zenon
    <2>4. Entries(Cancel(E, SendMember(n)))
        BY <2>3, EntriesKept, Zenon
    <2>5. Entries(Cancel(Cancel(E, SendMember(n)), RegisterMember(n)))
        BY <2>4, EntriesKept, Zenon
    <2> QED BY <2>2, <2>5, EntriesKept, Zenon
<1>7. ASSUME NEW e \in events, RegisterEvent(e) PROVE Entries(events')
    BY <1>1, <1>7, <1>m, Zenon DEF RegisterEvent
<1>8. ASSUME NEW e \in events, RegistrationResponseEvent(e) PROVE Entries(events')
    <2> PICK F : F = events \ {e}
        BY Zenon
    <2>1. PICK E : /\ E = F \/ E = Assign(F, now + TriggerInterval, TriggerMember(Node(e)))
                   /\ events' = Assign(E, now + SendInterval, SendMember(Node(e)))
        BY <1>8, Zenon DEF RegistrationResponseEvent
    <2>2. Entries(F)
        BY <1>m, Zenon
    <2>3. Entries(E)
        BY <2>1, <2>2, EntriesKept, ZenonT(60)
    <2> QED BY <2>1, <2>3, EntriesKept, Zenon
<1>9. ASSUME NEW e \in events,
             DeregistrationResponseEvent(e) \/ Ignored(e) \/ ReportEvent(e)
      PROVE  Entries(events')
    BY <1>9, <1>m, Zenon DEF DeregistrationResponseEvent, Ignored, ReportEvent
<1>10. ASSUME NEW e \in events, TriggerEvent(e) PROVE Entries(events')
    <2> PICK F : F = events \ {e}
        BY Zenon
    <2>1. events' = F \/ events' = Assign(F, now + TriggerInterval, TriggerMember(Node(e)))
        BY <1>10, Zenon DEF TriggerEvent
    <2>2. Entries(F)
        BY <1>m, Zenon
    <2> QED BY <2>1, <2>2, EntriesKept
<1>11. ASSUME NEW e \in events, SendEvent(e) PROVE Entries(events')
    <2> PICK F : F = events \ {e}
        BY Zenon
    <2>1. \E due : events' = Assign(PostAll(F, due), now + SendInterval, SendMember(Node(e)))
        BY <1>11, Zenon DEF SendEvent
    <2>2. PICK due : events' = Assign(PostAll(F, due), now + SendInterval, SendMember(Node(e)))
        BY <2>1, Zenon
    <2>3. Entries(PostAll(F, due))
        BY <1>m, EntriesKept, Zenon
    <2> QED BY <2>2, <2>3, EntriesKept, Zenon
<1>12. ASSUME NEW e \in events, RegistrationRequestEvent(e) \/ DeregistrationRequestEvent(e)
       PROVE  Entries(events')
    <2> PICK F : F = events \ {e}
        BY Zenon
    <2>1. PICK t, i : events' = Post(F, t, i)
        BY <1>12, Zenon DEF RegistrationRequestEvent, DeregistrationRequestEvent
    <2> QED BY <2>1, <1>m, EntriesKept, Zenon
<1>13. ASSUME NEW e \in events, CheckForInactivity(e) PROVE Entries(events')
    <2> PICK F, s, t : /\ F = Cancel(events \ {e}, InactivityMember)
                       /\ s = now + LmQueryInterval /\ t = now + InactivityInterval
        BY Zenon
    <2>1. \E due : \/ events' = Post(PostAll(F, due), t, InactivityMember)
                   \/ events' = Post(Post(PostAll(F, due), t, InactivityMember),
                                     s, LmQueryMember)
        BY <1>13, Zenon DEF CheckForInactivity
    <2>2. PICK due, G : /\ G = Post(PostAll(F, due), t, InactivityMember)
                        /\ events' = G \/ events' = Post(G, s, LmQueryMember)
        BY <2>1, Zenon
    <2>3. Entries(F)
        BY <1>m, EntriesKept, Zenon
    <2>4. Entries(PostAll(F, due))
        BY <2>3, EntriesKept, Zenon
    <2>5. Entries(G)
        BY <2>2, <2>4, EntriesKept, Zenon
    <2>6. Entries(Post(G, s, LmQueryMember))
        BY <2>5, EntriesKept, Zenon
    <2> QED BY <2>2, <2>5, <2>6, Zenon
<1> QED BY <1>2, <1>3, <1>4, <1>5, <1>6, <1>7, <1>8, <1>9, <1>10, <1>11, <1>12, <1>13, Zenon
        DEF Next, Script

-----------------------------------------------------------------------------
(* The periodic registrations.                                             *)

\* RegistrationScheduled, with what Cancel() looks at: the pending registration
\* is the one that the member refers to.
RegisterInv ==
    /\ DOMAIN nodeActive = Nodes
    /\ \A n \in Nodes : nodeActive[n] => \E e \in Core(events) : e.id = RegisterMember(n)
    /\ \A e \in Core(events) : e.id[1] = "register" =>
         /\ e.id[2] \in Nodes /\ nodeActive[e.id[2]]
         /\ e.id = RegisterMember(e.id[2]) /\ e.held
    /\ \A e, f \in Core(events) : e.id[1] = "register" /\ e.id = f.id => e = f

\* A step that neither adds nor takes a registration.
LEMMA RegistersKept ==
    ASSUME RegisterInv, UNCHANGED nodeActive, NEW gone, NEW new,
           Core(events') = (Core(events) \ gone) \cup new,
           \A x \in gone : x.id[1] # "register",
           \A x \in new : x.id[1] # "register"
    PROVE  RegisterInv'
<1>1. \A e : e.id[1] = "register" => (e \in Core(events') <=> e \in Core(events))
    BY Zenon
<1>2. \A n : RegisterMember(n)[1] = "register"
    BY Zenon DEF RegisterMember
<1>3. \A n \in Nodes : nodeActive'[n] => \E e \in Core(events') : e.id = RegisterMember(n)
    BY <1>1, <1>2, Zenon DEF RegisterInv
<1>4. \A e \in Core(events') : e.id[1] = "register" =>
         /\ e.id[2] \in Nodes /\ nodeActive'[e.id[2]]
         /\ e.id = RegisterMember(e.id[2]) /\ e.held
    BY <1>1, Zenon DEF RegisterInv
<1>5. \A e, f \in Core(events') : e.id[1] = "register" /\ e.id = f.id => e = f
    BY <1>1, Zenon DEF RegisterInv
<1> QED BY <1>3, <1>4, <1>5, Zenon DEF RegisterInv

\* All registrations of node n are members.
LEMMA RegistersOfNode ==
    ASSUME RegisterInv, NEW n
    PROVE  \A e : e \in Members(RegisterMember(n))
                    <=> e \in Core(events) /\ e.id[1] = "register" /\ e.id[2] = n
<1>1. RegisterMember(n)[1] = "register" /\ RegisterMember(n)[2] = n
    BY Zenon DEF RegisterMember
<1>2. "register" \in CoreKinds
    BY Zenon DEF CoreKinds
<1>3. ASSUME NEW e, e \in Members(RegisterMember(n))
      PROVE  e \in Core(events) /\ e.id[1] = "register" /\ e.id[2] = n
    BY <1>1, <1>2, <1>3, Zenon DEF Members, Held, Core, Only
<1>4. ASSUME NEW e, e \in Core(events) /\ e.id[1] = "register" /\ e.id[2] = n
      PROVE  e \in Members(RegisterMember(n))
    BY <1>4, Zenon DEF Members, Held, Core, Only, RegisterInv
<1> QED BY <1>3, <1>4, Zenon

\* A registration takes the place of the one before.
LEMMA RegistersSent ==
    ASSUME RegisterInv, NEW n \in Nodes, NEW gone, Sends(n, gone),
           DOMAIN nodeActive' = Nodes, nodeActive'[n],
           \A m \in Nodes \ {n} : nodeActive'[m] = nodeActive[m],
           \A e : e \in gone <=> e \in Core(events) /\ e.id[1] = "register" /\ e.id[2] = n
    PROVE  RegisterInv'
<1>1. PICK q, p : /\ Core(events') = (Core(events) \ gone) \cup {q, p}
                  /\ q.id = RegistrationRequest(n, m_e2NodeId[n])
                  /\ p.id = RegisterMember(n) /\ p.held
    BY Zenon DEF Sends, Scheduled
<1>2. /\ q.id[1] # "register"
      /\ p.id[1] = "register" /\ p.id[2] = n /\ p.id = RegisterMember(p.id[2])
    BY <1>1 DEF RegistrationRequest, RegisterMember
<1>3. \A e : e.id[1] = "register" =>
         (e \in Core(events') <=> (e \in Core(events) /\ e.id[2] # n) \/ e = p)
    BY <1>1, <1>2, Zenon
<1>4. \A m : RegisterMember(m)[1] = "register" /\ RegisterMember(m)[2] = m
    BY Zenon DEF RegisterMember
<1>5. \A m \in Nodes : nodeActive'[m] => \E e \in Core(events') : e.id = RegisterMember(m)
    <2> TAKE m \in Nodes
    <2>1. CASE m = n
        BY <2>1, <1>1, Zenon
    <2>2. CASE m # n /\ nodeActive'[m]
        <3>1. PICK e \in Core(events) : e.id = RegisterMember(m)
            BY <2>2, Zenon DEF RegisterInv
        <3> QED BY <3>1, <2>2, <1>3, <1>4
    <2> QED BY <2>1, <2>2, Zenon
<1>6. \A e \in Core(events') : e.id[1] = "register" =>
         /\ e.id[2] \in Nodes /\ nodeActive'[e.id[2]]
         /\ e.id = RegisterMember(e.id[2]) /\ e.held
    BY <1>1, <1>2, <1>3, Zenon DEF RegisterInv
<1>7. \A e, f \in Core(events') : e.id[1] = "register" /\ e.id = f.id => e = f
    BY <1>2, <1>3 DEF RegisterInv
<1> QED BY <1>5, <1>6, <1>7, Zenon DEF RegisterInv

\* Every step keeps one pending registration per active node.
LEMMA RegisterStep ==
    ASSUME Entries(events), RegisterInv, [Next]_vars
    PROVE  RegisterInv'
<1>1. CASE UNCHANGED vars \/ Advance
    <2>1. UNCHANGED <<events, nodeActive>>
        BY <1>1, Zenon DEF vars, simVars, nodeVars, Advance
    <2> QED BY <2>1, Zenon DEF RegisterInv
<1>2. CASE Start
    <2>1. PICK l, c : /\ Core(events') = Core(events) \cup {l, c}
                      /\ l.id = LmQueryMember /\ c.id = InactivityMember
                      /\ UNCHANGED nodeActive
        BY <1>2, StartEffect, Zenon DEF Scheduled
    <2>2. l.id[1] # "register" /\ c.id[1] # "register"
        BY <2>1 DEF LmQueryMember, InactivityMember
    <2> PICK gone, new : gone = {} /\ new = {l, c}
        BY Zenon
    <2>3. Core(events') = (Core(events) \ gone) \cup new
        BY <2>1, Zenon
    <2> QED BY <2>1, <2>2, <2>3, RegistersKept
<1>3. CASE Stop
    <2> PICK gone : gone = Members(LmQueryMember) \cup Members(InactivityMember)
        BY Zenon
    <2> PICK new : new = {}
        BY Zenon
    <2>1. Core(events') = (Core(events) \ gone) \cup new /\ UNCHANGED nodeActive
        BY <1>3, StopEffect, Zenon
    <2>2. \A x \in gone : x.id[1] # "register"
        BY DEF Members, Held, LmQueryMember, InactivityMember
    <2> QED BY <2>1, <2>2, RegistersKept
<1>4. ASSUME NEW n \in Nodes, ActivateNode(n) PROVE RegisterInv'
    <2>1. /\ DOMAIN nodeActive' = Nodes /\ nodeActive'[n]
          /\ \A m \in Nodes \ {n} : nodeActive'[m] = nodeActive[m]
        BY <1>4, ActivateEffect DEF RegisterInv
    <2> QED BY <1>4, <2>1, ActivateEffect, RegistersOfNode, RegistersSent, Zenon
<1>5. ASSUME NEW n \in Nodes, DeactivateNode(n) PROVE RegisterInv'
    <2>1. PICK p : /\ Core(events') = (Core(events) \ Members(RegisterMember(n))) \cup {p}
                   /\ p.id = DeregistrationRequest(m_e2NodeId[n])
        BY <1>5, DeactivateEffect, Zenon DEF Scheduled
    <2>2. p.id[1] # "register"
        BY <2>1 DEF DeregistrationRequest
    <2>3. \A e : e.id[1] = "register" =>
             (e \in Core(events') <=> e \in Core(events) /\ e.id[2] # n)
        BY <2>1, <2>2, RegistersOfNode, Zenon
    <2>4. /\ DOMAIN nodeActive' = Nodes /\ ~nodeActive'[n]
          /\ \A m \in Nodes \ {n} : nodeActive'[m] = nodeActive[m]
        BY <1>5, DeactivateEffect DEF RegisterInv
    <2>5. \A m : RegisterMember(m)[1] = "register" /\ RegisterMember(m)[2] = m
        BY Zenon DEF RegisterMember
    <2>6. \A m \in Nodes : nodeActive'[m] => \E e \in Core(events') : e.id = RegisterMember(m)
        BY <2>3, <2>4, <2>5 DEF RegisterInv
    <2>7. \A e \in Core(events') : e.id[1] = "register" =>
             /\ e.id[2] \in Nodes /\ nodeActive'[e.id[2]]
             /\ e.id = RegisterMember(e.id[2]) /\ e.held
        BY <2>3, <2>4, Zenon DEF RegisterInv
    <2>8. \A e, f \in Core(events') : e.id[1] = "register" /\ e.id = f.id => e = f
        BY <2>3, Zenon DEF RegisterInv
    <2> QED BY <2>4, <2>6, <2>7, <2>8, Zenon DEF RegisterInv
<1>6. ASSUME NEW e \in events, RegisterEvent(e) PROVE RegisterInv'
    <2> PICK n, gone : n = e.id[2] /\ gone = {e} \cup Members(RegisterMember(n))
        BY Zenon
    <2>1. e \in Core(events) /\ e.id[1] = "register" /\ nodeActive[n]
        BY <1>6, Zenon DEF RegisterEvent, Kind, Node, Core, Only, CoreKinds
    <2>2. n \in Nodes
        BY <2>1, Zenon DEF RegisterInv
    <2>3. Sends(n, gone) /\ UNCHANGED nodeActive
        BY <1>6, RegisterEffect, Zenon DEF coreVars
    <2>4. \A f : f \in gone <=> f \in Core(events) /\ f.id[1] = "register" /\ f.id[2] = n
        BY <2>1, RegistersOfNode, Zenon
    <2>5. DOMAIN nodeActive' = Nodes /\ nodeActive'[n]
        BY <2>1, <2>3, Zenon DEF RegisterInv
    <2> QED BY <2>2, <2>3, <2>4, <2>5, RegistersSent, Zenon
<1>7. ASSUME NEW e \in events,
             \/ RegistrationResponseEvent(e) \/ DeregistrationResponseEvent(e)
             \/ TriggerEvent(e) \/ SendEvent(e) \/ ReportEvent(e) \/ Ignored(e)
      PROVE  RegisterInv'
    <2>0. Core(events') = Core(events) \ {e} /\ UNCHANGED nodeActive
        <3>1. CASE RegistrationResponseEvent(e)
            BY <3>1, ResponseEffect, Zenon
        <3>2. CASE DeregistrationResponseEvent(e)
            BY <3>2, TakenCore, Zenon DEF DeregistrationResponseEvent
        <3>3. CASE TriggerEvent(e) \/ SendEvent(e) \/ ReportEvent(e) \/ Ignored(e)
            BY <3>3, ReportEffect, Zenon DEF coreVars
        <3> QED BY <1>7, <3>1, <3>2, <3>3, Zenon
    <2> PICK gone, new : gone = {e} /\ new = {}
        BY Zenon
    <2>1. Core(events') = (Core(events) \ gone) \cup new /\ UNCHANGED nodeActive
        BY <2>0, Zenon
    <2>2. e.id[1] # "register"
        BY <1>7, Zenon DEF RegistrationResponseEvent, DeregistrationResponseEvent, TriggerEvent,
                    SendEvent, ReportEvent, Ignored, Kind
    <2> QED BY <2>1, <2>2, RegistersKept, Zenon
<1>8. ASSUME NEW e \in events, RegistrationRequestEvent(e) \/ DeregistrationRequestEvent(e)
      PROVE  RegisterInv'
    <2>1. PICK p : /\ Core(events') = (Core(events) \ {e}) \cup {p}
                   /\ \/ p.id = RegistrationResponse(e.id[2], Assigned(db, e.id[3]))
                      \/ p.id = DeregistrationResponse(Terminator(e.id[3]))
                   /\ UNCHANGED nodeActive
        BY <1>8, RequestEffect, DeregistrationEffect, Zenon DEF Scheduled
    <2>2. p.id[1] # "register"
        BY <2>1 DEF RegistrationResponse, DeregistrationResponse
    <2>3. e.id[1] # "register"
        BY <1>8, Zenon DEF RegistrationRequestEvent, DeregistrationRequestEvent, Kind
    <2> QED BY <2>1, <2>2, <2>3, RegistersKept, Zenon
<1>9. ASSUME NEW e \in events, CheckForInactivity(e) PROVE RegisterInv'
    <2>0. PICK listed, silent, D, L, c : Checks(e, listed, silent, D, L, c)
        BY <1>9, CheckEffect, Zenon
    <2>1. /\ Core(events') = ((Core(events) \ ({e} \cup Members(InactivityMember)))
                                 \cup D) \cup {c} \cup L
          /\ \A p \in D : p.id[1] = "deregistrationResponse"
          /\ c.id = InactivityMember /\ \A l \in L : l.id = LmQueryMember
        BY <2>0, Zenon DEF Checks, Scheduled
    <2>a. e.id \in {InactivityMember, LmQueryMember} /\ UNCHANGED nodeActive
        BY <1>9, CheckEffect, Zenon
    <2> PICK gone, new : /\ gone = {e} \cup Members(InactivityMember)
                         /\ new = D \cup {c} \cup L
        BY Zenon
    <2>2. Core(events') = (Core(events) \ gone) \cup new
        BY <2>1, Zenon
    <2>3. InactivityMember[1] # "register" /\ LmQueryMember[1] # "register"
        BY Zenon DEF InactivityMember, LmQueryMember
    <2>4. \A x \in gone : x.id[1] # "register"
        BY <2>a, <2>3, Zenon DEF Members, Held
    <2>5. \A x \in new : x.id[1] # "register"
        BY <2>1, <2>3, Zenon
    <2> QED BY <2>a, <2>2, <2>4, <2>5, RegistersKept, Zenon
<1> QED BY <1>1, <1>2, <1>3, <1>4, <1>5, <1>6, <1>7, <1>8, <1>9, Zenon DEF Next, Script

\* Whatever the script does and whatever messages are lost or late, Register(),
\* Activate() and Deactivate() leave every active node with one pending
\* registration, which Deactivate() can cancel, and every other one with none.
THEOREM RegistrationStaysScheduled == Spec => []RegistrationScheduled
<1> DEFINE Inv == Entries(events) /\ RegisterInv
<1>1. Init => Inv
    BY Zenon DEF Init, Entries, RegisterInv, Core, Only
<1>2. Inv /\ [Next]_vars => Inv'
    BY EntriesStep, RegisterStep, Zenon
<1>3. Inv => RegistrationScheduled
    <2> SUFFICES ASSUME Inv PROVE RegistrationScheduled
        BY Zenon
    <2>1. \A e \in events : Kind(e) = "register" => e \in Core(events)
        BY Zenon DEF Core, Only, CoreKinds, Kind
    <2>2. \A e \in Core(events) : e \in events
        BY Zenon DEF Core, Only
    <2>3. \A n : RegisterMember(n)[1] = "register" /\ RegisterMember(n)[2] = n
        BY Zenon DEF RegisterMember
    <2>4. \A n \in Nodes : nodeActive[n] => \E e \in events : Kind(e) = "register" /\ Node(e) = n
        BY <2>2, <2>3 DEF RegisterInv, Kind, Node
    <2>5. \A e \in events : Kind(e) = "register" => e.held /\ nodeActive[Node(e)]
        BY <2>1, Zenon DEF RegisterInv, Kind, Node
    <2>6. \A e, f \in events : Kind(e) = "register" /\ Kind(f) = "register" /\ Node(e) = Node(f)
                                 => e = f
        BY <2>1 DEF RegisterInv, Kind, Node
    <2> QED BY <2>4, <2>5, <2>6, Zenon DEF RegistrationScheduled
<1> QED BY <1>1, <1>2, <1>3, PTL DEF Spec

-----------------------------------------------------------------------------
(* Time.                                                                   *)

\* No event that matters to a registration is overdue.
Clock == now \in Nat /\ \A e \in Core(events) : e.ts \in Nat /\ e.ts >= now

\* What is scheduled is not overdue.
LEMMA ClockKept ==
    ASSUME Clock, UNCHANGED now, NEW new,
           \A x \in Core(events') : x \in Core(events) \/ x \in new,
           \A x \in new : \E d \in Nat : x.ts = now + d
    PROVE  Clock'
<1>1. now \in Nat
    BY Zenon DEF Clock
<1>2. ASSUME NEW x \in new PROVE x.ts \in Nat /\ x.ts >= now
    <2>1. PICK d \in Nat : x.ts = now + d
        BY Zenon
    <2> QED BY <2>1, <1>1
<1> QED BY <1>1, <1>2, Zenon DEF Clock

\* Time passes only when nothing is due, and delays and intervals are not
\* negative.
LEMMA ClockStep ==
    ASSUME Entries(events), Clock, [Next]_vars
    PROVE  Clock'
<1>a. /\ Delays \subseteq Nat
      /\ RegistrationInterval \in Nat /\ InactivityInterval \in Nat /\ LmQueryInterval \in Nat
    BY IntervalAssumption, Zenon
<1>1. CASE UNCHANGED vars
    BY <1>1, Zenon DEF Clock, vars, simVars
<1>2. CASE Advance
    <2>1. /\ now' = now + 1 /\ Core(events') = Core(events)
          /\ \A e \in Core(events) : e.ts > now
        BY <1>2, Zenon DEF Advance, Core, Only
    <2>2. now \in Nat /\ \A e \in Core(events) : e.ts \in Nat
        BY Zenon DEF Clock
    <2>3. \A e \in Core(events) : e.ts >= now + 1
        BY <2>1, <2>2
    <2> QED BY <2>1, <2>2, <2>3 DEF Clock
<1>3. CASE Start
    <2>1. PICK l, c : /\ Core(events') = Core(events) \cup {l, c} /\ UNCHANGED now
                      /\ l.ts = now + LmQueryInterval /\ c.ts = now + InactivityInterval
        BY <1>3, StartEffect, Zenon DEF Scheduled
    <2> PICK new : new = {l, c}
        BY Zenon
    <2>2. \A x \in new : \E d \in Nat : x.ts = now + d
        BY <1>a, <2>1, Zenon
    <2> QED BY <2>1, <2>2, ClockKept, Zenon
<1>4. CASE Stop
    <2>1. Core(events') \subseteq Core(events) /\ UNCHANGED now
        BY <1>4, StopEffect, Zenon
    <2> PICK new : new = {}
        BY Zenon
    <2> QED BY <2>1, ClockKept
<1>5. ASSUME NEW n, NEW gone, Sends(n, gone), UNCHANGED now PROVE Clock'
    <2>1. PICK d \in Delays : \E q, p :
             /\ Core(events') = (Core(events) \ gone) \cup {q, p}
             /\ q.ts = now + d /\ p.ts = now + RegistrationInterval
        BY <1>5, Zenon DEF Sends, Scheduled
    <2>2. PICK q, p : /\ Core(events') = (Core(events) \ gone) \cup {q, p}
                      /\ q.ts = now + d /\ p.ts = now + RegistrationInterval
        BY <2>1, Zenon
    <2> PICK new : new = {q, p}
        BY Zenon
    <2>3. \A x \in new : \E y \in Nat : x.ts = now + y
        BY <1>a, <2>2, Zenon
    <2> QED BY <1>5, <2>2, <2>3, ClockKept, Zenon
<1>6. ASSUME NEW n \in Nodes, ActivateNode(n) PROVE Clock'
    BY <1>5, <1>6, ActivateEffect, Zenon
<1>7. ASSUME NEW e \in events, RegisterEvent(e) PROVE Clock'
    BY <1>5, <1>7, RegisterEffect, Zenon
<1>8. ASSUME NEW gone, NEW d \in Delays, NEW p, NEW i,
             Core(events') = (Core(events) \ gone) \cup {p},
             Scheduled(p, now + d, i), UNCHANGED now
      PROVE  Clock'
    <2> PICK new : new = {p}
        BY Zenon
    <2>1. \A x \in new : \E y \in Nat : x.ts = now + y
        BY <1>8, <1>a, Zenon DEF Scheduled
    <2> QED BY <1>8, <2>1, ClockKept, Zenon
<1>9. ASSUME NEW n \in Nodes, DeactivateNode(n) PROVE Clock'
    BY <1>8, <1>9, DeactivateEffect, Zenon
<1>10. ASSUME NEW e \in events, RegistrationRequestEvent(e) PROVE Clock'
    <2> PICK gone : gone = {e}
        BY Zenon
    <2>1. PICK d \in Delays : \E p, i : /\ Core(events') = (Core(events) \ gone) \cup {p}
                                        /\ Scheduled(p, now + d, i)
        BY <1>10, RequestEffect, Zenon
    <2>2. UNCHANGED now
        BY <1>10, RequestEffect, Zenon
    <2> QED BY <1>8, <2>1, <2>2, Zenon
<1>11. ASSUME NEW e \in events, DeregistrationRequestEvent(e) PROVE Clock'
    <2> PICK gone : gone = {e}
        BY Zenon
    <2>1. PICK d \in Delays : \E p, i : /\ Core(events') = (Core(events) \ gone) \cup {p}
                                        /\ Scheduled(p, now + d, i)
        BY <1>11, DeregistrationEffect, Zenon
    <2>2. UNCHANGED now
        BY <1>11, DeregistrationEffect, Zenon
    <2> QED BY <1>8, <2>1, <2>2, Zenon
<1>12. ASSUME NEW e \in events,
              \/ RegistrationResponseEvent(e) \/ DeregistrationResponseEvent(e)
              \/ TriggerEvent(e) \/ SendEvent(e) \/ ReportEvent(e) \/ Ignored(e)
       PROVE  Clock'
    <2>1. Core(events') = Core(events) \ {e} /\ UNCHANGED now
        <3>1. CASE RegistrationResponseEvent(e)
            BY <3>1, ResponseEffect, Zenon
        <3>2. CASE DeregistrationResponseEvent(e)
            BY <3>2, TakenCore, Zenon DEF DeregistrationResponseEvent
        <3>3. CASE TriggerEvent(e) \/ SendEvent(e) \/ ReportEvent(e) \/ Ignored(e)
            BY <3>3, ReportEffect, Zenon
        <3> QED BY <1>12, <3>1, <3>2, <3>3, Zenon
    <2> PICK new : new = {}
        BY Zenon
    <2> QED BY <2>1, ClockKept
<1>13. ASSUME NEW e \in events, CheckForInactivity(e) PROVE Clock'
    <2>1. PICK listed, silent, D, L, c : Checks(e, listed, silent, D, L, c)
        BY <1>13, CheckEffect, Zenon
    <2>2. UNCHANGED now
        BY <1>13, CheckEffect, Zenon
    <2> PICK new : new = D \cup {c} \cup L
        BY Zenon
    <2>3. \A x \in Core(events') : x \in Core(events) \/ x \in new
        BY <2>1, Zenon DEF Checks
    <2>4. \A x \in new : \E d \in Nat : x.ts = now + d
        BY <2>1, <1>a, Zenon DEF Checks, Scheduled
    <2> QED BY <2>2, <2>3, <2>4, ClockKept, Zenon
<1> QED BY <1>1, <1>2, <1>3, <1>4, <1>6, <1>7, <1>9, <1>10, <1>11, <1>12, <1>13, Zenon
        DEF Next, Script

-----------------------------------------------------------------------------
(* Inactivity.                                                             *)

\* The rows of noderegistration are not from the future.
Dated(reg, t) == \A id \in DOMAIN reg : reg[id].time \in Nat /\ reg[id].time <= t

\* All the latest rows of a node say "registered", or one of them does not.
IsIn(row) == row.flags = {TRUE}
IsOut(row) == FALSE \in row.flags

\* The last one of them says "registered".
IsLast(row) == row.last

\* The row of id is the latest in new, and the others are those of reg.
Rewritten(reg, id, t, new) ==
    /\ DOMAIN new = DOMAIN reg \cup {id}
    /\ new[id].time = t
    /\ \A j \in DOMAIN reg : j # id => new[j] = reg[j]
    /\ Dated(new, t)

\* RegisterNode() makes the row of id the latest and leaves the others alone.
LEMMA LoggedInRow ==
    ASSUME NEW reg, NEW t, t \in Nat, Dated(reg, t), NEW id, NEW new, new = LoggedIn(reg, id, t)
    PROVE  Rewritten(reg, id, t, new)
<1>1. id \in DOMAIN reg => reg[id].time \in Nat /\ (t > reg[id].time \/ t = reg[id].time)
    BY DEF Dated
<1>2. /\ DOMAIN new = DOMAIN reg \cup {id}
      /\ new[id].time = t
      /\ \A j \in DOMAIN reg : j # id => new[j] = reg[j]
    BY <1>1, Zenon DEF LoggedIn, Logged, Put
<1>3. Dated(new, t)
    BY <1>2 DEF Dated
<1> QED BY <1>2, <1>3, Zenon DEF Rewritten

\* The row says "registered".
LEMMA LoggedInFlags ==
    ASSUME NEW reg, NEW t, t \in Nat, Dated(reg, t), NEW id, NEW new, new = LoggedIn(reg, id, t),
           id \in DOMAIN reg => IsIn(reg[id])
    PROVE  IsIn(new[id]) /\ IsLast(new[id])
<1>1. id \in DOMAIN reg => reg[id].time \in Nat /\ (t > reg[id].time \/ t = reg[id].time)
    BY DEF Dated
<1> QED BY <1>1, Zenon DEF LoggedIn, Logged, Put, IsIn, IsLast

\* DeregisterNode(), the same.
LEMMA LoggedOutRow ==
    ASSUME NEW reg, NEW t, t \in Nat, Dated(reg, t), NEW id, NEW new, new = LoggedOut(reg, id, t)
    PROVE  Rewritten(reg, id, t, new)
<1>1. id \in DOMAIN reg => reg[id].time \in Nat /\ (t > reg[id].time \/ t = reg[id].time)
    BY DEF Dated
<1>2. /\ DOMAIN new = DOMAIN reg \cup {id}
      /\ new[id].time = t
      /\ \A j \in DOMAIN reg : j # id => new[j] = reg[j]
    BY <1>1, Zenon DEF LoggedOut, Logged, Put
<1>3. Dated(new, t)
    BY <1>2 DEF Dated
<1> QED BY <1>2, <1>3, Zenon DEF Rewritten

\* The deregistrations of CheckForInactivity().
LEMMA DeregisteredRows ==
    ASSUME NEW d, DbFields(d), NEW t, t \in Nat, Dated(d.reg, t), NEW ids,
           NEW r, r = DeregisterNodes(d, ids, t)
    PROVE  /\ DOMAIN r.reg = DOMAIN d.reg
           /\ \A j \in DOMAIN d.reg :
                IF j \in ids THEN r.reg[j].time = t /\ IsOut(r.reg[j])
                             ELSE r.reg[j] = d.reg[j]
           /\ Dated(r.reg, t)
<1> PICK reg : reg = d.reg
    BY Zenon
<1>1. r.reg = [id \in DOMAIN reg |-> IF id \in ids THEN LoggedOut(reg, id, t)[id] ELSE reg[id]]
    BY Zenon DEF DbFields, DeregisterNodes, LoggedOut
<1>2. ASSUME NEW id \in DOMAIN reg
      PROVE  LoggedOut(reg, id, t)[id].time = t /\ IsOut(LoggedOut(reg, id, t)[id])
    <2>1. reg[id].time \in Nat /\ (t > reg[id].time \/ t = reg[id].time)
        BY DEF Dated
    <2> QED BY <2>1, Zenon DEF LoggedOut, Logged, Put, IsOut
<1>3. \A j \in DOMAIN reg :
         IF j \in ids THEN r.reg[j].time = t /\ IsOut(r.reg[j]) ELSE r.reg[j] = reg[j]
    BY <1>1, <1>2, Zenon
<1>4. DOMAIN r.reg = DOMAIN reg
    BY <1>1, Zenon
<1>5. Dated(r.reg, t)
    <2>1. ASSUME NEW j \in DOMAIN reg PROVE r.reg[j].time \in Nat /\ r.reg[j].time <= t
        <3>1. CASE j \in ids
            BY <3>1, <1>3
        <3>2. CASE j \notin ids
            BY <3>2, <1>3, Zenon DEF Dated
        <3> QED BY <3>1, <3>2, Zenon
    <2> QED BY <2>1, <1>4, Zenon DEF Dated
<1> QED BY <1>3, <1>4, <1>5, Zenon

\* Whatever row SQLite picks, a node whose latest rows all say "registered" is
\* listed.
LEMMA ListedIn ==
    ASSUME NEW d, NEW S \in Grouped(d), NEW id \in DOMAIN d.reg, IsIn(d.reg[id])
    PROVE  id \in S
<1>1. (id \in S) \in d.reg[id].flags
    BY Zenon DEF Grouped
<1>2. d.reg[id].flags = {TRUE}
    BY Zenon DEF IsIn
<1>3. (id \in S) \in {TRUE}
    BY <1>1, <1>2, Zenon
<1> QED BY <1>3, Zenon

-----------------------------------------------------------------------------
(* Steady operation: the script starts the RIC and activates nodes, at any *)
(* times, and stops neither; a round trip is shorter than                  *)
(* RegistrationInterval, and a registration that takes the longest delay   *)
(* still comes within the threshold. The invariant, and the steps that     *)
(* keep it, but for the registration request (E2ServiceProofs).            *)

Steady ==
    /\ "Stop" \notin Calls /\ "DeactivateNode" \notin Calls
    /\ Delays # {}
    /\ \A d \in Delays : /\ 2 * d < RegistrationInterval
                         /\ RegistrationInterval + d <= Threshold

IsRegister(e) == e.id[1] = "register"
IsRequest(e) == e.id[1] = "registrationRequest"
IsResponse(e) == e.id[1] = "registrationResponse"
InFlight(e) == IsRequest(e) \/ IsResponse(e)

\* The times of messages: a node has one in flight at most, which belongs to
\* the registration one interval before the next, and a request carries the
\* identifier that the node still has.
MessageInv ==
    /\ \A e \in Core(events) :
         e.id[1] \notin {"deregistrationRequest", "deregistrationResponse"}
    /\ \A e \in Core(events) : IsRegister(e) => e.ts <= now + RegistrationInterval
    /\ \A q \in Core(events) : IsRequest(q) =>
         /\ q.id[3] = m_e2NodeId[q.id[2]]
         /\ \E e \in Core(events) : \E d \in Delays :
               e.id = RegisterMember(q.id[2]) /\ q.ts + RegistrationInterval = e.ts + d
    /\ \A p \in Core(events) : IsResponse(p) =>
         \E e \in Core(events) : \E d1, d2 \in Delays :
            e.id = RegisterMember(p.id[2]) /\ p.ts + RegistrationInterval = e.ts + d1 + d2
    /\ \A p, q \in Core(events) : InFlight(p) /\ InFlight(q) /\ p.id[2] = q.id[2] => p = q

\* A node knows the identifier that the RIC has issued to it, or will as soon
\* as the response arrives.
OwnInv ==
    \A id \in DOMAIN m_nodeTerminators :
        LET n == m_nodeTerminators[id] IN
        /\ n \in Nodes
        /\ \/ m_e2NodeId[n] = id
           \/ /\ m_e2NodeId[n] = 0
              /\ \E p \in Core(events) : p.id = RegistrationResponse(n, id)

\* Before a registration of time t under id grows old its node repeats it.
Fresh(n, id, t) ==
    \/ \E e \in Core(events) : e.id = RegisterMember(n) /\ e.ts <= t + RegistrationInterval
    \/ \E q \in Core(events) : q.id = RegistrationRequest(n, id) /\ q.ts <= t + Threshold

\* Every identifier is registered for good.
FreshInv ==
    /\ Dated(db.reg, now)
    /\ DOMAIN db.reg = DOMAIN m_nodeTerminators
    /\ ~ricActive => DOMAIN db.reg = {}
    /\ \A id \in DOMAIN db.reg :
         /\ IsIn(db.reg[id]) /\ IsLast(db.reg[id])
         /\ Fresh(m_nodeTerminators[id], id, db.reg[id].time)

\* A node without identifier has a message in flight or has not tried since
\* the last query of the RIC.
TriedInv ==
    /\ ~ricActive => \A l \in Core(events) : l.id # LmQueryMember
    /\ \A e, l \in Core(events) :
         IsRegister(e) /\ l.id = LmQueryMember /\ m_e2NodeId[e.id[2]] = 0 =>
            \/ e.ts + LmQueryInterval <= l.ts + RegistrationInterval
            \/ \E p \in Core(events) : InFlight(p) /\ p.id[2] = e.id[2]

SteadyInv == MessageInv /\ OwnInv /\ FreshInv /\ TriedInv

\* What the invariants of the other modules say of the queue.
Basis == Shape /\ IdInv /\ Entries(events) /\ RegisterInv /\ Clock

\* The numbers.
LEMMA Numbers ==
    /\ RegistrationInterval \in Nat /\ Threshold \in Nat
    /\ LmQueryInterval \in Nat /\ Delays \subseteq Nat
BY IntervalAssumption, Zenon

\* The kinds of the events.
LEMMA Kinds ==
    /\ \A n : RegisterMember(n)[1] = "register" /\ RegisterMember(n)[2] = n
    /\ \A n, id : /\ RegistrationRequest(n, id)[1] = "registrationRequest"
                  /\ RegistrationRequest(n, id)[2] = n /\ RegistrationRequest(n, id)[3] = id
    /\ \A n, id : /\ RegistrationResponse(n, id)[1] = "registrationResponse"
                  /\ RegistrationResponse(n, id)[2] = n /\ RegistrationResponse(n, id)[3] = id
    /\ LmQueryMember[1] = "lmQuery" /\ InactivityMember[1] = "inactivity"
BY Zenon DEF RegisterMember, RegistrationRequest, RegistrationResponse, LmQueryMember,
       InactivityMember

\* Messages are of nodes, and responses bring identifiers of theirs.
LEMMA Carried ==
    ASSUME Basis
    PROVE  /\ \A e \in Core(events) : InFlight(e) => e.id[2] \in Nodes
           /\ \A e \in Core(events) : IsResponse(e) => Owned(e.id[3], e.id[2])
           /\ \A id \in DOMAIN m_nodeTerminators : id # 0
<1>1. \A e \in Core(events) : Sound(e.id)
    BY Zenon DEF Basis, IdInv, Core, Only
<1>2. \A id \in DOMAIN m_nodeTerminators : id \in 1..db.seq
    BY Zenon DEF Basis, IdInv
<1>3. db.seq \in Nat
    BY Zenon DEF Basis, Shape, DbFields
<1>4. \A id \in DOMAIN m_nodeTerminators : id # 0
    BY <1>2, <1>3
<1> QED BY <1>1, <1>4, Zenon DEF Sound, InFlight, IsRequest, IsResponse

\* A step that changes nothing of this.
LEMMA SteadyKept ==
    ASSUME SteadyInv, Core(events') = Core(events), UNCHANGED <<now, coreVars>>
    PROVE  SteadyInv'
<1>1. UNCHANGED <<db, m_nodeTerminators, m_e2NodeId, ricActive>>
    BY Zenon DEF coreVars
<1>2. MessageInv'
    BY <1>1 DEF SteadyInv, MessageInv
<1>3. OwnInv'
    BY <1>1, Zenon DEF SteadyInv, OwnInv
<1>4. FreshInv'
    BY <1>1, Zenon DEF SteadyInv, FreshInv, Fresh
<1>5. TriedInv'
    BY <1>1, Zenon DEF SteadyInv, TriedInv
<1> QED BY <1>2, <1>3, <1>4, <1>5, Zenon DEF SteadyInv

\* Time passes.
LEMMA SteadyAdvance ==
    ASSUME Basis, SteadyInv, Advance
    PROVE  SteadyInv'
<1>1. /\ now' = now + 1 /\ Core(events') = Core(events)
      /\ UNCHANGED <<db, m_nodeTerminators, m_e2NodeId, ricActive>>
    BY Zenon DEF Advance, ricVars, nodeVars, Core, Only
<1>2. /\ now \in Nat /\ RegistrationInterval \in Nat
      /\ \A e \in Core(events) : e.ts \in Nat
    BY Numbers, Zenon DEF Basis, Clock
<1>3. \A e \in Core(events) : e.ts <= now + RegistrationInterval
                                => e.ts <= (now + 1) + RegistrationInterval
    BY <1>2
<1>4. MessageInv'
    BY <1>1, <1>3 DEF SteadyInv, MessageInv
<1>5. Dated(db.reg, now + 1)
    <2>1. Dated(db.reg, now)
        BY Zenon DEF SteadyInv, FreshInv
    <2> QED BY <2>1, <1>2 DEF Dated
<1>6. FreshInv'
    BY <1>1, <1>5, Zenon DEF SteadyInv, FreshInv, Fresh
<1>7. OwnInv' /\ TriedInv'
    BY <1>1, Zenon DEF SteadyInv, OwnInv, TriedInv
<1> QED BY <1>4, <1>6, <1>7, Zenon DEF SteadyInv

\* A step of the RIC's own timers.
LEMMA SteadyRic ==
    ASSUME Basis, SteadyInv, NEW gone, NEW new,
           Core(events') = (Core(events) \ gone) \cup new,
           \A x \in gone : x.id = InactivityMember \/ x.id = LmQueryMember,
           \A x \in new : x.id = InactivityMember \/ x.id = LmQueryMember,
           \A l \in new : l.id = LmQueryMember => l.ts = now + LmQueryInterval,
           UNCHANGED <<now, m_nodeTerminators, m_e2NodeId>>,
           DOMAIN db'.reg = DOMAIN db.reg, \A id \in DOMAIN db.reg : db'.reg[id] = db.reg[id],
           ~ricActive' => ~ricActive /\ \A l \in new : l.id # LmQueryMember
    PROVE  SteadyInv'
<1>1. \A x : x.id[1] \notin {"lmQuery", "inactivity"} =>
               (x \in Core(events') <=> x \in Core(events))
    BY Kinds, Zenon
<1>2. \A x \in new : /\ x.id[1] \notin {"deregistrationRequest", "deregistrationResponse"}
                     /\ ~IsRegister(x) /\ ~InFlight(x)
    BY Kinds, Zenon DEF IsRegister, InFlight, IsRequest, IsResponse
<1>3. MessageInv'
    <2>1. \A e \in Core(events') :
             e.id[1] \notin {"deregistrationRequest", "deregistrationResponse"}
        BY <1>1, <1>2, Zenon DEF SteadyInv, MessageInv
    <2>2. \A e \in Core(events') : IsRegister(e) => e.ts <= now' + RegistrationInterval
        BY <1>1, <1>2, Zenon DEF SteadyInv, MessageInv, IsRegister
    <2>3. \A q \in Core(events') : IsRequest(q) =>
             /\ q.id[3] = m_e2NodeId'[q.id[2]]
             /\ \E e \in Core(events') : \E d \in Delays :
                   e.id = RegisterMember(q.id[2]) /\ q.ts + RegistrationInterval = e.ts + d
        BY <1>1, <1>2, Kinds DEF SteadyInv, MessageInv, InFlight
    <2>4. \A p \in Core(events') : IsResponse(p) =>
             \E e \in Core(events') : \E d1, d2 \in Delays :
                e.id = RegisterMember(p.id[2]) /\ p.ts + RegistrationInterval = e.ts + d1 + d2
        BY <1>1, <1>2, Kinds DEF SteadyInv, MessageInv, InFlight
    <2>5. \A p, q \in Core(events') : InFlight(p) /\ InFlight(q) /\ p.id[2] = q.id[2] => p = q
        BY <1>1, <1>2, Zenon DEF SteadyInv, MessageInv
    <2> QED BY <2>1, <2>2, <2>3, <2>4, <2>5, Zenon DEF MessageInv
<1>4. OwnInv'
    BY <1>1, Kinds DEF SteadyInv, OwnInv
<1>5. FreshInv'
    <2>1. Dated(db'.reg, now')
        BY Zenon DEF SteadyInv, FreshInv, Dated
    <2>2. ASSUME NEW id \in DOMAIN db.reg
          PROVE  /\ IsIn(db'.reg[id]) /\ IsLast(db'.reg[id])
                 /\ Fresh(m_nodeTerminators[id], id, db.reg[id].time)'
        <3>1. /\ IsIn(db.reg[id]) /\ IsLast(db.reg[id])
              /\ Fresh(m_nodeTerminators[id], id, db.reg[id].time)
            BY Zenon DEF SteadyInv, FreshInv
        <3>2. Fresh(m_nodeTerminators[id], id, db.reg[id].time)'
            BY <3>1, <1>1, Kinds DEF Fresh
        <3> QED BY <3>1, <3>2, Zenon
    <2> QED BY <2>1, <2>2, Zenon DEF SteadyInv, FreshInv
<1>6. TriedInv'
    <2>1. ~ricActive' => \A l \in Core(events') : l.id # LmQueryMember
        BY Zenon DEF SteadyInv, TriedInv
    <2>2. ASSUME NEW e \in Core(events'), NEW l \in Core(events'),
                 IsRegister(e), l.id = LmQueryMember, m_e2NodeId[e.id[2]] = 0
          PROVE  \/ e.ts + LmQueryInterval <= l.ts + RegistrationInterval
                 \/ \E p \in Core(events') : InFlight(p) /\ p.id[2] = e.id[2]
        <3>1. e \in Core(events)
            BY <1>2, <2>2, Zenon
        <3>2. CASE l \in Core(events)
            <4>1. \/ e.ts + LmQueryInterval <= l.ts + RegistrationInterval
                  \/ \E p \in Core(events) : InFlight(p) /\ p.id[2] = e.id[2]
                BY <2>2, <3>1, <3>2, Zenon DEF SteadyInv, TriedInv
            <4> QED BY <4>1, <1>1, Zenon DEF InFlight, IsRequest, IsResponse
        <3>3. CASE l \in new
            <4>1. l.ts = now + LmQueryInterval /\ e.ts <= now + RegistrationInterval
                BY <2>2, <3>1, <3>3, Zenon DEF SteadyInv, MessageInv
            <4>2. /\ now \in Nat /\ e.ts \in Nat
                  /\ RegistrationInterval \in Nat /\ LmQueryInterval \in Nat
                BY <3>1, Numbers, Zenon DEF Basis, Clock
            <4> QED BY <4>1, <4>2
        <3> QED BY <3>2, <3>3, Zenon
    <2> QED BY <2>1, <2>2, Zenon DEF TriedInv
<1> QED BY <1>3, <1>4, <1>5, <1>6, Zenon DEF SteadyInv

\* Start()
LEMMA SteadyStart ==
    ASSUME Basis, SteadyInv, Start
    PROVE  SteadyInv'
<1>1. PICK l, c : /\ Core(events') = Core(events) \cup {l, c}
                  /\ Scheduled(l, now + LmQueryInterval, LmQueryMember)
                  /\ Scheduled(c, now + InactivityInterval, InactivityMember)
    BY StartEffect, Zenon
<1>2. ricActive' /\ UNCHANGED <<now, db, m_nodeTerminators, m_e2NodeId>>
    BY StartEffect, Zenon
<1> PICK gone, new : gone = {} /\ new = {l, c}
    BY Zenon
<1>3. Core(events') = (Core(events) \ gone) \cup new
    BY <1>1, Zenon
<1>4. /\ \A x \in new : x.id = InactivityMember \/ x.id = LmQueryMember
      /\ \A x \in new : x.id = LmQueryMember => x.ts = now + LmQueryInterval
    BY <1>1, Kinds, Zenon DEF Scheduled
<1> QED BY <1>2, <1>3, <1>4, SteadyRic, Zenon

\* CheckForInactivity() finds nobody silent.
LEMMA SteadyCheck ==
    ASSUME Steady, Basis, SteadyInv, NEW e \in events, CheckForInactivity(e)
    PROVE  SteadyInv'
<1>1. PICK listed \in Grouped(db) : \E silent, D, L, c : Checks(e, listed, silent, D, L, c)
    BY CheckEffect, Zenon
<1>2. PICK silent, D, L, c : Checks(e, listed, silent, D, L, c)
    BY <1>1, Zenon
<1>3. UNCHANGED <<now, ricActive, m_nodeTerminators, m_e2NodeId>>
    BY CheckEffect, Zenon
<1>4. e.id = InactivityMember \/ e.id = LmQueryMember
    BY CheckEffect, Zenon
<1>5. ASSUME NEW id \in listed PROVE ~(now > db.reg[id].time + Threshold)
    <2>1. id \in DOMAIN db.reg
        BY <1>1, Zenon DEF Grouped
    <2> PICK t : t = db.reg[id].time
        BY Zenon
    <2>2. t \in Nat /\ Fresh(m_nodeTerminators[id], id, t)
        BY <2>1, Zenon DEF SteadyInv, FreshInv, Dated
    <2>3. /\ now \in Nat /\ RegistrationInterval \in Nat /\ Threshold \in Nat
          /\ \A x \in Core(events) : x.ts \in Nat /\ x.ts >= now
        BY Numbers, Zenon DEF Basis, Clock
    <2>4. RegistrationInterval <= Threshold
        <3>1. PICK d \in Delays : RegistrationInterval + d <= Threshold
            BY Zenon DEF Steady
        <3>2. d \in Nat
            BY Numbers, Zenon
        <3> QED BY <2>3, <3>1, <3>2
    <2>5. PICK x \in Core(events) : x.ts <= t + RegistrationInterval \/ x.ts <= t + Threshold
        BY <2>2, Zenon DEF Fresh
    <2>6. x.ts <= t + Threshold
        BY <2>2, <2>3, <2>4, <2>5
    <2> QED BY <2>2, <2>3, <2>6
<1>6. silent = {} /\ D = {}
    BY <1>2, <1>5, Zenon DEF Checks
<1> PICK gone, new : gone = {e} \cup Members(InactivityMember) /\ new = {c} \cup L
    BY Zenon
<1>7. Core(events') = (Core(events) \ gone) \cup new
    BY <1>2, <1>6, Zenon DEF Checks
<1>8. /\ \A x \in gone : x.id = InactivityMember \/ x.id = LmQueryMember
      /\ \A x \in new : x.id = InactivityMember \/ x.id = LmQueryMember
      /\ \A x \in new : x.id = LmQueryMember => x.ts = now + LmQueryInterval
    <2>1. /\ c.id = InactivityMember
          /\ \A l \in L : l.id = LmQueryMember /\ l.ts = now + LmQueryInterval
        BY <1>2, Zenon DEF Checks, Scheduled
    <2>2. InactivityMember # LmQueryMember
        BY Kinds, Zenon
    <2> QED BY <1>4, <2>1, <2>2, Zenon DEF Members, Held
<1>9. DOMAIN db'.reg = DOMAIN db.reg /\ \A id \in DOMAIN db.reg : db'.reg[id] = db.reg[id]
    <2> PICK d, r, t : d = db /\ r = db' /\ t = now
        BY Zenon
    <2>1. r = DeregisterNodes(d, silent, t)
        BY <1>2, Zenon DEF Checks
    <2>2. DbFields(d) /\ t \in Nat /\ Dated(d.reg, t)
        BY Zenon DEF Basis, Shape, Clock, SteadyInv, FreshInv
    <2>3. /\ DOMAIN r.reg = DOMAIN d.reg
          /\ \A j \in DOMAIN d.reg : j \in silent \/ r.reg[j] = d.reg[j]
        BY <2>1, <2>2, DeregisteredRows
    <2> QED BY <2>3, <1>6, Zenon
<1>10. ~ricActive => \A l \in new : l.id # LmQueryMember
    <2>1. SUFFICES ASSUME ~ricActive PROVE \A l \in new : l.id # LmQueryMember
        BY Zenon
    <2>2. e \in Core(events)
        BY <1>4, Kinds, Zenon DEF Core, Only, CoreKinds
    <2>3. e.id = InactivityMember
        BY <1>4, <2>1, <2>2, Zenon DEF SteadyInv, TriedInv
    <2>4. L = {} /\ c.id = InactivityMember
        BY <1>2, <2>3, Zenon DEF Checks, Scheduled
    <2> QED BY <2>4, Kinds, Zenon
<1> QED BY <1>3, <1>7, <1>8, <1>9, <1>10, SteadyRic, Zenon

\* Register(): the request and the next registration of node n, which has no
\* message in flight.
LEMMA SteadySend ==
    ASSUME Steady, Basis, SteadyInv, NEW n \in Nodes, NEW gone, Sends(n, gone),
           \A e : e \in gone <=> e \in Core(events) /\ e.id[1] = "register" /\ e.id[2] = n,
           \A e \in gone : e.ts = now,
           \A e \in Core(events) : InFlight(e) => e.id[2] # n,
           UNCHANGED <<now, db, m_nodeTerminators, m_e2NodeId, ricActive>>
    PROVE  SteadyInv'
<1>1. PICK d \in Delays : \E q, p :
         /\ Core(events') = (Core(events) \ gone) \cup {q, p}
         /\ q.ts = now + d /\ q.id = RegistrationRequest(n, m_e2NodeId[n])
         /\ p.ts = now + RegistrationInterval /\ p.id = RegisterMember(n)
    BY Zenon DEF Sends, Scheduled
<1>2. PICK q, p : /\ Core(events') = (Core(events) \ gone) \cup {q, p}
                  /\ q.ts = now + d /\ q.id = RegistrationRequest(n, m_e2NodeId[n])
                  /\ p.ts = now + RegistrationInterval /\ p.id = RegisterMember(n)
    BY <1>1, Zenon
<1>n. /\ now \in Nat /\ d \in Nat /\ RegistrationInterval \in Nat /\ Threshold \in Nat
      /\ \A x \in Core(events) : x.ts \in Nat
    BY Numbers, Zenon DEF Basis, Clock
<1>3. /\ IsRequest(q) /\ InFlight(q) /\ ~IsResponse(q) /\ ~IsRegister(q)
      /\ q.id[2] = n /\ q.id[3] = m_e2NodeId[n]
      /\ IsRegister(p) /\ ~InFlight(p) /\ ~IsRequest(p) /\ ~IsResponse(p) /\ p.id[2] = n
    BY <1>2, Kinds DEF IsRequest, IsResponse, InFlight, IsRegister
<1>4. \A x \in Core(events) : ~IsRegister(x) \/ x.id[2] # n => x \in Core(events')
    BY <1>2, Zenon DEF IsRegister
<1>5. \A x \in Core(events') : x = q \/ x = p \/ (x \in Core(events) /\ x \notin gone)
    BY <1>2, Zenon
<1>6. \A x \in Core(events') : InFlight(x) => x = q \/ (x \in Core(events) /\ x.id[2] # n)
    BY <1>3, <1>5, Zenon
<1>7. q \in Core(events') /\ p \in Core(events')
    BY <1>2, Zenon
<1>8. MessageInv'
    <2>1. \A e \in Core(events') :
             e.id[1] \notin {"deregistrationRequest", "deregistrationResponse"}
        BY <1>5, <1>3, Zenon DEF SteadyInv, MessageInv, IsRequest, IsRegister
    <2>2. \A e \in Core(events') : IsRegister(e) => e.ts <= now' + RegistrationInterval
        <3>1. p.ts <= now + RegistrationInterval
            BY <1>2, <1>n
        <3> QED BY <1>3, <1>5, <3>1, Zenon DEF SteadyInv, MessageInv
    <2>3. ASSUME NEW x \in Core(events'), IsRequest(x)
          PROVE  /\ x.id[3] = m_e2NodeId'[x.id[2]]
                 /\ \E e \in Core(events') : \E y \in Delays :
                       e.id = RegisterMember(x.id[2]) /\ x.ts + RegistrationInterval = e.ts + y
        <3>1. CASE x = q
            <4>1. q.ts + RegistrationInterval = p.ts + d
                BY <1>2, <1>n
            <4> QED BY <3>1, <4>1, <1>2, <1>3, <1>7, Zenon
        <3>2. CASE x \in Core(events) /\ x.id[2] # n
            <4>1. /\ x.id[3] = m_e2NodeId[x.id[2]]
                  /\ \E e \in Core(events) : \E y \in Delays :
                       e.id = RegisterMember(x.id[2]) /\ x.ts + RegistrationInterval = e.ts + y
                BY <2>3, <3>2, Zenon DEF SteadyInv, MessageInv
            <4>2. \A e \in Core(events) : e.id = RegisterMember(x.id[2]) => e \in Core(events')
                BY <3>2, <1>4, Kinds
            <4> QED BY <4>1, <4>2, Zenon
        <3> QED BY <2>3, <3>1, <3>2, <1>6, Zenon DEF InFlight
    <2>4. ASSUME NEW x \in Core(events'), IsResponse(x)
          PROVE  \E e \in Core(events') : \E y, z \in Delays :
                    e.id = RegisterMember(x.id[2]) /\ x.ts + RegistrationInterval = e.ts + y + z
        <3>1. x \in Core(events) /\ x.id[2] # n
            BY <2>4, <1>3, <1>6, Zenon DEF InFlight
        <3>2. \E e \in Core(events) : \E y, z \in Delays :
                  e.id = RegisterMember(x.id[2]) /\ x.ts + RegistrationInterval = e.ts + y + z
            BY <2>4, <3>1, Zenon DEF SteadyInv, MessageInv
        <3>3. \A e \in Core(events) : e.id = RegisterMember(x.id[2]) => e \in Core(events')
            BY <3>1, <1>4, Kinds
        <3> QED BY <3>2, <3>3, Zenon
    <2>5. \A x, y \in Core(events') : InFlight(x) /\ InFlight(y) /\ x.id[2] = y.id[2] => x = y
        BY <1>3, <1>6, Zenon DEF SteadyInv, MessageInv
    <2> QED BY <2>1, <2>2, <2>3, <2>4, <2>5, Zenon DEF MessageInv
<1>9. \A x \in Core(events) : InFlight(x) => x \in Core(events')
    BY <1>4, Zenon
<1>10. OwnInv'
    <2>1. \A m, id : \A x \in Core(events) :
             x.id = RegistrationResponse(m, id) => x \in Core(events')
        BY <1>9, Kinds DEF InFlight, IsResponse
    <2> QED BY <2>1 DEF SteadyInv, OwnInv
<1>11. FreshInv'
    <2>1. ASSUME NEW id \in DOMAIN db.reg
          PROVE  Fresh(m_nodeTerminators[id], id, db.reg[id].time)'
        <3> PICK m, t : m = m_nodeTerminators[id] /\ t = db.reg[id].time
            BY Zenon
        <3>1. t \in Nat /\ Fresh(m, id, t) /\ id \in DOMAIN m_nodeTerminators
            BY Zenon DEF SteadyInv, FreshInv, Dated
        <3>2. CASE m # n
            <4>1. \A x \in Core(events) : x.id = RegisterMember(m) => x \in Core(events')
                BY <3>2, <1>4, Kinds
            <4>2. \A x \in Core(events) : x.id = RegistrationRequest(m, id) => x \in Core(events')
                BY <1>9, Kinds DEF InFlight, IsRequest
            <4> QED BY <3>1, <4>1, <4>2, Zenon DEF Fresh
        <3>3. CASE m = n
            <4>1. \A x \in Core(events) : x.id # RegistrationRequest(n, id)
                                            /\ x.id # RegistrationResponse(n, id)
                BY Kinds DEF InFlight, IsRequest, IsResponse
            <4>2. PICK x \in Core(events) : x.id = RegisterMember(n)
                                              /\ x.ts <= t + RegistrationInterval
                BY <3>1, <3>3, <4>1, Zenon DEF Fresh
            <4>3. x.ts = now
                BY <4>2, Kinds
            <4>4. m_e2NodeId[n] = id
                BY <3>1, <3>3, <4>1, Zenon DEF SteadyInv, OwnInv
            <4>5. RegistrationInterval + d <= Threshold
                BY Zenon DEF Steady
            <4>6. q.ts <= t + Threshold
                BY <1>2, <1>n, <3>1, <4>2, <4>3, <4>5
            <4> QED BY <1>2, <1>7, <3>3, <4>4, <4>6, Zenon DEF Fresh
        <3> QED BY <3>2, <3>3, Zenon
    <2> QED BY <2>1, Zenon DEF SteadyInv, FreshInv
<1>12. TriedInv'
    <2>1. \A l \in Core(events') : l.id = LmQueryMember => l \in Core(events)
        BY <1>3, <1>5, Kinds DEF IsRequest, IsRegister
    <2>2. ~ricActive' => \A l \in Core(events') : l.id # LmQueryMember
        BY <2>1, Zenon DEF SteadyInv, TriedInv
    <2>3. ASSUME NEW e \in Core(events'), NEW l \in Core(events'),
                 IsRegister(e), l.id = LmQueryMember, m_e2NodeId[e.id[2]] = 0
          PROVE  \/ e.ts + LmQueryInterval <= l.ts + RegistrationInterval
                 \/ \E x \in Core(events') : InFlight(x) /\ x.id[2] = e.id[2]
        <3>1. CASE e.id[2] = n
            BY <3>1, <1>3, <1>7, Zenon
        <3>2. CASE e \in Core(events) /\ e.id[2] # n
            BY <2>1, <2>3, <3>2, <1>9, Zenon DEF SteadyInv, TriedInv
        <3> QED BY <2>3, <3>1, <3>2, <1>3, <1>5, Zenon
    <2> QED BY <2>2, <2>3, Zenon DEF TriedInv
<1> QED BY <1>8, <1>10, <1>11, <1>12, Zenon DEF SteadyInv

\* Activate(): an inactive node has neither a registration nor a message.
LEMMA SteadyActivate ==
    ASSUME Steady, Basis, SteadyInv, NEW n \in Nodes, ActivateNode(n)
    PROVE  SteadyInv'
<1> PICK gone : gone = Members(RegisterMember(n))
    BY Zenon
<1>1. \A e : e \in gone <=> e \in Core(events) /\ e.id[1] = "register" /\ e.id[2] = n
    BY RegistersOfNode, Zenon DEF Basis
<1>2. Sends(n, gone) /\ ~nodeActive[n]
    BY ActivateEffect, Zenon DEF Basis
<1>3. UNCHANGED <<now, db, m_nodeTerminators, m_e2NodeId, ricActive>>
    BY ActivateEffect, Zenon DEF Basis
<1>4. \A e \in Core(events) : e.id # RegisterMember(n)
    BY <1>2, Kinds DEF Basis, RegisterInv
<1>5. \A e \in gone : e.ts = now
    BY <1>1, <1>2 DEF Basis, RegisterInv
<1>6. ASSUME NEW e \in Core(events), InFlight(e) PROVE e.id[2] # n
    BY <1>4, <1>6 DEF SteadyInv, MessageInv, InFlight
<1> QED BY <1>1, <1>2, <1>3, <1>5, <1>6, SteadySend, Zenon

\* The next registration is due: the round trip of the one before is over.
LEMMA SteadyRegister ==
    ASSUME Steady, Basis, SteadyInv, NEW e \in events, RegisterEvent(e)
    PROVE  SteadyInv'
<1> PICK n, gone : n = e.id[2] /\ gone = {e} \cup Members(RegisterMember(n))
    BY Zenon
<1>1. e \in Core(events) /\ e.id[1] = "register" /\ e.ts = now
    BY Zenon DEF RegisterEvent, Fires, Kind, Core, Only, CoreKinds
<1>2. n \in Nodes /\ e.id = RegisterMember(n)
    BY <1>1, Zenon DEF Basis, RegisterInv
<1>3. \A f : f \in gone <=> f \in Core(events) /\ f.id[1] = "register" /\ f.id[2] = n
    BY <1>1, RegistersOfNode DEF Basis
<1>4. Sends(n, gone)
    BY RegisterEffect, Zenon
<1>5. UNCHANGED <<now, db, m_nodeTerminators, m_e2NodeId, ricActive>>
    BY RegisterEffect, Zenon DEF coreVars
<1>6. \A f \in Core(events) : f.id = RegisterMember(n) => f = e
    BY <1>1, <1>2, Zenon DEF Basis, RegisterInv
<1>7. \A f \in gone : f.ts = now
    <2>1. \A f \in gone : f = e
        BY <1>3, <1>6 DEF Basis, RegisterInv
    <2> QED BY <1>1, <2>1, Zenon
<1>n. /\ now \in Nat /\ RegistrationInterval \in Nat /\ Delays \subseteq Nat
      /\ \A x \in Core(events) : x.ts \in Nat /\ x.ts >= now
    BY Numbers, Zenon DEF Basis, Clock
<1>8. ASSUME NEW x \in Core(events), IsRequest(x), x.id[2] = n PROVE FALSE
    <2>1. PICK d \in Delays : x.ts + RegistrationInterval = now + d
        BY <1>1, <1>6, <1>8 DEF SteadyInv, MessageInv
    <2>2. 2 * d < RegistrationInterval
        BY Zenon DEF Steady
    <2> QED BY <1>n, <2>1, <2>2
<1>9. ASSUME NEW x \in Core(events), IsResponse(x), x.id[2] = n PROVE FALSE
    <2>1. PICK d1, d2 \in Delays : x.ts + RegistrationInterval = now + d1 + d2
        BY <1>1, <1>6, <1>9 DEF SteadyInv, MessageInv
    <2>2. 2 * d1 < RegistrationInterval /\ 2 * d2 < RegistrationInterval
        BY Zenon DEF Steady
    <2> QED BY <1>n, <2>1, <2>2
<1>10. \A x \in Core(events) : InFlight(x) => x.id[2] # n
    BY <1>8, <1>9, Zenon DEF InFlight
<1> QED BY <1>2, <1>3, <1>4, <1>5, <1>7, <1>10, SteadySend

\* A message that is taken is the only one of its node.
LEMMA Taken ==
    ASSUME Basis, SteadyInv, NEW e \in Core(events), InFlight(e),
           NEW new, Core(events') = (Core(events) \ {e}) \cup new
    PROVE  /\ \A x \in Core(events) : ~InFlight(x) \/ x.id[2] # e.id[2] => x \in Core(events')
           /\ \A x \in Core(events) : InFlight(x) /\ x.id[2] = e.id[2] => x = e
           /\ \A m : \A x \in Core(events) : x.id = RegisterMember(m) => x \in Core(events')
<1>1. \A x \in Core(events) : InFlight(x) /\ x.id[2] = e.id[2] => x = e
    BY Zenon DEF SteadyInv, MessageInv
<1>2. \A m : \A x : x.id = RegisterMember(m) => ~InFlight(x)
    BY Kinds, Zenon DEF InFlight, IsRequest, IsResponse
<1> QED BY <1>1, <1>2, Zenon

\* ReceiveRegistrationResponse(): the node learns the identifier that it owns.
LEMMA SteadyResponse ==
    ASSUME Steady, Basis, SteadyInv, NEW e \in events, RegistrationResponseEvent(e)
    PROVE  SteadyInv'
<1> PICK n, id, new : n = e.id[2] /\ id = e.id[3] /\ new = {}
    BY Zenon
<1>1. e \in Core(events) /\ IsResponse(e) /\ InFlight(e)
    BY Zenon DEF RegistrationResponseEvent, Kind, Core, Only, CoreKinds, IsResponse, InFlight
<1>2. n \in Nodes /\ Owned(id, n) /\ id # 0
    BY <1>1, Carried, Zenon DEF Owned
<1>3. Core(events') = (Core(events) \ {e}) \cup new
    BY ResponseEffect, Zenon DEF Basis
<1>4. m_e2NodeId' = [m_e2NodeId EXCEPT ![n] = id]
    BY ResponseEffect, Zenon DEF Basis
<1>5. UNCHANGED <<now, db, m_nodeTerminators, ricActive>>
    BY ResponseEffect, Zenon DEF Basis
<1>6. m_e2NodeId'[n] = id /\ \A m \in Nodes : m # n => m_e2NodeId'[m] = m_e2NodeId[m]
    BY <1>2, <1>4, Zenon DEF Basis, Shape
<1>7. /\ \A x \in Core(events) : ~InFlight(x) \/ x.id[2] # n => x \in Core(events')
      /\ \A x \in Core(events) : InFlight(x) /\ x.id[2] = n => x = e
      /\ \A m : \A x \in Core(events) : x.id = RegisterMember(m) => x \in Core(events')
    BY <1>1, <1>3, Taken, Zenon
<1>8. \A x \in Core(events') : x \in Core(events) /\ x # e
    BY <1>3, Zenon
<1>9. \A x \in Core(events') : InFlight(x) => x.id[2] # n /\ x.id[2] \in Nodes
    BY <1>7, <1>8, Carried, Zenon
<1>10. MessageInv'
    <2>1. /\ \A x \in Core(events') :
                x.id[1] \notin {"deregistrationRequest", "deregistrationResponse"}
          /\ \A x \in Core(events') : IsRegister(x) => x.ts <= now' + RegistrationInterval
        BY <1>5, <1>8, Zenon DEF SteadyInv, MessageInv
    <2>2. \A q \in Core(events') : IsRequest(q) =>
             /\ q.id[3] = m_e2NodeId'[q.id[2]]
             /\ \E x \in Core(events') : \E d \in Delays :
                   x.id = RegisterMember(q.id[2]) /\ q.ts + RegistrationInterval = x.ts + d
        BY <1>6, <1>7, <1>8, <1>9 DEF SteadyInv, MessageInv, InFlight
    <2>3. \A p \in Core(events') : IsResponse(p) =>
             \E x \in Core(events') : \E d1, d2 \in Delays :
                x.id = RegisterMember(p.id[2]) /\ p.ts + RegistrationInterval = x.ts + d1 + d2
        BY <1>7, <1>8 DEF SteadyInv, MessageInv
    <2>4. \A p, q \in Core(events') : InFlight(p) /\ InFlight(q) /\ p.id[2] = q.id[2] => p = q
        BY <1>8, Zenon DEF SteadyInv, MessageInv
    <2> QED BY <2>1, <2>2, <2>3, <2>4, Zenon DEF MessageInv
<1>11. OwnInv'
    <2>1. ASSUME NEW j \in DOMAIN m_nodeTerminators
          PROVE  LET m == m_nodeTerminators[j] IN
                 /\ m \in Nodes
                 /\ \/ m_e2NodeId'[m] = j
                    \/ /\ m_e2NodeId'[m] = 0
                       /\ \E p \in Core(events') : p.id = RegistrationResponse(m, j)
        <3> PICK m : m = m_nodeTerminators[j]
            BY Zenon
        <3>1. /\ m \in Nodes
              /\ \/ m_e2NodeId[m] = j
                 \/ /\ m_e2NodeId[m] = 0
                    /\ \E p \in Core(events) : p.id = RegistrationResponse(m, j)
            BY Zenon DEF SteadyInv, OwnInv
        <3>2. \A p : p.id = RegistrationResponse(m, j) =>
                       InFlight(p) /\ p.id[2] = m /\ p.id[3] = j
            BY Kinds DEF InFlight, IsResponse
        <3>3. CASE m # n
            BY <1>6, <1>7, <3>1, <3>2, <3>3, Zenon
        <3>4. CASE m = n
            <4>1. m_e2NodeId[n] = id \/ m_e2NodeId[n] = 0
                BY <1>2, Zenon DEF SteadyInv, OwnInv, Owned
            <4>2. j # 0
                BY Carried, Zenon
            <4>3. j = id
                BY <1>7, <3>1, <3>2, <3>4, <4>1, <4>2
            <4> QED BY <1>6, <3>1, <3>4, <4>3, Zenon
        <3> QED BY <3>3, <3>4, Zenon
    <2> QED BY <2>1, <1>5, Zenon DEF OwnInv
<1>12. FreshInv'
    <2>1. \A m, j : \A x \in Core(events) :
             x.id = RegistrationRequest(m, j) => x \in Core(events')
        <3>1. \A m, j, x : x.id = RegistrationRequest(m, j) => ~IsResponse(x)
            BY Kinds DEF IsResponse
        <3> QED BY <1>1, <1>3, <3>1, Zenon
    <2>2. ASSUME NEW j \in DOMAIN db.reg
          PROVE  Fresh(m_nodeTerminators[j], j, db.reg[j].time)'
        <3>1. Fresh(m_nodeTerminators[j], j, db.reg[j].time)
            BY Zenon DEF SteadyInv, FreshInv
        <3> QED BY <3>1, <2>1, <1>5, <1>7, Zenon DEF Fresh
    <2> QED BY <2>2, <1>5, Zenon DEF SteadyInv, FreshInv
<1>13. TriedInv'
    <2>1. ~ricActive' => \A l \in Core(events') : l.id # LmQueryMember
        BY <1>5, <1>8, Zenon DEF SteadyInv, TriedInv
    <2>2. ASSUME NEW r \in Core(events'), NEW l \in Core(events'),
                 IsRegister(r), l.id = LmQueryMember, m_e2NodeId'[r.id[2]] = 0
          PROVE  \/ r.ts + LmQueryInterval <= l.ts + RegistrationInterval
                 \/ \E x \in Core(events') : InFlight(x) /\ x.id[2] = r.id[2]
        <3>1. r.id[2] \in Nodes /\ r.id[2] # n
            BY <1>2, <1>6, <1>8, <2>2, Zenon DEF Basis, RegisterInv, IsRegister
        <3>2. m_e2NodeId[r.id[2]] = 0
            BY <3>1, <1>6, <2>2, Zenon
        <3>3. \/ r.ts + LmQueryInterval <= l.ts + RegistrationInterval
              \/ \E x \in Core(events) : InFlight(x) /\ x.id[2] = r.id[2]
            BY <1>8, <2>2, <3>2, Zenon DEF SteadyInv, TriedInv
        <3> QED BY <3>1, <3>3, <1>7, Zenon
    <2> QED BY <2>1, <2>2, Zenon DEF TriedInv
<1> QED BY <1>10, <1>11, <1>12, <1>13, Zenon DEF SteadyInv
=============================================================================
