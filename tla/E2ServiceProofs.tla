-------------------------- MODULE E2ServiceProofs --------------------------
(***************************************************************************)
(* Proofs about what the RIC can rely on: silent nodes leave, nodes in     *)
(* steady operation register in time and stay registered and listed, and   *)
(* a command reaches the gNB that it is for. For any set of nodes, delays  *)
(* and intervals.                                                          *)
(***************************************************************************)
EXTENDS E2Commands, E2TimingProofs

-----------------------------------------------------------------------------
(* Silent nodes.                                                           *)

\* While the RIC runs a check is pending, soon enough for every registration.
WatchInv ==
    /\ Dated(db.reg, now)
    /\ ~ricActive => DOMAIN db.reg = {}
    /\ ricActive =>
         \E c \in Core(events) :
            /\ c.id = InactivityMember /\ c.ts <= now + InactivityInterval
            /\ \A id \in DOMAIN db.reg : IsIn(db.reg[id])
                 => c.ts <= db.reg[id].time + Threshold + InactivityInterval

\* A step that leaves the checks, the registrations and the RIC alone.
LEMMA WatchKept ==
    ASSUME WatchInv, UNCHANGED <<now, db, ricActive>>,
           \A c \in Core(events) : c.id = InactivityMember => c \in Core(events')
    PROVE  WatchInv'
BY Zenon DEF WatchInv

\* Registering or deregistering a node in a running RIC.
LEMMA WatchLogged ==
    ASSUME WatchInv, Clock, UNCHANGED <<now, ricActive>>, ricActive, NEW id,
           \/ db'.reg = LoggedIn(db.reg, id, now)
           \/ db'.reg = LoggedOut(db.reg, id, now),
           \A c \in Core(events) : c.id = InactivityMember => c \in Core(events')
    PROVE  WatchInv'
<1> PICK t, reg, new : t = now /\ reg = db.reg /\ new = db'.reg
    BY Zenon
<1>n. /\ t \in Nat /\ InactivityInterval \in Nat /\ Threshold \in Nat
      /\ \A c \in Core(events) : c.ts \in Nat
    BY IntervalAssumption, Zenon DEF Clock
<1>1. t \in Nat /\ Dated(reg, t)
    BY Zenon DEF Clock, WatchInv
<1>2. /\ DOMAIN new = DOMAIN reg \cup {id} /\ new[id].time = t /\ Dated(new, t)
      /\ \A j \in DOMAIN reg : j # id => new[j] = reg[j]
    <2>1. CASE new = LoggedIn(reg, id, t)
        <3>1. Rewritten(reg, id, t, new)
            BY <2>1, <1>1, LoggedInRow, Zenon
        <3> QED BY <3>1, Zenon DEF Rewritten
    <2>2. CASE new = LoggedOut(reg, id, t)
        <3>1. Rewritten(reg, id, t, new)
            BY <2>2, <1>1, LoggedOutRow, Zenon
        <3> QED BY <3>1, Zenon DEF Rewritten
    <2> QED BY <2>1, <2>2, Zenon
<1>3. PICK c \in Core(events) :
            /\ c.id = InactivityMember /\ c.ts <= t + InactivityInterval
            /\ \A j \in DOMAIN reg : IsIn(reg[j])
                 => c.ts <= reg[j].time + Threshold + InactivityInterval
    BY Zenon DEF WatchInv
<1>4. c.ts <= t + Threshold + InactivityInterval
    BY <1>3, <1>n
<1>5. \A j \in DOMAIN new : IsIn(new[j]) => c.ts <= new[j].time + Threshold + InactivityInterval
    BY <1>2, <1>3, <1>4, Zenon
<1> QED BY <1>2, <1>3, <1>5, Zenon DEF WatchInv

\* The check itself: who is still registered after it is not silent yet.
LEMMA WatchChecked ==
    ASSUME WatchInv, Clock, DbFields(db), NEW e \in events, CheckForInactivity(e)
    PROVE  WatchInv'
<1>1. PICK listed \in Grouped(db) : \E silent, D, L, c : Checks(e, listed, silent, D, L, c)
    BY CheckEffect, Zenon
<1>2. PICK silent, D, L, c : Checks(e, listed, silent, D, L, c)
    BY <1>1, Zenon
<1>3. UNCHANGED <<now, ricActive>>
    BY CheckEffect, Zenon
<1> PICK t, d, r : t = now /\ d = db /\ r = db'
    BY Zenon
<1>n. t \in Nat /\ InactivityInterval \in Nat /\ Threshold \in Nat /\ Dated(d.reg, t)
    BY IntervalAssumption, Zenon DEF Clock, WatchInv
<1>4. r = DeregisterNodes(d, silent, t)
    BY <1>2, Zenon DEF Checks
<1>5. /\ DOMAIN r.reg = DOMAIN d.reg
      /\ \A j \in DOMAIN d.reg :
           IF j \in silent THEN r.reg[j].time = t /\ IsOut(r.reg[j]) ELSE r.reg[j] = d.reg[j]
      /\ Dated(r.reg, t)
    BY <1>4, <1>n, DeregisteredRows
<1>6. /\ c \in Core(events') /\ c.id = InactivityMember /\ c.ts = t + InactivityInterval
      /\ silent = {id \in listed : t > d.reg[id].time + Threshold}
    BY <1>2, Zenon DEF Checks, Scheduled
<1>7. ASSUME NEW j \in DOMAIN r.reg, IsIn(r.reg[j])
      PROVE  c.ts <= r.reg[j].time + Threshold + InactivityInterval
    <2>1. j \notin silent
        BY <1>5, <1>7, Zenon DEF IsIn, IsOut
    <2>2. j \in DOMAIN d.reg /\ r.reg[j] = d.reg[j]
        BY <1>5, <2>1, Zenon
    <2>3. j \in listed
        BY <1>1, <1>7, <2>2, ListedIn, Zenon
    <2>4. d.reg[j].time \in Nat /\ ~(t > d.reg[j].time + Threshold)
        BY <1>6, <1>n, <2>1, <2>2, <2>3, Zenon DEF Dated
    <2>5. t <= d.reg[j].time + Threshold
        BY <2>4, <1>n
    <2> QED BY <1>6, <1>n, <2>2, <2>4, <2>5
<1>8. c.ts <= t + InactivityInterval
    BY <1>6, <1>n
<1> QED BY <1>3, <1>5, <1>6, <1>7, <1>8, Zenon DEF WatchInv

\* As long as the RIC is not stopped every step keeps a check pending.
LEMMA WatchStep ==
    ASSUME "Stop" \notin Calls, Entries(events), DbFields(db), Clock, WatchInv, [Next]_vars
    PROVE  WatchInv'
<1>k. /\ InactivityMember[1] = "inactivity"
      /\ \A n : RegisterMember(n)[1] = "register"
    BY Zenon DEF InactivityMember, RegisterMember
<1>n. now \in Nat /\ InactivityInterval \in Nat /\ \A c \in Core(events) : c.ts \in Nat
    BY IntervalAssumption, Zenon DEF Clock
<1>1. CASE UNCHANGED vars
    BY <1>1, WatchKept, Zenon DEF vars, simVars, ricVars
<1>2. CASE Advance
    <2>1. now' = now + 1 /\ UNCHANGED <<events, db, ricActive>>
        BY <1>2, Zenon DEF Advance, ricVars
    <2>2. Dated(db.reg, now + 1)
        BY <1>n DEF WatchInv, Dated
    <2>3. \A c \in Core(events) : c.ts <= now + InactivityInterval
                                    => c.ts <= (now + 1) + InactivityInterval
        BY <1>n
    <2> QED BY <2>1, <2>2, <2>3, Zenon DEF WatchInv
<1>3. CASE Start
    <2>1. PICK c : /\ c \in Core(events') /\ c.id = InactivityMember
                   /\ c.ts = now + InactivityInterval
        BY <1>3, StartEffect, Zenon DEF Scheduled
    <2>2. DOMAIN db.reg = {} /\ ricActive' /\ UNCHANGED <<now, db>>
        BY <1>3, StartEffect, Zenon DEF WatchInv
    <2>3. c.ts <= now + InactivityInterval
        BY <2>1, <1>n
    <2> QED BY <2>1, <2>2, <2>3, Zenon DEF WatchInv
<1>4. ~Stop
    BY Zenon DEF Stop, Call
<1>5. ASSUME NEW n, NEW gone, Sends(n, gone), \A x \in gone : x.id[1] = "register",
             UNCHANGED <<now, db, ricActive>>
      PROVE  WatchInv'
    <2>1. \A c \in Core(events) : c.id = InactivityMember => c \in Core(events')
        BY <1>5, <1>k, Zenon DEF Sends
    <2> QED BY <1>5, <2>1, WatchKept, Zenon
<1>6. ASSUME NEW n \in Nodes, ActivateNode(n) PROVE WatchInv'
    <2> PICK gone : gone = Members(RegisterMember(n))
        BY Zenon
    <2>1. \A x \in gone : x.id[1] = "register"
        BY <1>k, Zenon DEF Members, Held
    <2>2. Sends(n, gone) /\ UNCHANGED <<now, db, ricActive>>
        BY <1>6, ActivateEffect, Zenon
    <2> QED BY <1>5, <2>1, <2>2, Zenon
<1>7. ASSUME NEW e \in events, RegisterEvent(e) PROVE WatchInv'
    <2> PICK n, gone : n = e.id[2] /\ gone = {e} \cup Members(RegisterMember(n))
        BY Zenon
    <2>1. \A x \in gone : x.id[1] = "register"
        BY <1>7, <1>k, Zenon DEF Members, Held, RegisterEvent, Kind
    <2>2. Sends(n, gone) /\ UNCHANGED <<now, db, ricActive>>
        BY <1>7, RegisterEffect, Zenon DEF coreVars
    <2> QED BY <1>5, <2>1, <2>2, Zenon
<1>8. ASSUME NEW n \in Nodes, DeactivateNode(n) PROVE WatchInv'
    <2>1. \A x \in Members(RegisterMember(n)) : x.id[1] = "register"
        BY <1>k, Zenon DEF Members, Held
    <2>2. \A c \in Core(events) : c.id = InactivityMember => c \in Core(events')
        BY <1>8, <1>k, <2>1, DeactivateEffect, Zenon
    <2> QED BY <1>8, <2>2, DeactivateEffect, WatchKept, Zenon
<1>9. ASSUME NEW e \in events,
              \/ RegistrationResponseEvent(e) \/ DeregistrationResponseEvent(e)
              \/ TriggerEvent(e) \/ SendEvent(e) \/ ReportEvent(e) \/ Ignored(e)
       PROVE  WatchInv'
    <2>1. Core(events') = Core(events) \ {e} /\ UNCHANGED <<now, db, ricActive>>
        <3>1. CASE RegistrationResponseEvent(e)
            BY <3>1, ResponseEffect, Zenon
        <3>2. CASE DeregistrationResponseEvent(e)
            BY <3>2, TakenCore, Zenon DEF DeregistrationResponseEvent, ricVars
        <3>3. CASE TriggerEvent(e) \/ SendEvent(e) \/ ReportEvent(e) \/ Ignored(e)
            BY <3>3, ReportEffect, Zenon DEF coreVars
        <3> QED BY <1>9, <3>1, <3>2, <3>3, Zenon
    <2>2. e.id[1] # "inactivity"
        BY <1>9, Zenon DEF RegistrationResponseEvent, DeregistrationResponseEvent, TriggerEvent,
                    SendEvent, ReportEvent, Ignored, Kind
    <2>3. \A c \in Core(events) : c.id = InactivityMember => c \in Core(events')
        BY <2>1, <2>2, <1>k, Zenon
    <2> QED BY <2>1, <2>3, WatchKept, Zenon
<1>10. ASSUME NEW e \in events, RegistrationRequestEvent(e) PROVE WatchInv'
    <2> PICK d, r, t, n, i, id : /\ d = db /\ r = db' /\ t = now /\ n = e.id[2] /\ i = e.id[3]
                                 /\ id = Assigned(d, i)
        BY Zenon
    <2>1. /\ r = RegisterNodeNrUe(d, i, n, t) \/ r = RegisterNodeNrGnb(d, i, n, t)
          /\ ricActive /\ e.id[1] = "registrationRequest"
        BY <1>10, Zenon DEF RegistrationRequestEvent, Node, Argument, Kind
    <2>2. r.reg = LoggedIn(d.reg, id, t)
        <3>1. CASE r = RegisterNodeNrUe(d, i, n, t)
            BY <3>1, RegisteredUe
        <3>2. CASE r = RegisterNodeNrGnb(d, i, n, t)
            BY <3>2, RegisteredGnb
        <3> QED BY <2>1, <3>1, <3>2, Zenon
    <2>3. UNCHANGED <<now, ricActive>>
        BY <1>10, RequestEffect, Zenon
    <2>4. \A c \in Core(events) : c.id = InactivityMember => c \in Core(events')
        BY <1>10, <1>k, <2>1, RequestEffect, Zenon
    <2> QED BY <2>1, <2>2, <2>3, <2>4, WatchLogged, Zenon
<1>11. ASSUME NEW e \in events, DeregistrationRequestEvent(e) PROVE WatchInv'
    <2> PICK id : id = e.id[3]
        BY Zenon
    <2>1. /\ db' = DeregisterNode(db, id, now) /\ ricActive /\ UNCHANGED <<now, ricActive>>
          /\ e.id[1] = "deregistrationRequest"
        BY <1>11, DeregistrationEffect, Zenon DEF DeregistrationRequestEvent, Kind
    <2>2. db'.reg = LoggedOut(db.reg, id, now)
        BY <2>1, Zenon DEF DeregisterNode, LoggedOut, DbFields
    <2>3. \A c \in Core(events) : c.id = InactivityMember => c \in Core(events')
        BY <1>11, <1>k, <2>1, DeregistrationEffect, Zenon
    <2> QED BY <2>1, <2>2, <2>3, WatchLogged, Zenon
<1> QED BY <1>1, <1>2, <1>3, <1>4, <1>6, <1>7, <1>8, <1>9, <1>10, <1>11, WatchChecked
        DEF Next, Script

\* While a RIC that is never stopped runs, CheckForInactivity() deregisters
\* every node within InactivityInterval of the threshold after its last
\* registration, whatever the delays and the script: no node that went silent
\* stays on the list of GetLastRegistrationRequests().
THEOREM SilentNodesAlwaysLeave ==
    ASSUME "Stop" \notin Calls
    PROVE  Spec => []SilentNodesLeave
<1> DEFINE Inv == Shape /\ IdInv /\ Entries(events) /\ Clock /\ WatchInv
<1>d. DatabaseKept
    BY Zenon DEF DatabaseKept
<1>1. Init => Inv
    <2>1. Init => Entries(events) /\ Clock /\ WatchInv
        BY DEF Init, Entries, Clock, WatchInv, Dated, Core, Only, EmptyDb, EmptyMap
    <2> QED BY <2>1, IdInit, Zenon
<1>2. Inv /\ [Next]_vars => Inv'
    <2>1. Inv => DbFields(db)
        BY Zenon DEF Shape
    <2> QED BY <1>d, <2>1, IdStep, EntriesStep, ClockStep, WatchStep, Zenon
<1>3. Inv => SilentNodesLeave
    <2> SUFFICES ASSUME Inv, ricActive,
                        NEW id \in DOMAIN db.reg, db.reg[id].flags = {TRUE}
                 PROVE  now <= db.reg[id].time + Threshold + InactivityInterval
        BY Zenon DEF SilentNodesLeave
    <2>1. PICK c \in Core(events) : c.ts <= db.reg[id].time + Threshold + InactivityInterval
        BY Zenon DEF WatchInv, IsIn
    <2>2. now \in Nat /\ c.ts \in Nat /\ c.ts >= now
        BY Zenon DEF Clock
    <2>3. db.reg[id].time \in Nat
        BY Zenon DEF WatchInv, Dated
    <2>4. Threshold \in Nat /\ InactivityInterval \in Nat
        BY IntervalAssumption, Zenon
    <2> HIDE DEF Inv
    <2> QED BY <2>1, <2>2, <2>3, <2>4
<1> QED BY <1>1, <1>2, <1>3, PTL DEF Spec

-----------------------------------------------------------------------------
(* Nodes in steady operation.                                              *)

\* What ReceiveRegistrationRequest() writes.
LEMMA RequestRows ==
    ASSUME Basis, SteadyInv, NEW e \in events, RegistrationRequestEvent(e),
           NEW n, n = e.id[2], NEW i, i = e.id[3], NEW new, new = Assigned(db, i)
    PROVE  /\ Rewritten(db.reg, new, now, db'.reg)
           /\ IsIn(db'.reg[new]) /\ IsLast(db'.reg[new])
           /\ m_nodeTerminators' = Put(m_nodeTerminators, new, n)
           /\ ricActive
<1> PICK d, t, r : d = db /\ t = now /\ r = db'
    BY Zenon
<1>1. /\ r = RegisterNodeNrUe(d, i, n, t) \/ r = RegisterNodeNrGnb(d, i, n, t)
      /\ m_nodeTerminators' = Put(m_nodeTerminators, new, n)
      /\ ricActive
    BY Zenon DEF RegistrationRequestEvent, Node, Argument
<1>2. DbFields(d) /\ new = Assigned(d, i)
    BY Zenon DEF Basis, Shape
<1>3. r.reg = LoggedIn(d.reg, Assigned(d, i), t)
    <2>1. CASE r = RegisterNodeNrUe(d, i, n, t)
        BY <2>1, <1>2, RegisteredUe
    <2>2. CASE r = RegisterNodeNrGnb(d, i, n, t)
        BY <2>2, <1>2, RegisteredGnb
    <2> QED BY <1>1, <2>1, <2>2, Zenon
<1> PICK old, reg : old = d.reg /\ reg = r.reg
    BY Zenon
<1>4. /\ reg = LoggedIn(old, new, t) /\ t \in Nat /\ Dated(old, t)
      /\ new \in DOMAIN old => IsIn(old[new])
    BY <1>2, <1>3, Zenon DEF Basis, Clock, SteadyInv, FreshInv
<1>5. Rewritten(old, new, t, reg)
    BY <1>4, LoggedInRow, Zenon
<1>6. IsIn(reg[new]) /\ IsLast(reg[new])
    BY <1>4, LoggedInFlags, Zenon
<1> QED BY <1>1, <1>5, <1>6, Zenon

\* ReceiveRegistrationRequest() in an active RIC.
LEMMA SteadyRequest ==
    ASSUME Steady, Basis, SteadyInv, NEW e \in events, RegistrationRequestEvent(e)
    PROVE  SteadyInv'
<1> PICK n, i, id : n = e.id[2] /\ i = e.id[3] /\ id = Assigned(db, i)
    BY Zenon
<1>1. e \in Core(events) /\ IsRequest(e) /\ InFlight(e) /\ e.ts = now
    BY Zenon DEF RegistrationRequestEvent, Fires, Kind, Core, Only, CoreKinds, IsRequest, InFlight
<1>2. n \in Nodes
    BY <1>1, Carried, Zenon
<1>3. PICK d \in Delays : \E p : /\ Core(events') = (Core(events) \ {e}) \cup {p}
                                 /\ Scheduled(p, now + d, RegistrationResponse(n, id))
    BY RequestEffect, Zenon
<1>4. PICK p : /\ Core(events') = (Core(events) \ {e}) \cup {p}
               /\ p.ts = now + d /\ p.id = RegistrationResponse(n, id)
    BY <1>3, Zenon DEF Scheduled
<1>5. UNCHANGED <<now, m_e2NodeId, ricActive>>
    BY RequestEffect, Zenon
<1>6. /\ Rewritten(db.reg, id, now, db'.reg)
      /\ IsIn(db'.reg[id]) /\ IsLast(db'.reg[id])
      /\ m_nodeTerminators' = Put(m_nodeTerminators, id, n)
      /\ ricActive
    BY RequestRows, Zenon
<1> PICK new : new = {p}
    BY Zenon
<1>7. /\ \A x \in Core(events) : ~InFlight(x) \/ x.id[2] # n => x \in Core(events')
      /\ \A x \in Core(events) : InFlight(x) /\ x.id[2] = n => x = e
      /\ \A m : \A x \in Core(events) : x.id = RegisterMember(m) => x \in Core(events')
    BY <1>1, <1>4, Taken, Zenon
<1>8. p \in Core(events') /\ \A x \in Core(events') : x = p \/ (x \in Core(events) /\ x # e)
    BY <1>4, Zenon
<1>9. /\ IsResponse(p) /\ InFlight(p) /\ ~IsRequest(p) /\ ~IsRegister(p)
      /\ p.id[2] = n /\ p.id[3] = id
    BY <1>4, Kinds DEF IsResponse, InFlight, IsRequest, IsRegister
<1>10. \A x \in Core(events') : InFlight(x) => x = p \/ (x \in Core(events) /\ x.id[2] # n)
    BY <1>7, <1>8, Zenon
<1>n. /\ now \in Nat /\ d \in Nat /\ RegistrationInterval \in Nat
      /\ \A x \in Core(events) : x.ts \in Nat
    BY Numbers, Zenon DEF Basis, Clock
<1>11. i = m_e2NodeId[n]
    BY <1>1, Zenon DEF SteadyInv, MessageInv
<1>12. PICK r \in Core(events) : \E d1 \in Delays :
          r.id = RegisterMember(n) /\ now + RegistrationInterval = r.ts + d1
    BY <1>1, Zenon DEF SteadyInv, MessageInv
<1>13. r.ts <= now + RegistrationInterval
    BY <1>12, Kinds DEF SteadyInv, MessageInv, IsRegister
<1>14. \A j \in DOMAIN m_nodeTerminators : j # 0
    BY Carried, Zenon
<1>15. \A j : j # 0 /\ j = i => j = id
    BY Zenon DEF Assigned
<1>16. /\ DOMAIN m_nodeTerminators' = DOMAIN m_nodeTerminators \cup {id}
       /\ m_nodeTerminators'[id] = n
       /\ \A j \in DOMAIN m_nodeTerminators : j # id =>
             m_nodeTerminators'[j] = m_nodeTerminators[j]
    BY <1>6, Zenon DEF Put
<1>17. MessageInv'
    <2>1. \A x \in Core(events') :
             x.id[1] \notin {"deregistrationRequest", "deregistrationResponse"}
        BY <1>8, <1>9, Zenon DEF SteadyInv, MessageInv, IsResponse
    <2>2. \A x \in Core(events') : IsRegister(x) => x.ts <= now' + RegistrationInterval
        BY <1>5, <1>8, <1>9, Zenon DEF SteadyInv, MessageInv
    <2>3. \A q \in Core(events') : IsRequest(q) =>
             /\ q.id[3] = m_e2NodeId'[q.id[2]]
             /\ \E x \in Core(events') : \E y \in Delays :
                   x.id = RegisterMember(q.id[2]) /\ q.ts + RegistrationInterval = x.ts + y
        BY <1>5, <1>7, <1>8, <1>9, ZenonT(60) DEF SteadyInv, MessageInv
    <2>4. \E x \in Core(events') : \E y, z \in Delays :
             x.id = RegisterMember(p.id[2]) /\ p.ts + RegistrationInterval = x.ts + y + z
        <3>1. PICK d1 \in Delays : r.id = RegisterMember(n) /\ now + RegistrationInterval = r.ts + d1
            BY <1>12, Zenon
        <3>2. r \in Core(events')
            BY <1>7, <3>1, Zenon
        <3>3. d1 \in Nat
            BY Numbers, Zenon
        <3>4. p.ts + RegistrationInterval = r.ts + d1 + d
            BY <1>4, <1>n, <3>1, <3>3
        <3> QED BY <3>1, <3>2, <3>4, <1>9, Zenon
    <2>5. \A x \in Core(events') : IsResponse(x) =>
             \E y \in Core(events') : \E d1, d2 \in Delays :
                y.id = RegisterMember(x.id[2]) /\ x.ts + RegistrationInterval = y.ts + d1 + d2
        <3>1. \A x \in Core(events) : IsResponse(x) =>
                 \E y \in Core(events') : \E d1, d2 \in Delays :
                    y.id = RegisterMember(x.id[2]) /\ x.ts + RegistrationInterval = y.ts + d1 + d2
            BY <1>7 DEF SteadyInv, MessageInv
        <3> QED BY <2>4, <3>1, <1>8
    <2>6. \A x, y \in Core(events') : InFlight(x) /\ InFlight(y) /\ x.id[2] = y.id[2] => x = y
        BY <1>9, <1>10, Zenon DEF SteadyInv, MessageInv
    <2> QED BY <2>1, <2>2, <2>3, <2>5, <2>6, Zenon DEF MessageInv
<1>18. OwnInv'
    <2>1. ASSUME NEW j \in DOMAIN m_nodeTerminators'
          PROVE  LET m == m_nodeTerminators'[j] IN
                 /\ m \in Nodes
                 /\ \/ m_e2NodeId[m] = j
                    \/ /\ m_e2NodeId[m] = 0
                       /\ \E x \in Core(events') : x.id = RegistrationResponse(m, j)
        <3>1. CASE j = id
            <4>1. i = 0 \/ i = id
                BY Zenon DEF Assigned
            <4> QED BY <3>1, <4>1, <1>2, <1>4, <1>8, <1>11, <1>16, Zenon
        <3>2. CASE j # id
            <4> PICK m : m = m_nodeTerminators[j]
                BY Zenon
            <4>0. j \in DOMAIN m_nodeTerminators /\ m_nodeTerminators'[j] = m
                BY <3>2, <1>16, Zenon
            <4>1. /\ m \in Nodes
                  /\ \/ m_e2NodeId[m] = j
                     \/ /\ m_e2NodeId[m] = 0
                        /\ \E x \in Core(events) : x.id = RegistrationResponse(m, j)
                BY <4>0, Zenon DEF SteadyInv, OwnInv
            <4>2. \A x : x.id = RegistrationResponse(m, j) =>
                           InFlight(x) /\ ~IsRequest(x) /\ x.id[2] = m
                BY Kinds DEF InFlight, IsRequest, IsResponse
            <4>3. m # n
                BY <3>2, <4>0, <4>1, <4>2, <1>1, <1>7, <1>11, <1>14, <1>15, Zenon
            <4> QED BY <4>0, <4>1, <4>2, <4>3, <1>7, Zenon
        <3> QED BY <3>1, <3>2, Zenon
    <2> QED BY <2>1, <1>5, Zenon DEF OwnInv
<1>19. FreshInv'
    <2>1. /\ DOMAIN db'.reg = DOMAIN db.reg \cup {id}
          /\ db'.reg[id].time = now
          /\ \A j \in DOMAIN db.reg : j # id => db'.reg[j] = db.reg[j]
          /\ Dated(db'.reg, now)
        BY <1>6, Zenon DEF Rewritten
    <2>2. DOMAIN db'.reg = DOMAIN m_nodeTerminators'
        BY <2>1, <1>16, Zenon DEF SteadyInv, FreshInv
    <2>3. Fresh(n, id, now)'
        BY <1>5, <1>7, <1>12, <1>13, Zenon DEF Fresh
    <2>4. ASSUME NEW j \in DOMAIN db.reg, j # id
          PROVE  /\ IsIn(db'.reg[j]) /\ IsLast(db'.reg[j])
                 /\ Fresh(m_nodeTerminators[j], j, db.reg[j].time)'
        <3>1. /\ IsIn(db.reg[j]) /\ IsLast(db.reg[j])
              /\ Fresh(m_nodeTerminators[j], j, db.reg[j].time)
            BY Zenon DEF SteadyInv, FreshInv
        <3> PICK m, t : m = m_nodeTerminators[j] /\ t = db.reg[j].time
            BY Zenon
        <3>2. j # 0
            BY <1>14, Zenon DEF SteadyInv, FreshInv
        <3>3. \A x \in Core(events) : x.id = RegistrationRequest(m, j) => x \in Core(events')
            <4>1. e.id # RegistrationRequest(m, j)
                BY <2>4, <3>2, <1>15, Kinds
            <4> QED BY <4>1, <1>4, Zenon
        <3>4. (\E x \in Core(events') : x.id = RegisterMember(m) /\ x.ts <= t + RegistrationInterval)
              \/ (\E q \in Core(events') : q.id = RegistrationRequest(m, j) /\ q.ts <= t + Threshold)
            BY <3>1, <3>3, <1>7, Zenon DEF Fresh
        <3>5. m_nodeTerminators'[j] = m /\ db'.reg[j].time = t
            BY <2>1, <2>4, <1>16, Zenon DEF SteadyInv, FreshInv
        <3> QED BY <3>1, <3>4, <3>5, <2>1, <2>4, Zenon DEF Fresh
    <2>5. ASSUME NEW j \in DOMAIN db'.reg
          PROVE  /\ IsIn(db'.reg[j]) /\ IsLast(db'.reg[j])
                 /\ Fresh(m_nodeTerminators[j], j, db.reg[j].time)'
        <3>1. CASE j = id
            BY <3>1, <2>1, <2>3, <1>5, <1>6, <1>16, Zenon DEF Fresh
        <3>2. CASE j # id
            BY <3>2, <2>1, <2>4, Zenon
        <3> QED BY <3>1, <3>2, Zenon
    <2> QED BY <2>1, <2>2, <2>5, <1>5, <1>6, Zenon DEF FreshInv
<1>20. TriedInv'
    <2>1. ASSUME NEW x \in Core(events'), NEW l \in Core(events'),
                 IsRegister(x), l.id = LmQueryMember, m_e2NodeId'[x.id[2]] = 0
          PROVE  \/ x.ts + LmQueryInterval <= l.ts + RegistrationInterval
                 \/ \E y \in Core(events') : InFlight(y) /\ y.id[2] = x.id[2]
        <3>1. CASE x.id[2] = n
            BY <3>1, <1>8, <1>9, Zenon
        <3>2. CASE x.id[2] # n
            <4>1. x \in Core(events) /\ l \in Core(events)
                BY <2>1, <1>8, <1>9, Kinds, Zenon DEF IsResponse
            <4>2. \/ x.ts + LmQueryInterval <= l.ts + RegistrationInterval
                  \/ \E y \in Core(events) : InFlight(y) /\ y.id[2] = x.id[2]
                BY <2>1, <4>1, <1>5, Zenon DEF SteadyInv, TriedInv
            <4> QED BY <4>2, <3>2, <1>7, Zenon
        <3> QED BY <3>1, <3>2, Zenon
    <2> QED BY <2>1, <1>5, <1>6, Zenon DEF TriedInv
<1> QED BY <1>17, <1>18, <1>19, <1>20 DEF SteadyInv

\* A request that comes before the RIC is started is lost; an active node, and
\* only such a node has messages in flight, ignores none.
LEMMA SteadyIgnored ==
    ASSUME Basis, SteadyInv, NEW e \in events, Ignored(e)
    PROVE  SteadyInv'
<1> PICK n, new : n = e.id[2] /\ new = {}
    BY Zenon
<1>1. Core(events') = Core(events) \ {e} /\ UNCHANGED <<now, coreVars>>
    BY ReportEffect, Zenon DEF Basis
<1>2. CASE e \notin Core(events)
    <2>1. Core(events') = Core(events)
        BY <1>1, <1>2, Zenon
    <2> QED BY <1>1, <2>1, SteadyKept, Zenon
<1>3. CASE e \in Core(events)
    <2>1. \/ IsResponse(e) /\ ~nodeActive[n]
          \/ IsRequest(e) /\ ~ricActive
        BY <1>3, Zenon DEF Ignored, Kind, Node, IsResponse, IsRequest, SteadyInv, MessageInv,
                    Core, Only, CoreKinds
    <2>2. ~IsResponse(e) \/ nodeActive[n]
        <3>1. IsResponse(e) => \E x \in Core(events) : x.id = RegisterMember(n)
            BY <1>3, Zenon DEF SteadyInv, MessageInv
        <3> QED BY <3>1, Kinds DEF Basis, RegisterInv
    <2>3. IsRequest(e) /\ InFlight(e) /\ ~ricActive
        BY <2>1, <2>2, Zenon DEF InFlight
    <2>4. Core(events') = (Core(events) \ {e}) \cup new
        BY <1>1, Zenon
    <2>5. \A m : \A x \in Core(events) : x.id = RegisterMember(m) => x \in Core(events')
        BY <1>3, <2>3, <2>4, Taken, Zenon
    <2>6. \A x \in Core(events') : x \in Core(events)
        BY <2>4, Zenon
    <2>7. UNCHANGED <<now, db, m_nodeTerminators, m_e2NodeId, ricActive>>
        BY <1>1, Zenon DEF coreVars
    <2>8. MessageInv'
        BY <2>5, <2>6, <2>7 DEF SteadyInv, MessageInv
    <2>9. DOMAIN db.reg = {} /\ DOMAIN m_nodeTerminators = {}
        BY <2>3, Zenon DEF SteadyInv, FreshInv
    <2>10. OwnInv' /\ FreshInv'
        BY <2>7, <2>9, Zenon DEF OwnInv, SteadyInv, FreshInv
    <2>11. TriedInv'
        BY <2>3, <2>6, <2>7, Zenon DEF SteadyInv, TriedInv
    <2> QED BY <2>8, <2>10, <2>11, Zenon DEF SteadyInv
<1> QED BY <1>2, <1>3, Zenon

\* Every step.
LEMMA SteadyStep ==
    ASSUME Steady, Basis, SteadyInv, [Next]_vars
    PROVE  SteadyInv'
<1>1. CASE UNCHANGED vars
    <2>1. Core(events') = Core(events) /\ UNCHANGED <<now, coreVars>>
        BY <1>1, Zenon DEF vars, simVars, ricVars, nodeVars, coreVars, Core, Only
    <2> QED BY <2>1, SteadyKept, Zenon
<1>2. CASE Advance
    BY <1>2, SteadyAdvance, Zenon
<1>3. CASE Script
    <2>1. ~Stop /\ \A n \in Nodes : ~DeactivateNode(n)
        BY Zenon DEF Steady, Stop, DeactivateNode, Call
    <2> QED BY <1>3, <2>1, SteadyStart, SteadyActivate, Zenon DEF Script
<1>4. ASSUME NEW e \in events, Ignored(e) PROVE SteadyInv'
    BY <1>4, SteadyIgnored, Zenon
<1>5. ASSUME NEW e \in events, RegisterEvent(e) PROVE SteadyInv'
    BY <1>5, SteadyRegister, Zenon
<1>6. ASSUME NEW e \in events, RegistrationResponseEvent(e) PROVE SteadyInv'
    BY <1>6, SteadyResponse, Zenon
<1>7. ASSUME NEW e \in events, DeregistrationResponseEvent(e) \/ DeregistrationRequestEvent(e)
      PROVE  SteadyInv'
    <2>1. e \in Core(events) /\ e.id[1] \in {"deregistrationRequest", "deregistrationResponse"}
        BY <1>7, Zenon DEF DeregistrationResponseEvent, DeregistrationRequestEvent, Kind,
                    Core, Only, CoreKinds
    <2> QED BY <2>1, Zenon DEF SteadyInv, MessageInv
<1>8. ASSUME NEW e \in events, TriggerEvent(e) \/ SendEvent(e) \/ ReportEvent(e)
      PROVE  SteadyInv'
    <2>1. Core(events') = Core(events) \ {e} /\ UNCHANGED <<now, coreVars>>
        BY <1>8, ReportEffect, Zenon DEF Basis
    <2>2. e \notin Core(events)
        BY <1>8, Zenon DEF TriggerEvent, SendEvent, ReportEvent, Kind, Core, Only, CoreKinds
    <2>3. Core(events') = Core(events)
        BY <2>1, <2>2, Zenon
    <2> QED BY <2>1, <2>3, SteadyKept, Zenon
<1>9. ASSUME NEW e \in events, RegistrationRequestEvent(e) PROVE SteadyInv'
    BY <1>9, SteadyRequest, Zenon
<1>10. ASSUME NEW e \in events, CheckForInactivity(e) PROVE SteadyInv'
    BY <1>10, SteadyCheck, Zenon
<1> QED BY <1>1, <1>2, <1>3, <1>4, <1>5, <1>6, <1>7, <1>8, <1>9, <1>10, Zenon DEF Next

\* The initial state.
LEMMA SteadyInit == ASSUME Init PROVE SteadyInv
<1>1. Core(events) = {} /\ DOMAIN m_nodeTerminators = {} /\ DOMAIN db.reg = {}
    BY Zenon DEF Init, Core, Only, EmptyMap, EmptyDb
<1> QED BY <1>1, Zenon DEF SteadyInv, MessageInv, OwnInv, FreshInv, Dated, TriedInv

-----------------------------------------------------------------------------
(* What holds in steady operation.                                         *)

IInv == Basis /\ RowInv /\ SteadyInv

LEMMA SteadyInductive ==
    ASSUME Steady
    PROVE  (Init => IInv) /\ (IInv /\ [Next]_vars => IInv')
<1>1. ASSUME Init PROVE IInv
    <2>1. Shape /\ IdInv
        BY <1>1, IdInit, Zenon
    <2>2. Entries(events) /\ RegisterInv /\ Clock
        BY <1>1, Zenon DEF Init, Entries, RegisterInv, Clock, Core, Only
    <2>3. RowInv
        BY <1>1, Zenon DEF Init, RowInv, EmptyDb, EmptyMap
    <2>4. SteadyInv
        BY <1>1, SteadyInit, Zenon
    <2> QED BY <2>1, <2>2, <2>3, <2>4, Zenon DEF IInv, Basis
<1>2. ASSUME IInv, [Next]_vars PROVE IInv'
    <2>1. DatabaseKept
        BY Zenon DEF Steady, DatabaseKept
    <2>2. Shape' /\ IdInv'
        BY <1>2, <2>1, IdStep, Zenon DEF IInv, Basis
    <2>3. Entries(events')
        BY <1>2, EntriesStep, Zenon DEF IInv, Basis
    <2>4. RegisterInv'
        BY <1>2, RegisterStep, Zenon DEF IInv, Basis
    <2>5. Clock'
        BY <1>2, ClockStep, Zenon DEF IInv, Basis
    <2>6. RowInv'
        BY <1>2, <2>1, RowStep, Zenon DEF IInv, Basis
    <2>7. SteadyInv'
        BY <1>2, SteadyStep, Zenon DEF IInv
    <2> QED BY <2>2, <2>3, <2>4, <2>5, <2>6, <2>7, Zenon DEF IInv, Basis
<1> QED BY <1>1, <1>2, Zenon

\* An identifier that is issued stays registered.
LEMMA IssuedIsRegistered ==
    ASSUME IInv, NEW id, NEW n, Owned(id, n)
    PROVE  IsNodeRegistered(db, id)
BY Zenon DEF IInv, SteadyInv, FreshInv, Owned, IsNodeRegistered, IsLast

\* In steady operation the Data Repository never holds two registrations of one
\* node: RegisterNode() with the identifier of the node returns it, and a node
\* asks for a new one only while none has been issued to it.
THEOREM OneRegistrationEach ==
    ASSUME Steady
    PROVE  Spec => []OneRegistration
<1>1. IInv => OneRegistration
    <2> SUFFICES ASSUME IInv, NEW n \in Nodes, NEW i \in Registrations(n),
                        NEW j \in Registrations(n)
                 PROVE  i = j
        BY Zenon DEF OneRegistration
    <2>1. /\ i \in DOMAIN m_nodeTerminators /\ m_nodeTerminators[i] = n /\ i # 0
          /\ j \in DOMAIN m_nodeTerminators /\ m_nodeTerminators[j] = n /\ j # 0
        BY Carried, Zenon DEF Registrations, IInv
    <2>2. CASE m_e2NodeId[n] # 0
        BY <2>1, <2>2, Zenon DEF IInv, SteadyInv, OwnInv
    <2>3. CASE m_e2NodeId[n] = 0
        <3>1. PICK p \in Core(events) : p.id = RegistrationResponse(n, i)
            BY <2>1, <2>3, Zenon DEF IInv, SteadyInv, OwnInv
        <3>2. PICK q \in Core(events) : q.id = RegistrationResponse(n, j)
            BY <2>1, <2>3, Zenon DEF IInv, SteadyInv, OwnInv
        <3>3. /\ InFlight(p) /\ p.id[2] = n /\ p.id[3] = i
              /\ InFlight(q) /\ q.id[2] = n /\ q.id[3] = j
            BY <3>1, <3>2, Kinds DEF InFlight, IsResponse
        <3>4. p = q
            BY <3>3, Zenon DEF IInv, SteadyInv, MessageInv
        <3> QED BY <3>3, <3>4, Zenon
    <2> QED BY <2>2, <2>3, Zenon
<1> QED BY <1>1, SteadyInductive, PTL DEF Spec

\* Whatever its delay, a report of a registered node finds the registration
\* that GenerateReports() stamped it under when ReceiveReport() asks the Data
\* Repository for it.
THEOREM ReportsFindTheirNode ==
    ASSUME Steady
    PROVE  Spec => []ReportsFindRegistration
<1>1. IInv => ReportsFindRegistration
    <2> SUFFICES ASSUME IInv, NEW e \in events, Kind(e) = "report", Argument(e).id # 0
                 PROVE  IsNodeRegistered(db, Argument(e).id)
        BY Zenon DEF ReportsFindRegistration
    <2>1. Owned(Argument(e).id, Argument(e).node)
        BY Zenon DEF IInv, Basis, IdInv, Sound, Kind, Argument
    <2> QED BY <2>1, IssuedIsRegistered, Zenon
<1> QED BY <1>1, SteadyInductive, PTL DEF Spec

\* A node that calls Register() when the RIC runs has its identifier within two
\* of the longest delays, however many requests were lost before the start.
THEOREM NodesRegisterInTime ==
    ASSUME Steady
    PROVE  Spec => []RegistersInTime
<1>1. IInv => RegistersInTime
    <2> SUFFICES ASSUME IInv, NEW n \in Nodes, NEW next \in events, NEW query \in events,
                        next.id = RegisterMember(n), query.id = LmQueryMember,
                        next.ts + LmQueryInterval > query.ts + RegistrationInterval,
                        \A d \in Delays : now + RegistrationInterval > next.ts + 2 * d,
                        m_e2NodeId[n] = 0
                 PROVE  FALSE
        BY Zenon DEF RegistersInTime
    <2>1. /\ next \in Core(events) /\ IsRegister(next) /\ next.id[2] = n
          /\ query \in Core(events)
        BY Kinds DEF Core, Only, CoreKinds, IsRegister
    <2>2. /\ now \in Nat /\ RegistrationInterval \in Nat /\ LmQueryInterval \in Nat
          /\ Delays \subseteq Nat
          /\ \A x \in Core(events) : x.ts \in Nat /\ x.ts >= now
        BY Numbers, Zenon DEF IInv, Basis, Clock
    <2>3. ~(next.ts + LmQueryInterval <= query.ts + RegistrationInterval)
        BY <2>1, <2>2
    <2>4. PICK p \in Core(events) : InFlight(p) /\ p.id[2] = n
        BY <2>1, <2>3, Zenon DEF IInv, SteadyInv, TriedInv
    <2>5. \A x \in Core(events) : x.id = RegisterMember(n) => x = next
        BY <2>1 DEF IInv, Basis, RegisterInv, IsRegister
    <2>6. CASE IsRequest(p)
        <3>1. PICK d \in Delays : p.ts + RegistrationInterval = next.ts + d
            BY <2>4, <2>5, <2>6 DEF IInv, SteadyInv, MessageInv
        <3>2. now + RegistrationInterval > next.ts + 2 * d
            BY Zenon
        <3>3. d \in Nat /\ p.ts \in Nat /\ p.ts >= now /\ next.ts \in Nat
            BY <2>1, <2>2, Zenon
        <3> QED BY <2>2, <3>1, <3>2, <3>3
    <2>7. CASE IsResponse(p)
        <3>1. PICK d1, d2 \in Delays : p.ts + RegistrationInterval = next.ts + d1 + d2
            BY <2>4, <2>5, <2>7 DEF IInv, SteadyInv, MessageInv
        <3>2. /\ now + RegistrationInterval > next.ts + 2 * d1
              /\ now + RegistrationInterval > next.ts + 2 * d2
            BY Zenon
        <3>3. d1 \in Nat /\ d2 \in Nat /\ p.ts \in Nat /\ p.ts >= now /\ next.ts \in Nat
            BY <2>1, <2>2, Zenon
        <3> QED BY <2>2, <3>1, <3>2, <3>3
    <2> QED BY <2>4, <2>6, <2>7, Zenon DEF InFlight
<1> QED BY <1>1, SteadyInductive, PTL DEF Spec

\* Only a response changes the identifier of a node, and it brings one.
LEMMA IdentifierKept ==
    ASSUME Steady, IInv, IInv', [Next]_vars, NEW n \in Nodes, m_e2NodeId[n] # 0
    PROVE  /\ m_e2NodeId'[n] = m_e2NodeId[n]
           /\ Owned(m_e2NodeId[n], n)'
<1> PICK id : id = m_e2NodeId[n]
    BY Zenon
<1>1. DatabaseKept
    BY Zenon DEF Steady, DatabaseKept
<1>2. Owned(id, n)
    BY Zenon DEF IInv, Basis, IdInv
<1>3. \A j, m : Owned(j, m) => Owned(j, m)'
    BY <1>1, RowStep, Zenon DEF IInv, Basis
<1>4. m_e2NodeId'[n] = id \/ m_e2NodeId'[n] = 0
    BY <1>2, <1>3 DEF IInv, SteadyInv, OwnInv, Owned
<1>5. m_e2NodeId'[n] # 0
    <2>1. CASE UNCHANGED m_e2NodeId
        BY <2>1, Zenon
    <2>2. ASSUME NEW e \in events, RegistrationResponseEvent(e) PROVE m_e2NodeId'[n] # 0
        <3>1. e \in Core(events) /\ IsResponse(e)
            BY <2>2, Zenon DEF RegistrationResponseEvent, Kind, Core, Only, CoreKinds, IsResponse
        <3>2. e.id[3] # 0
            BY <3>1, Carried, Zenon DEF IInv, Owned
        <3>3. m_e2NodeId' = [m_e2NodeId EXCEPT ![e.id[2]] = e.id[3]]
            BY <2>2, ResponseEffect, Zenon DEF IInv, Basis
        <3> QED BY <3>2, <3>3, Zenon DEF IInv, Basis, Shape
    <2>3. \A e \in events : ~DeregistrationResponseEvent(e)
        BY Zenon DEF DeregistrationResponseEvent, Kind, Core, Only, CoreKinds, IInv, SteadyInv,
               MessageInv
    <2>4. \/ UNCHANGED m_e2NodeId
          \/ \E e \in events : RegistrationResponseEvent(e)
        <3>1. CASE Advance \/ UNCHANGED vars \/ Script
            BY <3>1, Zenon DEF Advance, vars, Script, Start, Stop, ActivateNode, DeactivateNode, nodeVars
        <3>2. ASSUME NEW e \in events,
                     \/ Ignored(e) \/ RegisterEvent(e) \/ TriggerEvent(e) \/ SendEvent(e)
                     \/ RegistrationRequestEvent(e) \/ DeregistrationRequestEvent(e)
                     \/ ReportEvent(e) \/ CheckForInactivity(e)
              PROVE  UNCHANGED m_e2NodeId
            BY <3>2, Zenon DEF Ignored, RegisterEvent, TriggerEvent, SendEvent, RegistrationRequestEvent,
                        DeregistrationRequestEvent, ReportEvent, CheckForInactivity, nodeVars
        <3> QED BY <2>3, <3>1, <3>2 DEF Next
    <2> QED BY <2>1, <2>2, <2>4, Zenon
<1> QED BY <1>2, <1>3, <1>4, <1>5, Zenon

\* In steady operation a registered node keeps its identifier and its
\* registration: no late response to a Register() takes the identifier away,
\* and CheckForInactivity() never deregisters the node.
THEOREM RegistrationsStay ==
    ASSUME Steady
    PROVE  Spec => RegistrationKept
<1>1. ASSUME IInv, IInv', [Next]_vars
      PROVE  \A n \in Nodes :
                 m_e2NodeId[n] # 0 => /\ m_e2NodeId'[n] = m_e2NodeId[n]
                                     /\ IsNodeRegistered(db', m_e2NodeId[n])
    <2> SUFFICES ASSUME NEW n \in Nodes, m_e2NodeId[n] # 0
                 PROVE  /\ m_e2NodeId'[n] = m_e2NodeId[n]
                        /\ IsNodeRegistered(db', m_e2NodeId[n])
        BY Zenon
    <2>1. m_e2NodeId'[n] = m_e2NodeId[n] /\ Owned(m_e2NodeId[n], n)'
        BY <1>1, IdentifierKept, Zenon
    <2>2. IsNodeRegistered(db', m_e2NodeId[n])
        BY <1>1, <2>1, Zenon DEF IInv, SteadyInv, FreshInv, Owned, IsNodeRegistered, IsLast
    <2> QED BY <2>1, <2>2, Zenon
<1>2. IInv /\ IInv' /\ [Next]_vars
        => [\A n \in Nodes :
                m_e2NodeId[n] # 0 => /\ m_e2NodeId'[n] = m_e2NodeId[n]
                                    /\ IsNodeRegistered(db', m_e2NodeId[n])]_vars
    BY <1>1, Zenon
<1> QED BY <1>2, SteadyInductive, PTL DEF Spec, RegistrationKept

\* The results of a query for the registered identifiers in T.
Results(d, T) == {S \cap T : S \in Grouped(d)}

\* When every row says "registered", SQLite has nothing to pick.
LEMMA NobodyHidden ==
    ASSUME NEW d, \A j \in DOMAIN d.reg : IsIn(d.reg[j]), NEW T, NEW i
    PROVE  (\A ids \in Results(d, T) : i \in ids) <=> i \in DOMAIN d.reg /\ i \in T
<1>1. ASSUME i \in DOMAIN d.reg, i \in T, NEW S \in Grouped(d) PROVE i \in S \cap T
    BY <1>1, ListedIn, Zenon
<1>2. DOMAIN d.reg \in Grouped(d)
    <2>1. ASSUME NEW j \in DOMAIN d.reg PROVE (j \in DOMAIN d.reg) \in d.reg[j].flags
        <3>1. d.reg[j].flags = {TRUE}
            BY Zenon DEF IsIn
        <3>2. (j \in DOMAIN d.reg) = TRUE
            BY Zenon
        <3> QED BY <3>1, <3>2, Zenon
    <2> QED BY <2>1, Zenon DEF Grouped
<1> QED BY <1>1, <1>2, Zenon DEF Results

\* The identifiers in the rows of the table that node n is in.
RowIds(d, n) == IF n \in Ues THEN {r.id : r \in d.ue} ELSE {r.id : r \in d.gnb}
Rows(n) == RowIds(db, n)

\* Whatever row SQLite picks, the query has node n under identifier i.
Found(d, n, i) ==
    \A ids \in IF n \in Ues THEN GetNrUeE2NodeIds(d) ELSE GetNrGnbE2NodeIds(d) : i \in ids

\* A node is listed if it is registered and has a row under its identifier.
LEMMA ListedRows ==
    ASSUME NEW d, \A j \in DOMAIN d.reg : IsIn(d.reg[j]), NEW n, NEW i
    PROVE  Found(d, n, i) <=> i \in DOMAIN d.reg /\ i \in RowIds(d, n)
<1> PICK T : T = RowIds(d, n)
    BY Zenon
<1>1. (\A ids \in Results(d, T) : i \in ids) <=> i \in DOMAIN d.reg /\ i \in T
    BY NobodyHidden, ZenonT(60)
<1>2. Results(d, T) = IF n \in Ues THEN GetNrUeE2NodeIds(d) ELSE GetNrGnbE2NodeIds(d)
    BY Zenon DEF Results, RowIds, GetNrUeE2NodeIds, GetNrGnbE2NodeIds
<1> QED BY <1>1, <1>2, Zenon DEF Found

\* The row of a node under its identifier is only replaced by another such row.
LEMMA RowKept ==
    ASSUME Steady, IInv, [Next]_vars, NEW n \in Nodes,
           m_e2NodeId[n] # 0, m_e2NodeId[n] \in Rows(n)
    PROVE  m_e2NodeId[n] \in Rows(n)'
<1> PICK i : i = m_e2NodeId[n]
    BY Zenon
<1>1. DatabaseKept
    BY Zenon DEF Steady, DatabaseKept
<1>2. Owned(i, n) /\ DbFields(db)
    BY Zenon DEF IInv, Basis, IdInv, Shape
<1>3. CASE UNCHANGED db
    BY <1>3, Zenon DEF Rows, RowIds
<1>4. ASSUME \/ \E id : db' = DeregisterNode(db, id, now)
             \/ \E ids : db' = DeregisterNodes(db, ids, now)
      PROVE  i \in Rows(n)'
    <2>1. db'.ue = db.ue /\ db'.gnb = db.gnb
        BY <1>2, <1>4, Zenon DEF DeregisterNode, DeregisterNodes, DbFields
    <2> QED BY <2>1, Zenon DEF Rows, RowIds
<1>5. ASSUME NEW e \in events, RegistrationRequestEvent(e)
      PROVE  i \in Rows(n)'
    <2> PICK m, id, d, t, r : m = e.id[2] /\ id = e.id[3] /\ d = db /\ t = now /\ r = db'
        BY Zenon
    <2>1. r = IF m \in Ues THEN RegisterNodeNrUe(d, id, m, t)
                           ELSE RegisterNodeNrGnb(d, id, m, t)
        BY <1>5, Zenon DEF RegistrationRequestEvent, Node, Argument
    <2>2. e \in Core(events) /\ IsRequest(e)
        BY <1>5, Zenon DEF RegistrationRequestEvent, Kind, Core, Only, CoreKinds, IsRequest
    <2>3. id = m_e2NodeId[m]
        BY <2>2, Zenon DEF IInv, SteadyInv, MessageInv
    <2>4. DbFields(d)
        BY <1>2, Zenon
    <2>5. CASE m \in Ues
        <3>1. r = RegisterNodeNrUe(d, id, m, t)
            BY <2>1, <2>5, Zenon
        <3>2. r.gnb = d.gnb
            BY <2>4, <3>1, RegisteredUe
        <3>3. \A x \in d.ue : x.id # id /\ x.imsi # m => x \in r.ue
            BY <2>4, <3>1, RegisteredUe
        <3>4. \E x \in r.ue : x.id = id /\ x.imsi = m
            BY <2>4, <3>1, RegisteredUe
        <3>5. CASE n \in Ues
            <4>1. PICK x \in d.ue : x.id = i
                BY <3>5, Zenon DEF Rows, RowIds
            <4>2. x.imsi = n
                BY <1>2, <4>1, Zenon DEF IInv, RowInv, Owned
            <4>3. \E y \in r.ue : y.id = i
                BY <2>3, <3>3, <3>4, <4>1, <4>2, Zenon
            <4> QED BY <3>5, <4>3, Zenon DEF Rows, RowIds
        <3>6. CASE n \notin Ues
            BY <3>2, <3>6, Zenon DEF Rows, RowIds
        <3> QED BY <3>5, <3>6, Zenon
    <2>6. CASE m \notin Ues
        <3>1. r = RegisterNodeNrGnb(d, id, m, t)
            BY <2>1, <2>6, Zenon
        <3>2. r.ue = d.ue
            BY <2>4, <3>1, RegisteredGnb
        <3>3. \A x \in d.gnb : x.id # id => x \in r.gnb
            BY <2>4, <3>1, RegisteredGnb
        <3>4. \E x \in r.gnb : x.id = id /\ x.cell = m
            BY <2>4, <3>1, RegisteredGnb
        <3>5. CASE n \notin Ues
            <4>1. PICK x \in d.gnb : x.id = i
                BY <3>5, Zenon DEF Rows, RowIds
            <4>2. \E y \in r.gnb : y.id = i
                BY <3>3, <3>4, <4>1, Zenon
            <4> QED BY <3>5, <4>2, Zenon DEF Rows, RowIds
        <3>6. CASE n \in Ues
            BY <3>2, <3>6, Zenon DEF Rows, RowIds
        <3> QED BY <3>5, <3>6, Zenon
    <2> QED BY <2>5, <2>6, Zenon
<1> QED BY <1>1, <1>3, <1>4, <1>5, DbSteps, Zenon

\* In steady operation a UE or gNB that the Logic Modules get from
\* GetNrUeE2NodeIds() or GetNrGnbE2NodeIds() is in every later result: no late
\* request takes its row away.
THEOREM ListedNodesStay ==
    ASSUME Steady
    PROVE  Spec => ListedForGood
<1>1. ASSUME IInv, IInv', [Next]_vars
      PROVE  \A n \in Nodes : Listed(n) => Listed(n)'
    <2> SUFFICES ASSUME NEW n \in Nodes, Listed(n) PROVE Listed(n)'
        BY Zenon
    <2> PICK i : i = m_e2NodeId[n]
        BY Zenon
    <2>1. \A j \in DOMAIN db.reg : IsIn(db.reg[j])
        BY <1>1, Zenon DEF IInv, SteadyInv, FreshInv
    <2>2. i \in DOMAIN db.reg /\ i \in Rows(n)
        <3> PICK d : d = db
            BY Zenon
        <3>1. Found(d, n, i)
            BY Zenon DEF Listed, Found
        <3>2. i \in DOMAIN d.reg /\ i \in RowIds(d, n)
            BY <2>1, <3>1, ListedRows, Zenon
        <3> QED BY <3>2, Zenon DEF Rows
    <2>3. i # 0
        BY <1>1, <2>2, Carried, Zenon DEF IInv, SteadyInv, FreshInv
    <2>4. m_e2NodeId'[n] = i /\ Owned(i, n)'
        BY <1>1, <2>3, IdentifierKept, Zenon
    <2>5. i \in Rows(n)'
        BY <1>1, <2>2, <2>3, RowKept, Zenon
    <2>6. i \in DOMAIN db'.reg /\ \A j \in DOMAIN db'.reg : IsIn(db'.reg[j])
        BY <1>1, <2>4, Zenon DEF IInv, SteadyInv, FreshInv, Owned
    <2>7. Listed(n)'
        <3> PICK d : d = db'
            BY Zenon
        <3>1. i \in DOMAIN d.reg /\ i \in RowIds(d, n)
            BY <2>5, <2>6, Zenon DEF Rows
        <3>2. Found(d, n, i)
            BY <2>6, <3>1, ListedRows, Zenon
        <3> QED BY <2>4, <3>2, Zenon DEF Listed, Found
    <2> QED BY <2>7, Zenon
<1>2. IInv /\ IInv' /\ [Next]_vars => [\A n \in Nodes : Listed(n) => Listed(n)']_vars
    BY <1>1, Zenon
<1> QED BY <1>2, SteadyInductive, PTL DEF Spec, ListedForGood

-----------------------------------------------------------------------------
(* Commands.                                                               *)

\* The gNB that a module chose is one of those that the RIC can address, and
\* so is the receiver of every command.
CommandInv ==
    /\ \A r \in run : \E n \in Nodes \ Ues : Owned(r.id, n)
    /\ CommandsReachGnb

\* An identifier that GetNrGnbE2NodeIds() returns has a row in nrgnb and a row
\* "registered = true".
LEMMA ChosenIsRegistered ==
    ASSUME NEW d, NEW ids \in GetNrGnbE2NodeIds(d), NEW id \in ids
    PROVE  /\ \E r \in d.gnb : r.id = id
           /\ id \in DOMAIN d.reg /\ TRUE \in d.reg[id].flags
<1>1. PICK S \in Grouped(d) : ids = S \cap {r.id : r \in d.gnb}
    BY Zenon DEF GetNrGnbE2NodeIds
<1>2. S \subseteq DOMAIN d.reg /\ id \in S
    BY <1>1, Zenon DEF Grouped
<1>3. (id \in S) \in d.reg[id].flags
    BY <1>1, <1>2, Zenon DEF Grouped
<1> QED BY <1>1, <1>2, <1>3, Zenon

\* The identifiers that a command is addressed by stay with their nodes.
LEMMA CommandKept ==
    ASSUME CommandInv, \A id, n : Owned(id, n) => Owned(id, n)',
           \A r \in run' : r \in run \/ \E n \in Nodes \ Ues : Owned(r.id, n)',
           \A c \in commands' \cup executed' :
               \/ c \in commands \cup executed
               \/ c.node \in Nodes \ Ues /\ Owned(c.id, c.node)
    PROVE  CommandInv'
BY Zenon DEF CommandInv, CommandsReachGnb

\* For any number of nodes and any loss, delay and reordering of messages, any
\* activation and deactivation of nodes and any restart of a RIC whose
\* database outlives it: a command of ProcessCommands() goes to the gNB that the
\* module read from the repository, and to no other node, and a node holds no
\* identifier but its own.
THEOREM CommandsFindTheirGnb ==
    ASSUME DatabaseKept
    PROVE  CommandSpec => [](CommandsReachGnb /\ OwnedIds)
<1> DEFINE Inv == Shape /\ IdInv /\ RowInv /\ CommandInv
<1>1. CommandInit => Inv
    <2> SUFFICES ASSUME CommandInit PROVE Inv
        BY Zenon
    <2>1. Shape /\ IdInv
        BY IdInit, Zenon DEF CommandInit
    <2>2. RowInv
        BY Zenon DEF CommandInit, Init, EmptyDb, EmptyMap, RowInv
    <2> QED BY <2>1, <2>2, Zenon DEF CommandInit, CommandInv, CommandsReachGnb
<1>2. Inv /\ [CommandNext]_allVars => Inv'
    <2> SUFFICES ASSUME Shape, IdInv, RowInv, CommandInv, [CommandNext]_allVars PROVE Inv'
        BY Zenon
    <2>1. ASSUME [Next]_vars, UNCHANGED commandVars PROVE Inv'
        <3>1. Shape' /\ IdInv' /\ RowInv' /\ \A id, n : Owned(id, n) => Owned(id, n)'
            BY <2>1, IdStep, RowStep, Zenon
        <3> QED BY <2>1, <3>1, CommandKept, Zenon DEF commandVars
    <2>2. CASE Others
        <3>1. Next /\ UNCHANGED commandVars
            BY <2>2, Zenon DEF Others, Next, Due
        <3> QED BY <2>1, <3>1, Zenon
    <2>3. ASSUME NEW e \in Due, QueryLms(e) PROVE Inv'
        <3>1. Next
            BY <2>3, Zenon DEF QueryLms, Next, Due
        <3>2. Shape' /\ IdInv' /\ RowInv' /\ \A id, n : Owned(id, n) => Owned(id, n)'
            BY <3>1, IdStep, RowStep
        <3>3. \A ids \in GetNrGnbE2NodeIds(db') : \A id \in ids :
                  \E n \in Nodes \ Ues : Owned(id, n)'
            <4> PICK d : d = db'
                BY Zenon
            <4>1. \A r \in d.gnb : r.id = 0 \/ (Owned(r.id, r.cell)' /\ r.cell \in Nodes \ Ues)
                BY <3>2, Zenon DEF RowInv
            <4>a. 0 \in DOMAIN d.reg => TRUE \notin d.reg[0].flags
                BY <3>2, Zenon DEF RowInv
            <4>2. \A ids \in GetNrGnbE2NodeIds(d) : \A id \in ids :
                      id # 0 /\ \E r \in d.gnb : r.id = id
                BY <4>a, ChosenIsRegistered, ZenonT(60)
            <4> QED BY <4>1, <4>2
        <3>4. /\ \A r \in run' : \E n \in Nodes \ Ues : Owned(r.id, n)'
              /\ UNCHANGED <<commands, executed>>
            BY <2>3, <3>3 DEF QueryLms
        <3> QED BY <3>2, <3>4, CommandKept, Zenon
    <2>4. ASSUME NEW r \in run, FinishRun(r) PROVE Inv'
        <3>1. UNCHANGED <<db, m_nodeTerminators, m_e2NodeId, m_reports, events, saved>>
            BY <2>4, Zenon DEF FinishRun, vars, simVars, ricVars, nodeVars
        <3>2. Shape' /\ IdInv' /\ RowInv' /\ \A id, n : Owned(id, n) => Owned(id, n)'
            BY <3>1, IdKept, ZenonT(60) DEF RowInv, Owned
        <3>3. PICK n \in Nodes \ Ues : Owned(r.id, n)
            BY Zenon DEF CommandInv
        <3>4. Terminator(r.id) = n
            BY <3>3, Zenon DEF Owned, Terminator
        <3>5. /\ run' \subseteq run /\ executed' = executed
              /\ \A c \in commands' : c \in commands \/ (c.node = n /\ c.id = r.id)
            BY <2>4, <3>4 DEF FinishRun
        <3> QED BY <3>2, <3>3, <3>5, CommandKept
    <2>5. ASSUME NEW c \in commands, ReceiveCommand(c) PROVE Inv'
        <3>1. UNCHANGED <<db, m_nodeTerminators, m_e2NodeId, m_reports, events, saved>>
            BY <2>5, ZenonT(60) DEF ReceiveCommand, simVars, ricVars, nodeVars
        <3>2. Shape' /\ IdInv' /\ RowInv' /\ \A id, n : Owned(id, n) => Owned(id, n)'
            BY <3>1, IdKept, ZenonT(60) DEF RowInv, Owned
        <3>3. /\ run' = run /\ commands' \subseteq commands
              /\ executed' \subseteq executed \cup {c}
            BY <2>5, Zenon DEF ReceiveCommand
        <3> QED BY <3>2, <3>3, CommandKept, Zenon
    <2>6. CASE UNCHANGED allVars
        BY <2>1, <2>6, Zenon DEF allVars
    <2> QED BY <2>2, <2>3, <2>4, <2>5, <2>6 DEF CommandNext
<1>3. Inv => CommandsReachGnb /\ OwnedIds
    BY Zenon DEF CommandInv, IdInv, OwnedIds
<1> QED BY <1>1, <1>2, <1>3, PTL DEF CommandSpec
=============================================================================
