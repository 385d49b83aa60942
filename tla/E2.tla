--------------------------------- MODULE E2 ---------------------------------
(***************************************************************************)
(* The E2 interface: the terminators of the nodes (OranNrE2NodeTerminator  *)
(* with one OranReporter and its OranReportTriggerPeriodic each), the      *)
(* terminator of the Near-RT RIC (OranNrNearRtRicE2Terminator), the        *)
(* registrations in the Data Repository and CheckForInactivity().          *)
(*                                                                         *)
(* A node registers when it is activated and then periodically; the RIC    *)
(* answers with the node's identifier, deregisters nodes that have been    *)
(* silent for too long, and saves the reports of registered nodes. Every   *)
(* message takes a delay of its own, so messages overtake each other.      *)
(***************************************************************************)
EXTENDS EventQueue, DataRepository

CONSTANTS
    Nodes,                \* the node terminators
    Ues,                  \* those of type NRUE; the others are NRGNB
    Null,                 \* the null terminator pointer
    Reporting,            \* every terminator has a reporter
    InitialReport,        \* the attribute of the triggers
    RegistrationInterval, \* the value of m_registrationIntervalRv
    SendInterval,         \* the value of m_sendIntervalRv
    TriggerInterval,      \* the value of m_intervalRv of the triggers
    Delays,               \* the values of both m_transmissionDelayRv
    Threshold,            \* m_e2NodeInactivityThreshold
    InactivityInterval,   \* the value of m_e2NodeInactivityIntervalRv
    LmQueryInterval,      \* m_lmQueryInterval
    InMemory,             \* the database file is ":memory:"
    Calls,                \* the calls that the script makes
    MaxCalls,             \* bound: how many of them
    MaxTime               \* bound: the argument of Simulator::Stop

ASSUME NodeAssumption == Null \notin Nodes /\ Ues \subseteq Nodes

ASSUME IntervalAssumption ==
    /\ {RegistrationInterval, SendInterval, TriggerInterval,
        InactivityInterval, LmQueryInterval} \subseteq Nat \ {0}
    /\ Delays \subseteq Nat
    /\ {Threshold, MaxCalls, MaxTime} \subseteq Nat

VARIABLES
    now,               \* Simulator::Now()
    events,            \* the pending events
    aborted,           \* what ended the program, or "no"
    calls,             \* the number of calls the script has made
    ricActive,         \* m_active of the RIC, its terminator and repository
    db,                \* the database
    m_nodeTerminators, \* nodeid -> the node terminator
    nodeActive,        \* OranNrE2NodeTerminator::m_active
    m_e2NodeId,
    m_reports,
    reporterActive,    \* m_active of the reporter, and of its trigger
    hasTrigger,        \* the reporter's m_trigger is not null
    saved              \* history: the reports that the repository holds

simVars == <<now, events>>
scriptVars == <<aborted, calls>>
ricVars == <<ricActive, db, m_nodeTerminators>>
reporterVars == <<reporterActive, hasTrigger>>
nodeVars == <<nodeActive, m_e2NodeId, m_reports, reporterVars>>
vars == <<simVars, scriptVars, ricVars, nodeVars, saved>>

-----------------------------------------------------------------------------
(* The events: members of node n, members of the RIC, and messages.        *)

RegisterMember(n) == <<"register", n>>
SendMember(n) == <<"send", n>>
TriggerMember(n) == <<"trigger", n>>

InactivityMember == <<"inactivity", Null>>
LmQueryMember == <<"lmQuery", Null>>

RegistrationRequest(n, id) == <<"registrationRequest", n, id>>
RegistrationResponse(n, id) == <<"registrationResponse", n, id>>
DeregistrationRequest(id) == <<"deregistrationRequest", Null, id>>
DeregistrationResponse(n) == <<"deregistrationResponse", n>>
ReportMessage(r) == <<"report", r.node, r>>

Init ==
    /\ now = 0
    /\ events = {}
    /\ aborted = "no"
    /\ calls = 0
    /\ ricActive = FALSE
    /\ db = EmptyDb
    /\ m_nodeTerminators = EmptyMap
    /\ nodeActive = [n \in Nodes |-> FALSE]
    /\ m_e2NodeId = [n \in Nodes |-> 0]
    /\ m_reports = [n \in Nodes |-> {}]
    /\ reporterActive = [n \in Nodes |-> FALSE]
    /\ hasTrigger = [n \in Nodes |-> Reporting]
    /\ saved = {}

Running == aborted = "no"
Fires(e) == Running /\ e.ts = now /\ IsNext(e, events)
Kind(e) == e.id[1]
Node(e) == e.id[2]
Argument(e) == e.id[3]

\* Time passes to the next instant once no event is due.
Advance ==
    /\ Running
    /\ now < MaxTime
    /\ \A e \in events : e.ts > now
    /\ now' = now + 1
    /\ UNCHANGED <<events, scriptVars, ricVars, nodeVars, saved>>

\* The script makes call c.
Call(c) ==
    /\ Running
    /\ c \in Calls
    /\ calls < MaxCalls
    /\ calls' = calls + 1

\* The handler of e returns at once: its object is not active.
Ignored(e) ==
    /\ Fires(e)
    /\ \/ Kind(e) \in {"registrationResponse", "send"} /\ ~nodeActive[Node(e)]
       \/ Kind(e) \in {"registrationRequest", "deregistrationRequest", "report"}
            /\ ~ricActive
    /\ events' = events \ {e}
    /\ UNCHANGED <<now, scriptVars, ricVars, nodeVars, saved>>

-----------------------------------------------------------------------------
(* The node terminator.                                                    *)

\* Mutant: the registration is not repeated.
Registering_Once(n, E, d) ==
    Post(Cancel(E, RegisterMember(n)), now + d, RegistrationRequest(n, m_e2NodeId[n]))

\* Register(), with E the pending events and d the delay of the request.
Registering(n, E, d) ==
    Post(Post(Cancel(E, RegisterMember(n)),
              now + d, RegistrationRequest(n, m_e2NodeId[n])),
         now + RegistrationInterval, RegisterMember(n))

\* Activate() registers and activates the reporter. A reporter that has lost
\* its trigger stays inactive.
ActivateNode(n) ==
    /\ Call("ActivateNode")
    /\ ~nodeActive[n]
    /\ nodeActive' = [nodeActive EXCEPT ![n] = TRUE]
    /\ m_reports' = [m_reports EXCEPT ![n] = {}]
    /\ \E d \in Delays : events' =
         IF hasTrigger[n]
         THEN Assign(Registering(n, events, d), now + TriggerInterval, TriggerMember(n))
         ELSE Registering(n, events, d)
    /\ reporterActive' = [reporterActive EXCEPT ![n] = hasTrigger[n]]
    /\ UNCHANGED <<now, aborted, ricVars, m_e2NodeId, hasTrigger, saved>>

\* Deactivate() deactivates the reporter, whose trigger unlinks itself from
\* it, cancels the members and asks for the deregistration.
DeactivateNode(n) ==
    /\ Call("DeactivateNode")
    /\ nodeActive[n]
    /\ nodeActive' = [nodeActive EXCEPT ![n] = FALSE]
    /\ reporterActive' = [reporterActive EXCEPT ![n] = FALSE]
    /\ hasTrigger' = [hasTrigger EXCEPT ![n] = @ /\ ~reporterActive[n]]
    /\ \E d \in Delays :
         LET E == IF reporterActive[n] THEN Cancel(events, TriggerMember(n)) ELSE events
         IN events' = Post(Cancel(Cancel(E, SendMember(n)), RegisterMember(n)),
                           now + d, DeregistrationRequest(m_e2NodeId[n]))
    /\ UNCHANGED <<now, aborted, ricVars, m_e2NodeId, m_reports, saved>>

RegisterEvent(e) ==
    LET n == Node(e) IN
    /\ Fires(e)
    /\ Kind(e) = "register"
    /\ nodeActive[n]
    /\ \E d \in Delays : events' = Registering(n, events \ {e}, d)
    /\ UNCHANGED <<now, scriptVars, ricVars, nodeVars, saved>>

\* GenerateReports() stamps a report with the identifier its node has then.
Report(n, id) == [node |-> n, id |-> id, at |-> now]

\* ReceiveRegistrationResponse() in an active node. A new identifier is
\* announced to the reporter, whose trigger may report at once and then also
\* schedules itself again. The next send is scheduled in any case, next to
\* the one that is already pending.
RegistrationResponseEvent(e) ==
    LET n == Node(e)
        id == Argument(e)
        notify == Reporting /\ m_e2NodeId[n] # id /\ id > 0
        report == notify /\ reporterActive[n] /\ InitialReport
        E == IF report THEN Assign(events \ {e}, now + TriggerInterval, TriggerMember(n))
             ELSE events \ {e}
    IN
    /\ Fires(e)
    /\ Kind(e) = "registrationResponse"
    /\ nodeActive[n]
    /\ m_e2NodeId' = [m_e2NodeId EXCEPT ![n] = id]
    /\ aborted' = IF notify /\ ~hasTrigger[n] THEN "null trigger" ELSE "no"
    /\ m_reports' = [m_reports EXCEPT ![n] = IF report THEN @ \cup {Report(n, id)} ELSE @]
    /\ events' = Assign(E, now + SendInterval, SendMember(n))
    /\ UNCHANGED <<now, calls, ricVars, nodeActive, reporterVars, saved>>

\* ReceiveDeregistrationResponse(), called on the terminator that the RIC
\* looked up. Neither the registrations nor the sends are cancelled.
DeregistrationResponseEvent(e) ==
    /\ Fires(e)
    /\ Kind(e) = "deregistrationResponse"
    /\ IF Node(e) = Null
       THEN aborted' = "null terminator" /\ UNCHANGED m_e2NodeId
       ELSE m_e2NodeId' = [m_e2NodeId EXCEPT ![Node(e)] = 0] /\ UNCHANGED aborted
    /\ events' = events \ {e}
    /\ UNCHANGED <<now, calls, ricVars, nodeActive, m_reports, reporterVars,
                   saved>>

\* TriggerReport() and PerformReport(). A trigger that was unlinked has no
\* reporter to call.
TriggerEvent(e) ==
    LET n == Node(e) IN
    /\ Fires(e)
    /\ Kind(e) = "trigger"
    /\ IF reporterActive[n]
       THEN /\ events' = Assign(events \ {e}, now + TriggerInterval, TriggerMember(n))
            /\ m_reports' = [m_reports EXCEPT ![n] = @ \cup {Report(n, m_e2NodeId[n])}]
            /\ UNCHANGED aborted
       ELSE /\ events' = events \ {e}
            /\ aborted' = "null reporter"
            /\ UNCHANGED m_reports
    /\ UNCHANGED <<now, calls, ricVars, nodeActive, m_e2NodeId, reporterVars, saved>>

\* DoSendReports(): every stored report leaves with a delay of its own.
SendEvent(e) ==
    LET n == Node(e) IN
    /\ Fires(e)
    /\ Kind(e) = "send"
    /\ nodeActive[n]
    /\ \E delay \in [m_reports[n] -> Delays] :
         events' = Assign(PostAll(events \ {e},
                                  {<<now + delay[r], ReportMessage(r)>> : r \in m_reports[n]}),
                          now + SendInterval, SendMember(n))
    /\ m_reports' = [m_reports EXCEPT ![n] = {}]
    /\ UNCHANGED <<now, scriptVars, ricVars, nodeActive, m_e2NodeId, reporterVars, saved>>

-----------------------------------------------------------------------------
(* The terminator of the RIC.                                              *)

\* m_nodeTerminators[id]: operator[] yields a null pointer for a new key.
Terminator(id) ==
    IF id \in DOMAIN m_nodeTerminators THEN m_nodeTerminators[id] ELSE Null

RegistrationRequestEvent(e) ==
    LET n == Node(e)
        id == Argument(e)
    IN
    /\ Fires(e)
    /\ Kind(e) = "registrationRequest"
    /\ ricActive
    /\ db' = IF n \in Ues THEN RegisterNodeNrUe(db, id, n, now)
                          ELSE RegisterNodeNrGnb(db, id, n, now)
    /\ m_nodeTerminators' = Put(m_nodeTerminators, Assigned(db, id), n)
    /\ \E d \in Delays : events' =
         Post(events \ {e}, now + d, RegistrationResponse(n, Assigned(db, id)))
    /\ UNCHANGED <<now, scriptVars, ricActive, nodeVars, saved>>

DeregistrationRequestEvent(e) ==
    /\ Fires(e)
    /\ Kind(e) = "deregistrationRequest"
    /\ ricActive
    /\ db' = DeregisterNode(db, Argument(e), now)
    /\ \E d \in Delays : events' =
         Post(events \ {e}, now + d, DeregistrationResponse(Terminator(Argument(e))))
    /\ UNCHANGED <<now, scriptVars, ricActive, m_nodeTerminators, nodeVars, saved>>

\* ReceiveReport(): the repository saves the report of a registered node. No
\* query trigger is installed; what one does is modelled in NearRtRic.
ReportEvent(e) ==
    /\ Fires(e)
    /\ Kind(e) = "report"
    /\ ricActive
    /\ saved' = IF IsNodeRegistered(db, Argument(e).id)
                THEN saved \cup {Argument(e)} ELSE saved
    /\ events' = events \ {e}
    /\ UNCHANGED <<now, scriptVars, ricVars, nodeVars>>

\* The script starts the RIC; a second Start() is modelled in NearRtRic.
Start ==
    /\ Call("Start")
    /\ ~ricActive
    /\ ricActive' = TRUE
    /\ events' = Post(Post(events, now + LmQueryInterval, LmQueryMember),
                      now + InactivityInterval, InactivityMember)
    /\ UNCHANGED <<now, aborted, db, m_nodeTerminators, nodeVars, saved>>

\* Stop() closes the database: one in memory is gone.
Stop ==
    /\ Call("Stop")
    /\ ricActive
    /\ ricActive' = FALSE
    /\ db' = IF InMemory THEN EmptyDb ELSE db
    /\ events' = Cancel(Cancel(events, LmQueryMember), InactivityMember)
    /\ UNCHANGED <<now, aborted, m_nodeTerminators, nodeVars, saved>>

\* CheckForInactivity(), called by its own event and by QueryLms(): every
\* node whose last registration is older than the threshold is deregistered
\* as if it had asked for it. Of QueryLms() only the check and the next query
\* concern the E2 interface.
CheckForInactivity(e) ==
    LET E == Cancel(events \ {e}, InactivityMember)
        Checked(delay) ==
            Post(PostAll(E, {<<now + delay[id], DeregistrationResponse(Terminator(id))>> :
                                 id \in DOMAIN delay}),
                 now + InactivityInterval, InactivityMember)
    IN
    /\ Fires(e)
    /\ e.id \in {InactivityMember, LmQueryMember}
    /\ \E listed \in GetLastRegistrationRequests(db) :
        LET silent == {id \in listed : now > db.reg[id].time + Threshold} IN
        \E delay \in [silent -> Delays] :
            /\ db' = DeregisterNodes(db, silent, now)
            /\ events' = IF e.id = LmQueryMember
                         THEN Post(Checked(delay), now + LmQueryInterval, LmQueryMember)
                         ELSE Checked(delay)
    /\ UNCHANGED <<now, scriptVars, ricActive, m_nodeTerminators, nodeVars, saved>>

-----------------------------------------------------------------------------

Script ==
    \/ Start \/ Stop
    \/ \E n \in Nodes : ActivateNode(n)
    \/ \E n \in Nodes : DeactivateNode(n)

Next ==
    \/ Advance
    \/ Script
    \/ \E e \in events : Ignored(e)
    \/ \E e \in events : RegisterEvent(e)
    \/ \E e \in events : RegistrationResponseEvent(e)
    \/ \E e \in events : DeregistrationResponseEvent(e)
    \/ \E e \in events : TriggerEvent(e)
    \/ \E e \in events : SendEvent(e)
    \/ \E e \in events : RegistrationRequestEvent(e)
    \/ \E e \in events : DeregistrationRequestEvent(e)
    \/ \E e \in events : ReportEvent(e)
    \/ \E e \in events : CheckForInactivity(e)

Spec == Init /\ [][Next]_vars

-----------------------------------------------------------------------------
(* Properties.                                                             *)

Reports == [node : Nodes, id : Nat, at : Nat]

\* The types. No event is overdue, no row of the database is from the future,
\* and a registration response brings an identifier that was issued.
TypeOK ==
    /\ {now, calls} \subseteq Nat
    /\ \A e \in events : e.ts >= now /\ e.uid \in Nat /\ e.held \in BOOLEAN
    /\ \A e \in events : Kind(e) = "registrationResponse" => Argument(e) \in 1..db.seq
    /\ aborted \in {"no", "null trigger", "null reporter", "null terminator"}
    /\ ricActive \in BOOLEAN
    /\ db.seq \in Nat
    /\ db.reg \in [DOMAIN db.reg -> [time : 0..now, flags : SUBSET BOOLEAN, last : BOOLEAN]]
    /\ m_nodeTerminators \in [DOMAIN m_nodeTerminators -> Nodes]
    /\ nodeActive \in [Nodes -> BOOLEAN]
    /\ m_e2NodeId \in [Nodes -> Nat]
    /\ m_reports \in [Nodes -> SUBSET Reports]
    /\ reporterActive \in [Nodes -> BOOLEAN]
    /\ hasTrigger \in [Nodes -> BOOLEAN]
    /\ saved \subseteq Reports

Owned(id, n) == id \in DOMAIN m_nodeTerminators /\ m_nodeTerminators[id] = n

\* An identifier that a node holds is its own: the RIC addresses the node,
\* and no other node, under it. This holds through lost, late and reordered
\* messages, deactivated nodes and restarts of the RIC.
OwnedIds == \A n \in Nodes : m_e2NodeId[n] # 0 => Owned(m_e2NodeId[n], n)

\* A saved report was made by the node that its identifier belongs to.
ReportsAttributed == \A r \in saved : Owned(r.id, r.node)

\* What event i carries belongs to the node that it is about.
Sound(i) ==
    /\ i[1] \in {"register", "send", "trigger", "registrationRequest",
                 "registrationResponse"} => i[2] \in Nodes
    /\ i[1] = "registrationRequest" => i[3] = 0 \/ Owned(i[3], i[2])
    /\ i[1] = "registrationResponse" => Owned(i[3], i[2])
    /\ i[1] = "report" => i[3].id = 0 \/ Owned(i[3].id, i[3].node)

\* The inductive form of OwnedIds and ReportsAttributed. Identifiers are
\* issued once; those in messages and in unsent reports are the node's own;
\* and identifier 0, under which an unregistered node reports, is never a
\* registered one.
IdInv ==
    /\ \A id \in DOMAIN m_nodeTerminators : id \in 1..db.seq
    /\ \A n \in Nodes : m_e2NodeId[n] = 0 \/ Owned(m_e2NodeId[n], n)
    /\ \A n \in Nodes : \A r \in m_reports[n] : r.id = 0 \/ Owned(r.id, r.node)
    /\ \A e \in events : Sound(e.id)
    /\ ~IsNodeRegistered(db, 0)
    /\ \A r \in saved : Owned(r.id, r.node)

\* The registrations that the repository holds for node n.
Registrations(n) == {id \in DOMAIN m_nodeTerminators :
                        m_nodeTerminators[id] = n /\ IsNodeRegistered(db, id)}

\* oran-nr-data-repository.h on RegisterNode: "If the node is already
\* registered, return the currently assigned E2 Node ID." A node never has
\* two registrations.
OneRegistration ==
    \A n \in Nodes : \A id1, id2 \in Registrations(n) : id1 = id2

\* A registered node keeps its identifier and its registration for as long as
\* it is active: no response, however late, takes the identifier away, and the
\* periodic registrations keep CheckForInactivity away.
RegistrationKept ==
    [][\A n \in Nodes :
         m_e2NodeId[n] # 0 => /\ m_e2NodeId'[n] = m_e2NodeId[n]
                             /\ IsNodeRegistered(db', m_e2NodeId[n])]_vars

\* A node that has gone silent is deregistered by the first check after the
\* threshold: while the RIC runs no registration grows older than that. (A
\* node that left and came back in one instant has rows of both kinds at that
\* time; GetLastRegistrationRequests() may then miss it.)
SilentNodesLeave ==
    \A id \in DOMAIN db.reg :
        ricActive /\ db.reg[id].flags = {TRUE}
          => now <= db.reg[id].time + Threshold + InactivityInterval

\* A node is registering again and again while it is active, and only then:
\* one registration is pending, and it can still be cancelled.
RegistrationScheduled ==
    LET registers == {e \in events : Kind(e) = "register"} IN
    /\ \A n \in Nodes : nodeActive[n] => \E e \in registers : Node(e) = n
    /\ \A e \in registers : e.held /\ nodeActive[Node(e)]
    /\ \A e, f \in registers : Node(e) = Node(f) => e = f

\* A node gets its identifier within a round trip of its first attempt after
\* the start of the RIC, however many attempts were lost before. (The attempt
\* was RegistrationInterval before the next one; the RIC has been running at
\* least since LmQueryInterval before its next query.)
RegistersInTime ==
    \A n \in Nodes : \A next, query \in events :
        /\ next.id = RegisterMember(n) /\ query.id = LmQueryMember
        /\ next.ts + LmQueryInterval > query.ts + RegistrationInterval
        /\ \A d \in Delays : now + RegistrationInterval > next.ts + 2 * d
        => m_e2NodeId[n] # 0

\* A report of a registered node is saved: whatever its delay, it finds the
\* registration that it was stamped under.
ReportsFindRegistration ==
    \A e \in events : Kind(e) = "report" /\ Argument(e).id # 0
                        => IsNodeRegistered(db, Argument(e).id)

\* Whatever row SQLite picks, the query for all UEs, or all gNBs, has node n.
Listed(n) ==
    \A ids \in IF n \in Ues THEN GetNrUeE2NodeIds(db) ELSE GetNrGnbE2NodeIds(db) :
        m_e2NodeId[n] \in ids

\* A node that the Logic Modules can see stays in sight. Its row of nrue or
\* nrgnb is written under the identifier of the request, 0 in the first one,
\* so that a late request could take the row away again.
ListedForGood == [][\A n \in Nodes : Listed(n) => Listed(n)']_vars
=============================================================================
