-------------------------- MODULE NearRtRicProofs ---------------------------
(***************************************************************************)
(* Proofs about the query cycle of the Near-RT RIC, for any set of Logic   *)
(* Modules, intervals, delays and script: its types and the cycles of its  *)
(* runs; and, where queries come in turn, that it implements QueryRound,   *)
(* issues one batch per cycle and issues it complete.                      *)
(***************************************************************************)
EXTENDS NearRtRic, FiniteSetTheorems, TLAPS

EventType == [ts : Nat, uid : Nat, id : EventIds, held : BOOLEAN]

\* An event that is scheduled at a time of the model has the type of events.
LEMMA EventTyped ==
    ASSUME NEW t \in Nat, NEW u \in Nat, NEW i \in EventIds
    PROVE  Event(t, u, i) \in EventType
BY Zenon DEF Event, EventType

\* Cancelling an EventId member, or assigning it again, keeps the queue typed.
LEMMA QueueTyped ==
    ASSUME NEW E \in SUBSET EventType, NEW i
    PROVE  /\ Cancel(E, i) \in SUBSET EventType
           /\ LetGo(E, i) \in SUBSET EventType
           /\ Held(E, i) \subseteq E
BY Zenon DEF Cancel, LetGo, Held, EventType

\* Inserting an answer in m_lmQueryCommands keeps the map typed and the other
\* answers in place.
LEMMA PutTyped ==
    ASSUME NEW m, DOMAIN m \subseteq Keys, m \in [DOMAIN m -> SUBSET Command],
           NEW k \in Keys, NEW cs \in SUBSET Command
    PROVE  /\ DOMAIN Put(m, k, cs) = DOMAIN m \cup {k}
           /\ DOMAIN Put(m, k, cs) \subseteq Keys
           /\ Put(m, k, cs) \in [DOMAIN Put(m, k, cs) -> SUBSET Command]
           /\ Put(m, k, cs)[k] = cs
           /\ \A j \in DOMAIN m : j # k => Put(m, k, cs)[j] = m[j]
BY Zenon DEF Put

\* QueryLms() schedules typed events and starts typed runs.
LEMMA QueryTyped ==
    ASSUME TypeOK, NEW E \in SUBSET EventType, QueryLms(E)
    PROVE  /\ now' \in Nat
           /\ uid' \in Nat
           /\ events' \in SUBSET EventType
           /\ m_lmQueryCycle' \in Nat
           /\ lmCycle' \in [Lms -> Nat]
           /\ lmCommands' \in [Lms -> SUBSET Command]
<1> PICK delay \in [Runs -> Delays], productive \in SUBSET Runs :
        /\ events' = {e \in Timed(Rechecked(E, uid), uid + 1) : e.id \notin Runs}
             \cup {Event(now + delay[lm], Stamp(lm), lm) : lm \in Runs}
             \cup {Event(now + Interval, uid + 4, "lmQuery")}
        /\ lmCommands' = [lm \in Lms |->
             IF lm \in productive THEN {[lm |-> lm, cycle |-> now]}
             ELSE IF lm \in Runs THEN {} ELSE lmCommands[lm]]
    BY Zenon DEF QueryLms
<1>1. now \in Nat /\ uid \in Nat /\ Runs \subseteq Lms
    BY Zenon DEF TypeOK, Runs, Deployed
<1>a. /\ now + InactivityInterval \in Nat /\ now + MaxWait \in Nat
      /\ now + Interval \in Nat /\ \A lm \in Runs : now + delay[lm] \in Nat
      /\ uid + 1 \in Nat /\ uid + 4 \in Nat /\ \A lm \in Runs : Stamp(lm) \in Nat
    BY <1>1, TimeAssumption DEF Stamp
<1>b. /\ "lmQuery" \in EventIds /\ "inactivity" \in EventIds
      /\ "process" \in EventIds /\ Runs \subseteq EventIds
    BY <1>1, Zenon DEF EventIds
<1>2. Rechecked(E, uid) \in SUBSET EventType
    <2>1. Cancel(E, "inactivity") \in SUBSET EventType
        BY QueueTyped, Zenon
    <2>2. Event(now + InactivityInterval, uid, "inactivity") \in EventType
        BY <1>1, <1>a, <1>b, EventTyped, Zenon
    <2> QED BY <2>1, <2>2, Zenon DEF Rechecked
<1>3. Timed(Rechecked(E, uid), uid + 1) \in SUBSET EventType
    <2>1. LetGo(Rechecked(E, uid), "process") \in SUBSET EventType
        BY <1>2, QueueTyped, Zenon
    <2>2. Event(now + MaxWait, uid + 1, "process") \in EventType
        BY <1>a, <1>b, EventTyped, Zenon
    <2> QED BY <1>2, <2>1, <2>2, Zenon DEF Timed
<1>4. \A lm \in Runs : Event(now + delay[lm], Stamp(lm), lm) \in EventType
    BY <1>a, <1>b, EventTyped, Zenon
<1>5. Event(now + Interval, uid + 4, "lmQuery") \in EventType
    BY <1>a, <1>b, EventTyped, Zenon
<1>6. events' \in SUBSET EventType
    BY <1>3, <1>4, <1>5, Zenon
<1>7. lmCommands' \in [Lms -> SUBSET Command]
    <2>1. \A lm \in productive : {[lm |-> lm, cycle |-> now]} \in SUBSET Command
        BY <1>1 DEF Command
    <2> QED BY <1>1, <2>1, Zenon DEF TypeOK
<1>8. lmCycle' \in [Lms -> Nat]
    BY <1>1, ZenonT(60) DEF QueryLms, TypeOK
<1>9. now' \in Nat /\ uid' \in Nat /\ m_lmQueryCycle' \in Nat
    BY <1>1 DEF QueryLms
<1> QED BY <1>6, <1>7, <1>8, <1>9, Zenon

\* ProcessLmQueryCommands() issues a typed batch and leaves an empty map.
LEMMA ProcessTyped ==
    ASSUME TypeOK, NEW E \in SUBSET EventType, NEW m,
           DOMAIN m \subseteq Keys, m \in [DOMAIN m -> SUBSET Command],
           answered' \in SUBSET Lms, ProcessLmQueryCommands(m, E)
    PROVE  /\ events' \in SUBSET EventType
           /\ issued' \in Batch
           /\ batches' \in Nat
           /\ DOMAIN m_lmQueryCommands' \subseteq Keys
           /\ m_lmQueryCommands' \in [DOMAIN m_lmQueryCommands' -> SUBSET Command]
<1>1. events' \in SUBSET EventType
    BY QueueTyped, Zenon DEF ProcessLmQueryCommands
<1>2. issued' \in Batch
    <2>1. UNION {m[k] : k \in DOMAIN m} \in SUBSET Command
        BY Zenon
    <2>2. Deployed \in SUBSET Lms /\ m_lmQueryCycle \in Nat /\ now \in Nat
        BY Zenon DEF TypeOK, Deployed
    <2> QED BY <2>1, <2>2, Zenon DEF ProcessLmQueryCommands, Batch
<1>3. batches' \in Nat
    <2>1. batches \in Nat
        BY Zenon DEF TypeOK
    <2> QED BY <2>1 DEF ProcessLmQueryCommands
<1> QED BY <1>1, <1>2, <1>3, Zenon DEF ProcessLmQueryCommands, EmptyMap

\* What NotifyLmFinished() makes of the map of commands is typed.
LEMMA FiledTyped ==
    ASSUME TypeOK, NEW lm \in Lms
    PROVE  /\ DOMAIN Filed(lm) \subseteq Keys
           /\ Filed(lm) \in [DOMAIN Filed(lm) -> SUBSET Command]
<1>1. Key(lm) \in Keys
    BY Zenon DEF Key, Keys
<1>2. lmCommands[lm] \in SUBSET Command /\ {} \in SUBSET Command
    BY Zenon DEF TypeOK
<1>3. DOMAIN m_lmQueryCommands \subseteq Keys
      /\ m_lmQueryCommands \in [DOMAIN m_lmQueryCommands -> SUBSET Command]
    BY Zenon DEF TypeOK
<1> QED BY <1>1, <1>2, <1>3, PutTyped, Zenon DEF Filed

\* Every action keeps the variables in their types.
THEOREM TypeCorrect == Spec => []TypeOK
<1>1. Init => TypeOK
    <2> SUFFICES ASSUME Init PROVE TypeOK
        BY Zenon
    <2>1. /\ DOMAIN EmptyMap = {}
          /\ EmptyMap \in [DOMAIN EmptyMap -> SUBSET Command]
        BY Zenon DEF EmptyMap
    <2>2. NoBatch \in Batch
        BY Zenon DEF NoBatch, Batch
    <2>3. now \in Nat /\ uid \in Nat /\ calls \in Nat /\ batches \in Nat
          /\ m_lmQueryCycle \in Nat /\ lmCycle \in [Lms -> Nat]
        BY Zenon DEF Init
    <2> QED BY LmAssumption, <2>1, <2>2, <2>3, Zenon DEF Init, TypeOK
<1>2. TypeOK /\ [Next]_vars => TypeOK'
    <2> SUFFICES ASSUME TypeOK, [Next]_vars PROVE TypeOK'
        BY Zenon
    <2> USE DEF simVars, scriptVars, ricVars, lmVars, history
    <2>ev. events \in SUBSET EventType /\ \A e : events \ {e} \in SUBSET EventType
        BY Zenon DEF TypeOK, EventType
    <2>n. /\ now \in Nat /\ uid \in Nat /\ calls \in Nat
          /\ now + 1 \in Nat /\ uid + 1 \in Nat /\ uid + 2 \in Nat
          /\ calls + 1 \in Nat /\ now + Interval \in Nat
          /\ now + InactivityInterval \in Nat
        <3>1. now \in Nat /\ uid \in Nat /\ calls \in Nat
            BY Zenon DEF TypeOK
        <3> QED BY <3>1, TimeAssumption
    <2>i. "lmQuery" \in EventIds /\ "inactivity" \in EventIds
        BY Zenon DEF EventIds
    <2>1. CASE Advance
        BY <2>1, <2>n, Zenon DEF Advance, TypeOK
    <2>2. CASE Activate \/ Deactivate
        <3>1. Activated \in [Lms -> BOOLEAN] /\ Deactivated \in [Lms -> BOOLEAN]
            BY Zenon DEF Activated, Deactivated
        <3> QED BY <2>2, <2>n, <3>1, Zenon DEF Activate, Deactivate, Call, TypeOK
    <2>3. CASE Start
        <3>1. /\ Event(now + Interval, uid, "lmQuery") \in EventType
              /\ Event(now + InactivityInterval, uid + 1, "inactivity") \in EventType
            BY <2>n, <2>i, EventTyped, Zenon
        <3>2. events' \in SUBSET EventType
            BY <2>3, <2>ev, <3>1, Zenon DEF Start
        <3>3. Activated \in [Lms -> BOOLEAN]
            BY Zenon DEF Activated
        <3> QED BY <2>3, <2>n, <3>2, <3>3, Zenon DEF Start, Call, TypeOK, EventType
    <2>4. CASE StartTwice
        <3>1. Activated \in [Lms -> BOOLEAN]
            BY Zenon DEF Activated
        <3> QED BY <2>4, <2>n, <3>1, Zenon DEF StartTwice, Call, TypeOK
    <2>5. CASE Stop
        <3>1. events' \in SUBSET EventType
            BY <2>5, <2>ev, QueueTyped DEF Stop
        <3>2. Deactivated \in [Lms -> BOOLEAN]
            BY Zenon DEF Deactivated
        <3> QED BY <2>5, <2>n, <3>1, <3>2, Zenon DEF Stop, Call, TypeOK, EventType
    <2>6. CASE NotifyReportReceived
        <3>1. Cancel(events, "lmQuery") \in SUBSET EventType
            BY <2>ev, QueueTyped, Zenon
        <3>2. QueryLms(Cancel(events, "lmQuery"))
            BY <2>6, Zenon DEF NotifyReportReceived
        <3>3. UNCHANGED <<aborted, m_active, m_defaultLm, m_additionalLms,
                          m_lmQueryCommands, lmActive, issued>>
              /\ answered' = {} /\ batches' = 0
            BY <3>2, Zenon DEF QueryLms
        <3>4. calls' \in Nat
            BY <2>6, <2>n, Zenon DEF NotifyReportReceived, Call
        <3>5. {} \subseteq Lms /\ 0 \in Nat
            BY Zenon
        <3> QED BY <3>1, <3>2, <3>3, <3>4, <3>5, QueryTyped, Zenon
                DEF TypeOK, EventType
    <2>7. CASE \E lm \in Lms : AddLogicModule(lm) \/ RemoveLogicModule(lm)
                                 \/ SetDefaultLogicModule(lm)
        BY <2>7, <2>n, Zenon DEF AddLogicModule, RemoveLogicModule,
                          SetDefaultLogicModule, Call, TypeOK
    <2>8. ASSUME NEW e \in events, LmQueryEvent(e) PROVE TypeOK'
        <3>1. CASE m_active /\ QueryLms(events \ {e}) /\ UNCHANGED calls
            <4>1. UNCHANGED <<aborted, m_active, m_defaultLm, m_additionalLms,
                              m_lmQueryCommands, lmActive, issued>>
                  /\ answered' = {} /\ batches' = 0
                BY <3>1, Zenon DEF QueryLms
            <4> QED BY <2>ev, <3>1, <4>1, QueryTyped, Zenon DEF TypeOK, EventType
        <3>2. CASE ~m_active /\ Ignored(e)
            BY <3>2, Zenon DEF Ignored, TypeOK
        <3> QED BY <2>8, <3>1, <3>2, Zenon DEF LmQueryEvent
    <2>9. ASSUME NEW e \in events, InactivityEvent(e) PROVE TypeOK'
        <3>1. CASE m_active
            <4>1. Event(now + InactivityInterval, uid, "inactivity") \in EventType
                BY <2>n, <2>i, EventTyped, Zenon
            <4>2. Rechecked(events \ {e}, uid) \in SUBSET EventType
                BY <2>ev, <4>1, QueueTyped, Zenon DEF Rechecked
            <4> QED BY <2>9, <2>n, <3>1, <4>2, Zenon DEF InactivityEvent, TypeOK, EventType
        <3>2. CASE ~m_active
            BY <2>9, <3>2, Zenon DEF InactivityEvent, Ignored, TypeOK
        <3> QED BY <3>1, <3>2, Zenon DEF TypeOK
    <2>10. ASSUME NEW e \in events, ProcessEvent(e) PROVE TypeOK'
        <3>1. CASE m_active
            <4>1. /\ answered' \in SUBSET Lms
                  /\ ProcessLmQueryCommands(m_lmQueryCommands, events \ {e})
                BY <2>10, <3>1, Zenon DEF ProcessEvent, TypeOK
            <4>2. /\ events' \in SUBSET EventType
                  /\ issued' \in Batch
                  /\ batches' \in Nat
                  /\ DOMAIN m_lmQueryCommands' \subseteq Keys
                  /\ m_lmQueryCommands' \in [DOMAIN m_lmQueryCommands' -> SUBSET Command]
                BY <2>ev, <4>1, ProcessTyped, Zenon DEF TypeOK
            <4> QED BY <2>10, <3>1, <4>1, <4>2, Zenon DEF ProcessEvent, TypeOK, EventType
        <3>2. CASE ~m_active
            BY <2>10, <3>2, Zenon DEF ProcessEvent, Ignored, TypeOK
        <3> QED BY <3>1, <3>2, Zenon DEF TypeOK
    <2>11. ASSUME NEW e \in events, FinishRunEvent(e) PROVE TypeOK'
        <3>0. e.id \in Lms
            BY <2>11, Zenon DEF FinishRunEvent
        <3>1. CASE Answer(e)
            <4>1. answered' \in SUBSET Lms
                BY <3>0, <3>1, Zenon DEF Answer, TypeOK
            <4>2. /\ DOMAIN Filed(e.id) \subseteq Keys
                  /\ Filed(e.id) \in [DOMAIN Filed(e.id) -> SUBSET Command]
                BY <3>0, FiledTyped, Zenon
            <4>3. /\ events' \in SUBSET EventType
                  /\ issued' \in Batch
                  /\ batches' \in Nat
                  /\ DOMAIN m_lmQueryCommands' \subseteq Keys
                  /\ m_lmQueryCommands' \in [DOMAIN m_lmQueryCommands' -> SUBSET Command]
                <5>1. CASE AllReturned(Filed(e.id)) /\ Collecting /\ m_active
                    <6>1. ProcessLmQueryCommands(Filed(e.id), events \ {e})
                        BY <3>1, <5>1, Zenon DEF Answer
                    <6> QED BY <2>ev, <4>1, <4>2, <6>1, ProcessTyped, Zenon
                <5>2. CASE ~(AllReturned(Filed(e.id)) /\ Collecting /\ m_active)
                    BY <2>ev, <3>1, <4>2, <5>2, Zenon DEF Answer, TypeOK
                <5> QED BY <5>1, <5>2, Zenon
            <4>4. lmCommands' \in [Lms -> SUBSET Command]
                BY <3>0, <3>1, Zenon DEF Answer, TypeOK
            <4> QED BY <3>1, <4>1, <4>3, <4>4, Zenon DEF Answer, TypeOK, EventType
        <3>2. CASE AnswerForUnexpectedCycle(e)
            BY <3>2, Zenon DEF AnswerForUnexpectedCycle, TypeOK
        <3>3. CASE Ignored(e)
            BY <3>3, Zenon DEF Ignored, TypeOK
        <3> QED BY <2>11, <3>1, <3>2, <3>3, Zenon DEF FinishRunEvent
    <2>12. CASE UNCHANGED vars
        BY <2>12, Zenon DEF vars, TypeOK
    <2> QED BY <2>1, <2>2, <2>3, <2>4, <2>5, <2>6, <2>7, <2>8, <2>9, <2>10,
               <2>11, <2>12, Zenon DEF Next, Script
<1> QED BY <1>1, <1>2, PTL DEF Spec

-----------------------------------------------------------------------------
(* A script that does not remove or replace modules never meets the abort. *)

ModulesStay == Calls \cap {"RemoveLogicModule", "SetDefaultLogicModule"} = {}

\* The strengthening of RunsAreCurrent: a module with a run in progress is
\* deployed, so the next QueryLms reaches it, and it is active whenever the
\* RIC is, so QueryLms cancels and restarts it.
RunInv ==
    /\ aborted # "unexpected cycle"
    /\ \A e \in events : e.id \in Lms =>
         /\ e.id \in Deployed
         /\ lmCycle[e.id] = m_lmQueryCycle
         /\ m_active => lmActive[e.id]

\* Of the runs in progress QueryLms() keeps those of the modules that it does
\* not run.
LEMMA QueryRuns ==
    ASSUME TypeOK, NEW E \in SUBSET EventType, QueryLms(E),
           NEW e \in events', e.id \in Lms
    PROVE  e.id \in Runs \/ e \in E
<1> PICK delay \in [Runs -> Delays] :
        events' = {f \in Timed(Rechecked(E, uid), uid + 1) : f.id \notin Runs}
             \cup {Event(now + delay[lm], Stamp(lm), lm) : lm \in Runs}
             \cup {Event(now + Interval, uid + 4, "lmQuery")}
    BY Zenon DEF QueryLms
<1>1. e.id # "lmQuery" /\ e.id # "process" /\ e.id # "inactivity"
    BY LmAssumption, Zenon
<1>2. e # Event(now + Interval, uid + 4, "lmQuery")
    BY <1>1 DEF Event
<1>3. CASE e \in {Event(now + delay[lm], Stamp(lm), lm) : lm \in Runs}
    BY <1>3 DEF Event
<1>4. CASE e \in Timed(Rechecked(E, uid), uid + 1)
    <2>1. e \in Rechecked(E, uid)
        <3>1. e # Event(now + MaxWait, uid + 1, "process")
            BY <1>1 DEF Event
        <3>2. ASSUME NEW f \in Held(Rechecked(E, uid), "process"),
                     e = [f EXCEPT !.held = FALSE]
              PROVE  FALSE
            <4>1. f \in EventType /\ f.id = "process"
                BY <3>2, QueueTyped DEF Held, Rechecked, Cancel, Event, EventType
            <4>2. e.id = "process"
                BY <3>2, <4>1, Zenon DEF EventType
            <4> QED BY <1>1, <4>2, Zenon
        <3> QED BY <1>4, <3>1, <3>2, Zenon DEF Timed, LetGo
    <2>2. e # Event(now + InactivityInterval, uid, "inactivity")
        BY <1>1 DEF Event
    <2> QED BY <2>1, <2>2, Zenon DEF Rechecked, Cancel
<1> QED BY <1>2, <1>3, <1>4, Zenon

\* QueryLms() leaves every module at rest or running for the new cycle.
LEMMA QueryKeepsRunInv ==
    ASSUME TypeOK, RunInv, m_active, NEW E \in SUBSET events, QueryLms(E)
    PROVE  RunInv'
<1>1. E \in SUBSET EventType
    BY Zenon DEF TypeOK, EventType
<1>2. /\ UNCHANGED <<aborted, m_active, m_defaultLm, m_additionalLms, lmActive>>
      /\ m_lmQueryCycle' = now
      /\ lmCycle' = [lm \in Lms |-> IF lm \in Runs THEN now ELSE lmCycle[lm]]
    BY Zenon DEF QueryLms
<1>3. ASSUME NEW e \in events', e.id \in Lms
      PROVE  e.id \in Runs
    <2>1. CASE e \in E
        BY <2>1, <1>3, Zenon DEF RunInv, Runs
    <2> QED BY <1>1, <1>3, <2>1, QueryRuns, Zenon
<1> QED BY <1>2, <1>3, Zenon DEF RunInv, Runs, Deployed

\* Every action of a script that does not remove or replace modules keeps the
\* invariant.
LEMMA RunStep ==
    ASSUME ModulesStay, TypeOK, RunInv, [Next]_vars
    PROVE  RunInv'
<1> USE DEF simVars, scriptVars, ricVars, lmVars, history
<1>0. /\ \A i : Cancel(events, i) \in SUBSET events
      /\ \A e : events \ {e} \in SUBSET events
    BY Zenon DEF Cancel
<1>1. ASSUME UNCHANGED <<aborted, m_active, m_defaultLm, m_additionalLms,
                         m_lmQueryCycle, lmActive, lmCycle>>,
             \A e \in events' : e.id \in Lms => e \in events
      PROVE  RunInv'
    BY <1>1, Zenon DEF RunInv, Deployed
<1>2. CASE Advance \/ UNCHANGED vars
    BY <1>1, <1>2, Zenon DEF Advance, vars
<1>3. CASE Activate \/ StartTwice
    BY <1>3, Zenon DEF Activate, StartTwice, Activated, Call, RunInv, Deployed, TypeOK
<1>4. CASE Deactivate
    BY <1>4, Zenon DEF Deactivate, Call, RunInv, Deployed
<1>5. CASE Start
    <2>1. \A e \in events' : e.id \in Lms => e \in events
        BY <1>5, LmAssumption DEF Start, Event
    <2> QED BY <1>5, <2>1, Zenon DEF Start, Activated, Call, RunInv, Deployed, TypeOK
<1>6. CASE Stop
    BY <1>6, Zenon DEF Stop, Call, RunInv, Deployed, Cancel
<1>7. CASE NotifyReportReceived
    BY <1>7, <1>0, QueryKeepsRunInv, Zenon DEF NotifyReportReceived
<1>8. CASE \E lm \in Lms : AddLogicModule(lm)
    <2>1. /\ UNCHANGED <<events, aborted, m_active, m_defaultLm,
                         m_lmQueryCycle, lmActive, lmCycle>>
          /\ m_additionalLms \subseteq m_additionalLms'
        BY <1>8, Zenon DEF AddLogicModule, Call
    <2>2. Deployed \subseteq Deployed'
        BY <2>1, Zenon DEF Deployed
    <2> QED BY <2>1, <2>2, Zenon DEF RunInv
<1>9. CASE \E lm \in Lms : RemoveLogicModule(lm) \/ SetDefaultLogicModule(lm)
    BY <1>9, Zenon DEF RemoveLogicModule, SetDefaultLogicModule, Call, ModulesStay
<1>10. ASSUME NEW e \in events, LmQueryEvent(e) PROVE RunInv'
    <2>1. CASE Ignored(e)
        BY <1>1, <2>1, Zenon DEF Ignored
    <2> QED BY <1>0, <1>10, <2>1, QueryKeepsRunInv, Zenon DEF LmQueryEvent
<1>11. ASSUME NEW e \in events, InactivityEvent(e) PROVE RunInv'
    <2>1. \A f \in events' : f.id \in Lms => f \in events
        BY <1>11, LmAssumption DEF InactivityEvent, Ignored, Rechecked, Cancel, Event
    <2> QED BY <1>1, <1>11, <2>1, Zenon DEF InactivityEvent, Ignored
<1>12. ASSUME NEW e \in events, ProcessEvent(e) PROVE RunInv'
    BY <1>1, <1>12, Zenon DEF ProcessEvent, Ignored, ProcessLmQueryCommands, Cancel
<1>13. ASSUME NEW e \in events, FinishRunEvent(e) PROVE RunInv'
    <2>1. CASE Answer(e)
        <3>1. \A f \in events' : f \in events
            BY <2>1, Zenon DEF Answer, ProcessLmQueryCommands, Cancel
        <3> QED BY <1>1, <2>1, <3>1, Zenon DEF Answer
    <2>2. CASE AnswerForUnexpectedCycle(e)
        BY <1>13, <2>2, Zenon DEF FinishRunEvent, AnswerForUnexpectedCycle, RunInv
    <2>3. CASE Ignored(e)
        BY <1>1, <2>3, Zenon DEF Ignored
    <2> QED BY <1>13, <2>1, <2>2, <2>3, Zenon DEF FinishRunEvent
<1> QED BY <1>2, <1>3, <1>4, <1>5, <1>6, <1>7, <1>8, <1>9, <1>10, <1>11,
           <1>12, <1>13, Zenon DEF Next, Script

\* If the script neither removes nor replaces modules, then whatever it
\* starts, stops, adds or triggers, a module that is going to answer was run
\* for the current cycle, and NotifyLmFinished never aborts the simulation.
THEOREM RunsStayCurrent ==
    ASSUME ModulesStay
    PROVE  Spec => [](RunsAreCurrent /\ NoUnexpectedCycle)
<1>1. Init => RunInv
    BY Zenon DEF Init, RunInv
<1>2. TypeOK /\ RunInv /\ [Next]_vars => RunInv'
    BY RunStep, Zenon
<1>3. RunInv => RunsAreCurrent /\ NoUnexpectedCycle
    BY Zenon DEF RunInv, RunsAreCurrent, NoUnexpectedCycle
<1> QED BY <1>1, <1>2, <1>3, TypeCorrect, PTL DEF Spec

-----------------------------------------------------------------------------
(* One batch per cycle, in a RIC that is not stopped, whose queries come   *)
(* only in turn and whose wait time fits in the query interval.            *)

\* The wait timer of a cycle is over before the next query: the RIC is neither
\* stopped nor deactivated, and no report asks for a query out of turn.
QueriesInTurn ==
    /\ MaxWait > 0 /\ MaxWait <= Interval
    /\ Calls \cap {"Stop", "Deactivate", "NotifyReportReceived"} = {}

\* The keys of m_lmQueryCommands tell the modules apart.
NamesDiffer == \A lm, other \in Lms : Name[lm] = Name[other] => lm = other

Timers == {e \in events : e.id = "process"}
Queries == {e \in events : e.id = "lmQuery"}

\* There is one query to come, an interval after the last, and the RIC stays
\* active. The timer of a cycle runs until its batch is issued, and is before
\* the next query in the queue.
TimerInv ==
    /\ \A p, q \in Queries : p = q
    /\ \A q \in Queries : q.held /\ q.ts >= m_lmQueryCycle + Interval
    /\ Queries # {} => m_active
    /\ Queries = {} => m_lmQueryCycle = 0
    /\ \A e \in Timers : e.held /\ e.ts = m_lmQueryCycle + MaxWait
    /\ \A e \in Timers, q \in Queries : Before(e, q)
    /\ Timers # {} => batches = 0 /\ m_lmQueryCycle > 0
    /\ Timers = {} => batches = 1 \/ (batches = 0 /\ m_lmQueryCycle = 0)

\* Commands are held only while the timer runs.
NothingKept == Timers = {} => m_lmQueryCommands = EmptyMap

\* A module answers once in a cycle, with commands of the cycle of its run,
\* which are held under its name.
OfferInv ==
    /\ \A e, f \in events : e.id \in Lms /\ e.id = f.id => e = f
    /\ \A e \in events : e.id \in answered => lmCycle[e.id] # m_lmQueryCycle
    /\ \A lm \in Lms : lmCommands[lm] \subseteq [lm : {lm}, cycle : {lmCycle[lm]}]
    /\ \A k \in DOMAIN m_lmQueryCommands : \E lm \in answered : k[1] = Name[lm]

\* The answers that are counted are of modules that are deployed.
AnswerInv ==
    /\ answered \subseteq Deployed
    /\ \A k \in DOMAIN m_lmQueryCommands : \E lm \in answered : k = Key(lm)
    /\ BatchComplete

-----------------------------------------------------------------------------
(* The steps of the RIC, by what they do to a cycle.                       *)

\* A step that leaves the cycle as it is, except that runs may be over.
Quiet ==
    /\ Timers' = Timers
    /\ \A e \in events' : e.id \in Lms => e \in events
    /\ UNCHANGED <<m_lmQueryCycle, m_lmQueryCommands, lmCycle, lmCommands,
                   answered, batches, issued>>
    /\ m_active => m_active'

\* Only the events of the query cycle do more than that, and Start(), which
\* schedules the first query.
LEMMA Steps ==
    ASSUME QueriesInTurn, [Next]_vars
    PROVE  \/ Quiet /\ Queries' = Queries
           \/ Quiet /\ Start
           \/ \E e \in events : LmQueryEvent(e)
           \/ \E e \in events : ProcessEvent(e)
           \/ \E e \in events : e.id \in Lms /\ Fires(e) /\ Answer(e)
<1> USE DEF simVars, scriptVars, ricVars, lmVars, history, Quiet, Timers, Queries
<1>1. CASE Advance \/ UNCHANGED vars
    BY <1>1, Zenon DEF Advance, vars
<1>2. CASE Activate \/ StartTwice
    BY <1>2, Zenon DEF Activate, StartTwice, Call
<1>3. CASE Deactivate \/ Stop \/ NotifyReportReceived
    BY <1>3, Zenon DEF Deactivate, Stop, NotifyReportReceived, Call, QueriesInTurn
<1>4. CASE Start
    <2>1. /\ Timers' = Timers
          /\ \A e \in events' : e.id \in Lms => e \in events
        BY <1>4, LmAssumption DEF Start, Event
    <2>2. /\ UNCHANGED <<m_lmQueryCycle, m_lmQueryCommands, lmCycle, lmCommands,
                         answered, batches, issued>>
          /\ m_active => m_active'
        BY <1>4, Zenon DEF Start
    <2> QED BY <1>4, <2>1, <2>2, Zenon
<1>5. CASE \E lm \in Lms : AddLogicModule(lm) \/ RemoveLogicModule(lm)
                             \/ SetDefaultLogicModule(lm)
    BY <1>5, Zenon DEF AddLogicModule, RemoveLogicModule, SetDefaultLogicModule, Call
<1>6. ASSUME NEW e \in events, InactivityEvent(e)
      PROVE  Quiet /\ Queries' = Queries
    <2>1. CASE m_active
        <3>1. events' = Rechecked(events \ {e}, uid) /\ e.id = "inactivity"
            BY <1>6, <2>1, Zenon DEF InactivityEvent
        <3>2. /\ Timers' = Timers /\ Queries' = Queries
              /\ \A f \in events' : f.id \in Lms => f \in events
            BY <3>1, LmAssumption DEF Rechecked, Cancel, Held, Event
        <3> QED BY <1>6, <2>1, <3>2, Zenon DEF InactivityEvent
    <2>2. CASE ~m_active
        BY <1>6, <2>2, Zenon DEF InactivityEvent, Ignored
    <2> QED BY <2>1, <2>2, Zenon
<1>7. ASSUME NEW e \in events, FinishRunEvent(e), ~Answer(e)
      PROVE  Quiet /\ Queries' = Queries
    <2>1. /\ events' = events \ {e}
          /\ UNCHANGED <<m_lmQueryCycle, m_lmQueryCommands, lmCycle, lmCommands,
                         answered, batches, issued, m_active>>
        BY <1>7, Zenon DEF FinishRunEvent, AnswerForUnexpectedCycle, Ignored
    <2>2. e.id # "process" /\ e.id # "lmQuery"
        BY <1>7, LmAssumption, Zenon DEF FinishRunEvent
    <2> QED BY <2>1, <2>2, Zenon
<1>8. ASSUME NEW e \in events, FinishRunEvent(e), Answer(e)
      PROVE  e.id \in Lms /\ Fires(e)
    BY <1>8, Zenon DEF FinishRunEvent
<1> HIDE DEF Quiet, Timers, Queries
<1> QED BY <1>1, <1>2, <1>3, <1>4, <1>5, <1>6, <1>7, <1>8, Zenon DEF Next, Script

\* The query of a cycle comes when the timer of the cycle before is over.
LEMMA QueryInTurn ==
    ASSUME TypeOK, TimerInv, QueriesInTurn,
           NEW e \in events, LmQueryEvent(e)
    PROVE  /\ m_active /\ QueryLms(events \ {e})
           /\ Timers = {} /\ Queries = {e}
           /\ now > m_lmQueryCycle
<1>1. e \in Queries /\ Fires(e)
    BY Zenon DEF LmQueryEvent, Queries
<1>2. Queries = {e} /\ m_active
    BY <1>1, Zenon DEF TimerInv
<1>3. Timers = {}
    BY <1>1, Zenon DEF TimerInv, Fires, IsNext, Timers
<1>4. now >= m_lmQueryCycle + Interval
    BY <1>1, Zenon DEF TimerInv, Fires
<1>5. now \in Nat /\ m_lmQueryCycle \in Nat
    BY Zenon DEF TypeOK
<1>6. now > m_lmQueryCycle
    BY <1>4, <1>5, TimeAssumption
<1> QED BY <1>2, <1>3, <1>6, Zenon DEF LmQueryEvent

\* QueryLms() in its turn starts the timer of the new cycle and schedules the
\* next query, in this order.
LEMMA QueryTimers ==
    ASSUME TypeOK, QueriesInTurn, NEW E \in SUBSET events, QueryLms(E),
           \A e \in E : e.id # "process" /\ e.id # "lmQuery"
    PROVE  /\ Timers' = {Event(now + MaxWait, uid + 1, "process")}
           /\ Queries' = {Event(now + Interval, uid + 4, "lmQuery")}
<1> PICK delay \in [Runs -> Delays] :
        events' = {f \in Timed(Rechecked(E, uid), uid + 1) : f.id \notin Runs}
             \cup {Event(now + delay[lm], Stamp(lm), lm) : lm \in Runs}
             \cup {Event(now + Interval, uid + 4, "lmQuery")}
    BY Zenon DEF QueryLms
<1>1. Runs \subseteq Lms
    BY Zenon DEF TypeOK, Runs, Deployed
<1>2. "process" \notin Runs /\ "lmQuery" \notin Runs
    BY <1>1, LmAssumption, Zenon
<1> DEFINE R == Rechecked(E, uid)
<1>3. \A e \in R : e.id # "process" /\ e.id # "lmQuery"
    BY DEF Rechecked, Cancel, Event
<1> HIDE DEF R
<1>4. Timed(R, uid + 1) = R \cup {Event(now + MaxWait, uid + 1, "process")}
    <2>1. Held(R, "process") = {}
        BY <1>3, Zenon DEF Held
    <2>2. LetGo(R, "process") = R
        BY <1>3, <2>1, Zenon DEF LetGo
    <2>3. MaxWait # 0
        BY TimeAssumption DEF QueriesInTurn
    <2> QED BY <2>2, <2>3, Zenon DEF Timed
<1>5. \A e \in events' :
        \/ e \in R
        \/ e.id \in Runs
        \/ e = Event(now + MaxWait, uid + 1, "process")
        \/ e = Event(now + Interval, uid + 4, "lmQuery")
    BY <1>4 DEF R, Event
<1>6. /\ Event(now + MaxWait, uid + 1, "process") \in events'
      /\ Event(now + Interval, uid + 4, "lmQuery") \in events'
    BY <1>2, <1>4, Zenon DEF R, Event
<1>7. /\ Event(now + MaxWait, uid + 1, "process").id = "process"
      /\ Event(now + Interval, uid + 4, "lmQuery").id = "lmQuery"
    BY Zenon DEF Event
<1> QED BY <1>2, <1>3, <1>5, <1>6, <1>7, Zenon DEF Timers, Queries

\* ProcessLmQueryCommands() ends the timer of the cycle and nothing else.
LEMMA ProcessTimers ==
    ASSUME TimerInv, NEW E \in SUBSET events, NEW m,
           \A q \in Queries : q \in E, ProcessLmQueryCommands(m, E)
    PROVE  /\ Timers' = {}
           /\ Queries' = Queries
           /\ events' \subseteq E
<1>1. events' = E \ {e \in E : e.id = "process" /\ e.held}
    BY Zenon DEF ProcessLmQueryCommands, Cancel, Held
<1>2. \A e \in E : e.id = "process" => e.held
    BY Zenon DEF TimerInv, Timers
<1> QED BY <1>1, <1>2, Zenon DEF Timers, Queries

\* The timer that fires, or an answer in time, finds the RIC active.
LEMMA TimedActive ==
    ASSUME TypeOK, TimerInv, Timers # {}
    PROVE  m_active /\ batches = 0 /\ m_lmQueryCycle > 0
<1>1. batches = 0 /\ m_lmQueryCycle > 0
    BY Zenon DEF TimerInv
<1>2. m_lmQueryCycle \in Nat
    BY Zenon DEF TypeOK
<1>3. m_lmQueryCycle # 0
    BY <1>1, <1>2
<1> QED BY <1>1, <1>3, Zenon DEF TimerInv

\* What an answer does to the timer: an answer that completes the cycle issues
\* the batch and ends the timer.
LEMMA AnswerTimers ==
    ASSUME TypeOK, TimerInv, QueriesInTurn,
           NEW e \in events, e.id \in Lms, Answer(e)
    PROVE  /\ Queries' = Queries
           /\ events' \subseteq events \ {e}
           /\ UNCHANGED <<m_active, m_lmQueryCycle>>
           /\ \/ /\ Timers' = Timers
                 /\ m_lmQueryCommands' = Filed(e.id)
                 /\ UNCHANGED <<batches, issued>>
              \/ /\ AllReturned(Filed(e.id))
                 /\ Timers # {} /\ Timers' = {}
                 /\ ProcessLmQueryCommands(Filed(e.id), events \ {e})
<1>1. e \notin Timers /\ e \notin Queries
    BY LmAssumption, Zenon DEF Timers, Queries
<1>2. UNCHANGED <<m_active, m_lmQueryCycle>>
    BY Zenon DEF Answer
<1>3. CASE AllReturned(Filed(e.id)) /\ Collecting /\ m_active
    <2>1. ProcessLmQueryCommands(Filed(e.id), events \ {e})
        BY <1>3, Zenon DEF Answer
    <2>2. Timers # {}
        BY <1>3, TimeAssumption
           DEF Collecting, IsPending, Held, Timers, QueriesInTurn
    <2>3. /\ events \ {e} \in SUBSET events
          /\ \A q \in Queries : q \in events \ {e}
        BY <1>1, Zenon DEF Queries
    <2>4. Timers' = {} /\ Queries' = Queries /\ events' \subseteq events \ {e}
        BY <2>1, <2>3, ProcessTimers, Zenon
    <2> QED BY <1>2, <1>3, <2>1, <2>2, <2>4, Zenon
<1>4. CASE ~(AllReturned(Filed(e.id)) /\ Collecting /\ m_active)
    <2>1. /\ m_lmQueryCommands' = Filed(e.id)
          /\ events' = events \ {e}
          /\ UNCHANGED <<batches, issued>>
        BY <1>4, Zenon DEF Answer
    <2>2. Timers' = Timers /\ Queries' = Queries
        BY <1>1, <2>1, Zenon DEF Timers, Queries
    <2> QED BY <1>2, <2>1, <2>2, Zenon
<1> QED BY <1>3, <1>4, Zenon

\* The timer that fires issues the batch.
LEMMA TimerFires ==
    ASSUME TypeOK, TimerInv, NEW e \in events, ProcessEvent(e)
    PROVE  /\ Timers # {} /\ Timers' = {} /\ Queries' = Queries
           /\ events' \subseteq events
           /\ now = m_lmQueryCycle + MaxWait
           /\ ProcessLmQueryCommands(m_lmQueryCommands, events \ {e})
           /\ UNCHANGED <<m_active, m_lmQueryCycle, lmCycle, lmCommands, answered>>
<1>1. e \in Timers /\ e \notin Queries
    BY Zenon DEF ProcessEvent, Timers, Queries
<1>2. m_active
    BY <1>1, TimedActive, Zenon
<1>3. /\ ProcessLmQueryCommands(m_lmQueryCommands, events \ {e})
      /\ UNCHANGED <<m_active, m_lmQueryCycle, lmCycle, lmCommands, answered>>
    BY <1>2, Zenon DEF ProcessEvent, lmVars
<1>4. /\ events \ {e} \in SUBSET events
      /\ \A q \in Queries : q \in events \ {e}
    BY <1>1, Zenon DEF Queries
<1>5. Timers' = {} /\ Queries' = Queries /\ events' \subseteq events \ {e}
    BY <1>3, <1>4, ProcessTimers, Zenon
<1>6. now = m_lmQueryCycle + MaxWait
    BY <1>1, Zenon DEF ProcessEvent, Fires, TimerInv
<1> QED BY <1>1, <1>3, <1>5, <1>6, Zenon

\* Every step keeps the timer and the query in their order.
LEMMA TimerStep ==
    ASSUME TypeOK, TimerInv, QueriesInTurn, [Next]_vars
    PROVE  TimerInv'
<1>0. now \in Nat /\ uid \in Nat /\ m_lmQueryCycle \in Nat
    BY Zenon DEF TypeOK
<1>1. CASE Quiet /\ Queries' = Queries
    BY <1>1, Zenon DEF TimerInv, Quiet
<1>2. CASE Quiet /\ Start
    <2>1. Queries = {}
        BY <1>2, Zenon DEF Start, AlreadyStarted, IsPending, Held, TimerInv, Queries
    <2>2. m_lmQueryCycle = 0 /\ Timers = {}
        BY <2>1 DEF TimerInv
    <2>3. Queries' = {Event(now + Interval, uid, "lmQuery")}
        BY <1>2, <2>1 DEF Queries, Start, Event
    <2>4. m_active' = TRUE
        BY <1>2, Zenon DEF Start
    <2>5. /\ Event(now + Interval, uid, "lmQuery").held
          /\ Event(now + Interval, uid, "lmQuery").ts = now + Interval
        BY Zenon DEF Event
    <2>6. now + Interval >= 0 + Interval
        BY <1>0, TimeAssumption
    <2> QED BY <1>2, <2>2, <2>3, <2>4, <2>5, <2>6, Zenon DEF TimerInv, Quiet
<1>3. ASSUME NEW e \in events, LmQueryEvent(e) PROVE TimerInv'
    <2>1. m_active /\ QueryLms(events \ {e}) /\ Timers = {} /\ Queries = {e}
          /\ now > m_lmQueryCycle
        BY <1>3, QueryInTurn, Zenon
    <2>2. \A f \in events \ {e} : f.id # "process" /\ f.id # "lmQuery"
        BY <2>1, Zenon DEF Timers, Queries
    <2> DEFINE t == Event(now + MaxWait, uid + 1, "process")
               q == Event(now + Interval, uid + 4, "lmQuery")
    <2>3. Timers' = {t} /\ Queries' = {q}
        BY <2>1, <2>2, QueryTimers, Zenon
    <2>4. /\ t.held /\ t.ts = now + MaxWait /\ t.uid = uid + 1
          /\ q.held /\ q.ts = now + Interval /\ q.uid = uid + 4
        BY Zenon DEF Event
    <2>5. m_lmQueryCycle' = now /\ batches' = 0 /\ m_active' = m_active
        BY <2>1, Zenon DEF QueryLms
    <2>6. /\ now + MaxWait <= now + Interval /\ uid + 1 < uid + 4 /\ now > 0
          /\ now + Interval >= now + Interval
          /\ now + MaxWait < now + Interval \/ now + MaxWait = now + Interval
        BY <1>0, <2>1, TimeAssumption DEF QueriesInTurn
    <2> HIDE DEF t, q
    <2>7. Before(t, q)
        BY <2>4, <2>6, Zenon DEF Before
    <2> QED BY <2>1, <2>3, <2>4, <2>5, <2>6, <2>7, Zenon DEF TimerInv
<1>4. ASSUME NEW e \in events, ProcessEvent(e) PROVE TimerInv'
    <2>1. /\ Timers # {} /\ Timers' = {} /\ Queries' = Queries
          /\ ProcessLmQueryCommands(m_lmQueryCommands, events \ {e})
          /\ UNCHANGED <<m_active, m_lmQueryCycle>>
        BY <1>4, TimerFires, Zenon
    <2>2. batches' = 1
        BY <2>1, TimedActive DEF ProcessLmQueryCommands
    <2> QED BY <2>1, <2>2, Zenon DEF TimerInv
<1>5. ASSUME NEW e \in events, e.id \in Lms, Answer(e) PROVE TimerInv'
    <2>1. Queries' = Queries /\ UNCHANGED <<m_active, m_lmQueryCycle>>
        BY <1>5, AnswerTimers, Zenon
    <2>2. CASE Timers' = Timers /\ UNCHANGED <<batches, issued>>
        BY <2>1, <2>2, Zenon DEF TimerInv
    <2>3. CASE /\ Timers # {} /\ Timers' = {}
               /\ ProcessLmQueryCommands(Filed(e.id), events \ {e})
        <3>1. batches' = 1
            BY <2>3, TimedActive DEF ProcessLmQueryCommands
        <3> QED BY <2>1, <2>3, <3>1, Zenon DEF TimerInv
    <2> QED BY <1>5, <2>2, <2>3, AnswerTimers, Zenon
<1> QED BY <1>1, <1>2, <1>3, <1>4, <1>5, Steps, Zenon

\* QueryLms() opens a cycle only when the batch of the cycle before has been
\* issued, and issued once, as long as the queries come in turn: the timer of
\* m_lmQueryMaxWaitTime runs out before the next query, in the same instant too.
THEOREM OneBatchEach ==
    ASSUME QueriesInTurn
    PROVE  Spec => OneBatchPerCycle
<1>1. Init => TimerInv
    BY Zenon DEF Init, TimerInv, Timers, Queries
<1>2. TypeOK /\ TimerInv /\ [Next]_vars => TimerInv'
    BY TimerStep, Zenon
<1>3. TypeOK /\ TimerInv /\ [Next]_vars
        => [m_lmQueryCycle' # m_lmQueryCycle => batches = 1 \/ m_lmQueryCycle = 0]_vars
    <2> SUFFICES ASSUME TypeOK, TimerInv, [Next]_vars,
                        m_lmQueryCycle' # m_lmQueryCycle
                 PROVE  batches = 1 \/ m_lmQueryCycle = 0
        BY Zenon
    <2>1. PICK e \in events : LmQueryEvent(e)
        BY Steps, TimerFires, AnswerTimers, Zenon DEF Quiet
    <2> QED BY <2>1, QueryInTurn, Zenon DEF TimerInv
<1> QED BY <1>1, <1>2, <1>3, TypeCorrect, PTL DEF Spec, OneBatchPerCycle

-----------------------------------------------------------------------------
(* The collected commands.                                                 *)

\* QueryLms() leaves no module with two runs: the run in progress is cancelled.
LEMMA QueryRunsOnce ==
    ASSUME TypeOK, NEW E \in SUBSET EventType, QueryLms(E),
           \A e, f \in E : e.id \in Lms /\ e.id = f.id => e = f
    PROVE  \A e, f \in events' : e.id \in Lms /\ e.id = f.id => e = f
<1> PICK delay \in [Runs -> Delays] :
        events' = {f \in Timed(Rechecked(E, uid), uid + 1) : f.id \notin Runs}
             \cup {Event(now + delay[lm], Stamp(lm), lm) : lm \in Runs}
             \cup {Event(now + Interval, uid + 4, "lmQuery")}
    BY Zenon DEF QueryLms
<1> DEFINE end(lm) == Event(now + delay[lm], Stamp(lm), lm)
<1>1. \A lm : end(lm).id = lm
    BY Zenon DEF Event
<1>2. Event(now + Interval, uid + 4, "lmQuery").id \notin Lms
    BY LmAssumption, Zenon DEF Event
<1>3. ASSUME NEW e \in events', e.id \in Lms, e.id \in Runs
      PROVE  e = end(e.id)
    <2>1. e \in {end(lm) : lm \in Runs}
        BY <1>2, <1>3, Zenon
    <2> QED BY <1>1, <2>1, Zenon
<1>4. ASSUME NEW e \in events', e.id \in Lms, e.id \notin Runs
      PROVE  e \in E
    BY <1>4, QueryRuns, Zenon
<1> HIDE DEF end
<1> QED BY <1>3, <1>4

\* A module that answers has no entry in m_lmQueryCommands yet; in time its
\* commands are added to the collected ones, late they are dropped.
LEMMA FiledOnce ==
    ASSUME TypeOK, TimerInv, OfferInv, QueriesInTurn, NamesDiffer, Policy = "DROP",
           NEW lm \in Lms, lm \notin answered
    PROVE  /\ Timers # {} =>
                /\ DOMAIN Filed(lm) = DOMAIN m_lmQueryCommands \cup {Key(lm)}
                /\ UNION {Filed(lm)[k] : k \in DOMAIN Filed(lm)}
                     = Collected \cup lmCommands[lm]
           /\ Timers = {} => Filed(lm) = m_lmQueryCommands
<1>1. Key(lm) \notin DOMAIN m_lmQueryCommands
    <2>1. Key(lm)[1] = Name[lm]
        BY Zenon DEF Key
    <2>2. answered \subseteq Lms
        BY Zenon DEF TypeOK
    <2> QED BY <2>1, <2>2, Zenon DEF OfferInv, NamesDiffer
<1>2. Collecting <=> Timers # {}
    BY TimeAssumption DEF Collecting, IsPending, Held, Timers, TimerInv, QueriesInTurn
<1>3. CASE Timers # {}
    <2> DEFINE m == m_lmQueryCommands
               F == Put(m, Key(lm), lmCommands[lm])
    <2>1. Filed(lm) = F
        BY <1>2, <1>3, Zenon DEF Filed
    <2>2. /\ DOMAIN F = DOMAIN m \cup {Key(lm)}
          /\ F[Key(lm)] = lmCommands[lm]
          /\ \A k \in DOMAIN m : F[k] = m[k]
        BY <1>1, Zenon DEF Put
    <2> HIDE DEF F
    <2>3. UNION {F[k] : k \in DOMAIN F} = (UNION {m[k] : k \in DOMAIN m}) \cup lmCommands[lm]
        BY <2>2
    <2> QED BY <1>3, <2>1, <2>2, <2>3 DEF Collected
<1>4. CASE Timers = {}
    BY <1>1, <1>2, <1>4, Zenon DEF Filed
<1> QED BY <1>3, <1>4, Zenon

\* An answer that comes after the timer leaves nothing behind.
LEMMA LateDropped ==
    ASSUME TimerInv, NothingKept, QueriesInTurn, Policy = "DROP", Timers = {}, NEW lm
    PROVE  Filed(lm) = EmptyMap
<1>1. ~Collecting
    BY TimeAssumption DEF Collecting, IsPending, Held, Timers, QueriesInTurn
<1>2. DOMAIN EmptyMap = {}
    BY Zenon DEF EmptyMap
<1> QED BY <1>1, <1>2, Zenon DEF Filed, NothingKept

\* Every step that ends the timer empties m_lmQueryCommands.
LEMMA NothingKeptStep ==
    ASSUME TypeOK, TimerInv, NothingKept, QueriesInTurn, Policy = "DROP", [Next]_vars
    PROVE  NothingKept'
<1>1. CASE Quiet
    BY <1>1, Zenon DEF NothingKept, Quiet
<1>2. ASSUME NEW e \in events, LmQueryEvent(e) PROVE NothingKept'
    <2>1. QueryLms(events \ {e}) /\ Timers = {}
        BY <1>2, QueryInTurn, Zenon
    <2> QED BY <2>1, Zenon DEF NothingKept, QueryLms
<1>3. ASSUME NEW e \in events, ProcessEvent(e) PROVE NothingKept'
    BY <1>3, TimerFires, Zenon DEF NothingKept, ProcessLmQueryCommands
<1>4. ASSUME NEW e \in events, e.id \in Lms, Answer(e) PROVE NothingKept'
    BY <1>4, AnswerTimers, LateDropped, Zenon DEF NothingKept, ProcessLmQueryCommands
<1> QED BY <1>1, <1>2, <1>3, <1>4, Steps, Zenon

\* Every step keeps the commands with the cycle that they are of.
LEMMA OfferStep ==
    ASSUME TypeOK, TimerInv, NothingKept, OfferInv, QueriesInTurn, NamesDiffer,
           Policy = "DROP", [Next]_vars
    PROVE  OfferInv'
<1>0. answered \subseteq Lms /\ events \in SUBSET EventType
    BY Zenon DEF TypeOK, EventType
<1>e. DOMAIN EmptyMap = {}
    BY Zenon DEF EmptyMap
<1>1. CASE Quiet
    <2>1. \A e \in events' : e.id \in answered => e \in events
        BY <1>0, <1>1, Zenon DEF Quiet
    <2> QED BY <1>1, <2>1, Zenon DEF OfferInv, Quiet
<1>2. ASSUME NEW e \in events, LmQueryEvent(e) PROVE OfferInv'
    <2>1. QueryLms(events \ {e}) /\ Timers = {}
        BY <1>2, QueryInTurn, Zenon
    <2>2. /\ events \ {e} \in SUBSET EventType
          /\ \A f, g \in events \ {e} : f.id \in Lms /\ f.id = g.id => f = g
        BY <1>0, Zenon DEF OfferInv
    <2>3. \A f, g \in events' : f.id \in Lms /\ f.id = g.id => f = g
        BY <2>1, <2>2, QueryRunsOnce, Zenon
    <2>4. PICK productive \in SUBSET Runs :
            /\ answered' = {}
            /\ m_lmQueryCommands' = m_lmQueryCommands
            /\ lmCycle' = [lm \in Lms |-> IF lm \in Runs THEN now ELSE lmCycle[lm]]
            /\ lmCommands' = [lm \in Lms |->
                 IF lm \in productive THEN {[lm |-> lm, cycle |-> now]}
                 ELSE IF lm \in Runs THEN {} ELSE lmCommands[lm]]
        BY <2>1, Zenon DEF QueryLms
    <2>5. ASSUME NEW lm \in Lms
          PROVE  lmCommands'[lm] \subseteq [lm : {lm}, cycle : {lmCycle'[lm]}]
        <3>1. CASE lm \in productive
            BY <2>4, <3>1
        <3>2. CASE lm \in Runs /\ lm \notin productive
            BY <2>4, <3>2, Zenon
        <3>3. CASE lm \notin Runs
            BY <2>4, <3>3, Zenon DEF OfferInv
        <3> QED BY <3>1, <3>2, <3>3, Zenon
    <2>6. m_lmQueryCommands = EmptyMap
        BY <2>1, Zenon DEF NothingKept
    <2> QED BY <1>e, <2>3, <2>4, <2>5, <2>6, Zenon DEF OfferInv
<1>3. ASSUME NEW e \in events, ProcessEvent(e) PROVE OfferInv'
    <2>1. /\ events' \subseteq events
          /\ ProcessLmQueryCommands(m_lmQueryCommands, events \ {e})
          /\ UNCHANGED <<m_lmQueryCycle, lmCycle, lmCommands, answered>>
        BY <1>3, TimerFires, Zenon
    <2>2. m_lmQueryCommands' = EmptyMap
        BY <2>1, Zenon DEF ProcessLmQueryCommands
    <2> QED BY <1>e, <2>1, <2>2, Zenon DEF OfferInv
<1>4. ASSUME NEW e \in events, e.id \in Lms, Answer(e) PROVE OfferInv'
    <2>1. /\ events' \subseteq events \ {e}
          /\ m_lmQueryCycle' = m_lmQueryCycle
        BY <1>4, AnswerTimers, Zenon
    <2>2. /\ answered' = answered \cup {e.id}
          /\ lmCycle[e.id] = m_lmQueryCycle
          /\ lmCycle' = lmCycle
          /\ lmCommands' = [lmCommands EXCEPT ![e.id] = {}]
        BY <1>4, Zenon DEF Answer
    <2>3. e.id \notin answered
        BY <2>2, Zenon DEF OfferInv
    <2>4. \A f \in events' : f \in events /\ f.id # e.id
        BY <1>4, <2>1, Zenon DEF OfferInv
    <2>5. \A lm \in Lms : lmCommands'[lm] \subseteq [lm : {lm}, cycle : {lmCycle'[lm]}]
        <3>1. lmCommands \in [Lms -> SUBSET Command]
            BY Zenon DEF TypeOK
        <3> QED BY <1>4, <2>2, <3>1, Zenon DEF OfferInv
    <2>6. \/ m_lmQueryCommands' = EmptyMap
          \/ m_lmQueryCommands' = Filed(e.id) /\ Timers' = Timers
        BY <1>4, AnswerTimers, Zenon DEF ProcessLmQueryCommands
    <2>7. Key(e.id)[1] = Name[e.id]
        BY Zenon DEF Key
    <2>8. Timers # {} => DOMAIN Filed(e.id) = DOMAIN m_lmQueryCommands \cup {Key(e.id)}
        BY <1>4, <2>3, FiledOnce, Zenon
    <2>9. Timers = {} => Filed(e.id) = EmptyMap
        BY LateDropped, Zenon
    <2>10. \A k \in DOMAIN m_lmQueryCommands' : \E lm \in answered' : k[1] = Name[lm]
        BY <1>e, <2>2, <2>6, <2>7, <2>8, <2>9, Zenon DEF OfferInv
    <2>11. \A f \in events' : f.id \in answered' => lmCycle'[f.id] # m_lmQueryCycle'
        BY <2>1, <2>2, <2>4, Zenon DEF OfferInv
    <2>12. \A f, g \in events' : f.id \in Lms /\ f.id = g.id => f = g
        BY <2>4, Zenon DEF OfferInv
    <2> QED BY <2>5, <2>10, <2>11, <2>12, Zenon DEF OfferInv
<1> QED BY <1>1, <1>2, <1>3, <1>4, Steps, Zenon

\* Every step of the query cycle is a step of QueryRound, or none of its
\* business.
LEMMA RoundStep ==
    ASSUME TypeOK, TimerInv, NothingKept, OfferInv, QueriesInTurn, NamesDiffer,
           Policy = "DROP", [Next]_vars
    PROVE  [Round!Next]_(Round!vars)
<1> DEFINE closed == batches > 0 \/ m_lmQueryCycle = 0
<1>e. UNION {EmptyMap[k] : k \in DOMAIN EmptyMap} = {}
    BY Zenon DEF EmptyMap
<1>n. now \in Nat /\ m_lmQueryCycle \in Nat
    BY Zenon DEF TypeOK
<1>o. Timers # {} => ~closed
    BY <1>n, TimedActive
<1>c. Timers = {} => closed
    BY DEF TimerInv
<1>1. CASE Quiet
    BY <1>1, Zenon DEF Quiet, Round!vars, Collected
<1>2. ASSUME NEW e \in events, LmQueryEvent(e) PROVE Round!Open
    <2>1. QueryLms(events \ {e}) /\ Timers = {} /\ now > m_lmQueryCycle
        BY <1>2, QueryInTurn, Zenon
    <2>2. /\ m_lmQueryCycle' = now /\ batches' = 0
          /\ UNCHANGED <<m_lmQueryCommands, issued>>
        BY <2>1, Zenon DEF QueryLms
    <2>3. m_lmQueryCommands = EmptyMap
        BY <2>1, Zenon DEF NothingKept
    <2>4. Collected' = {} /\ issued.commands' = issued.commands
        BY <1>e, <2>2, <2>3 DEF Collected
    <2>5. ~closed' /\ closed
        BY <1>c, <1>n, <2>1, <2>2
    <2>6. m_lmQueryCycle' \in Nat /\ m_lmQueryCycle' > m_lmQueryCycle
        BY <1>n, <2>1, <2>2, Zenon
    <2> QED BY <2>4, <2>5, <2>6, Zenon DEF Round!Open
<1>3. ASSUME NEW e \in events, ProcessEvent(e) PROVE Round!Close({})
    <2>1. /\ Timers # {} /\ m_lmQueryCycle' = m_lmQueryCycle
          /\ ProcessLmQueryCommands(m_lmQueryCommands, events \ {e})
        BY <1>3, TimerFires, Zenon
    <2>2. batches = 0 /\ batches' = batches + 1 /\ m_lmQueryCommands' = EmptyMap
        BY <2>1, TimedActive, Zenon DEF ProcessLmQueryCommands
    <2>3. issued'.commands = Collected
        BY <2>1, Zenon DEF ProcessLmQueryCommands, Collected
    <2>4. Collected' = {}
        BY <1>e, <2>2, Zenon DEF Collected
    <2>5. ~closed /\ closed'
        BY <1>o, <2>1, <2>2
    <2> QED BY <2>1, <2>3, <2>4, <2>5, Zenon DEF Round!Close
<1>4. ASSUME NEW e \in events, e.id \in Lms, Answer(e)
      PROVE  \/ UNCHANGED Round!vars
             \/ \E cs \in SUBSET Round!Offerable : Round!Offer(cs) \/ Round!Close(cs)
    <2> DEFINE cs == lmCommands[e.id]
    <2>1. /\ lmCycle[e.id] = m_lmQueryCycle
          /\ m_lmQueryCycle' = m_lmQueryCycle
        BY <1>4, Zenon DEF Answer
    <2>2. e.id \notin answered
        BY <2>1, Zenon DEF OfferInv
    <2>3. cs \in SUBSET Round!Offerable
        BY <1>4, <2>1, Zenon DEF OfferInv, Round!Offerable
    <2>4. CASE Timers = {}
        <3>1. Timers' = Timers /\ m_lmQueryCommands' = Filed(e.id)
              /\ UNCHANGED <<batches, issued>>
            BY <1>4, <2>4, AnswerTimers, Zenon
        <3>2. m_lmQueryCommands' = m_lmQueryCommands
            BY <1>4, <2>2, <2>4, <3>1, FiledOnce, Zenon
        <3> QED BY <2>1, <3>1, <3>2, Zenon DEF Round!vars, Collected
    <2>5. CASE Timers # {}
        <3>1. UNION {Filed(e.id)[k] : k \in DOMAIN Filed(e.id)} = Collected \cup cs
            BY <1>4, <2>2, <2>5, FiledOnce, Zenon
        <3>2. CASE m_lmQueryCommands' = Filed(e.id) /\ UNCHANGED <<batches, issued>>
            <4>1. Collected' = Collected \cup cs
                BY <3>1, <3>2, Zenon DEF Collected
            <4>2. Round!Offer(cs)
                BY <1>o, <2>1, <2>5, <3>2, <4>1, Zenon DEF Round!Offer
            <4> QED BY <2>3, <4>2, Zenon
        <3>3. CASE ProcessLmQueryCommands(Filed(e.id), events \ {e})
            <4>1. batches = 0 /\ batches' = batches + 1 /\ m_lmQueryCommands' = EmptyMap
                BY <2>5, <3>3, TimedActive, Zenon DEF ProcessLmQueryCommands
            <4>2. issued'.commands = Collected \cup cs
                BY <3>1, <3>3, Zenon DEF ProcessLmQueryCommands
            <4>3. Collected' = {}
                BY <1>e, <4>1, Zenon DEF Collected
            <4>4. ~closed /\ closed'
                BY <1>o, <2>5, <4>1
            <4>5. Round!Close(cs)
                BY <2>1, <4>2, <4>3, <4>4, Zenon DEF Round!Close
            <4> QED BY <2>3, <4>5, Zenon
        <3> QED BY <1>4, <3>2, <3>3, AnswerTimers, Zenon
    <2> QED BY <2>4, <2>5, Zenon
<1>5. {} \in SUBSET Round!Offerable
    BY Zenon
<1> QED BY <1>1, <1>2, <1>3, <1>4, <1>5, Steps, Zenon DEF Round!Next

\* The query cycle implements QueryRound whatever the modules, their delays,
\* and the additions, removals and replacements of the script: every batch
\* holds the commands offered in its cycle, all of them and no others. The
\* queries come in turn, the modules have names of their own, and late
\* commands are dropped.
THEOREM RoundsImplemented ==
    ASSUME QueriesInTurn, NamesDiffer, Policy = "DROP"
    PROVE  Spec => RoundSpec
<1> DEFINE Inv == TimerInv /\ NothingKept /\ OfferInv
<1>1. Init => Inv
    BY Zenon DEF Init, TimerInv, NothingKept, OfferInv, Timers, Queries, EmptyMap
<1>2. TypeOK /\ Inv /\ [Next]_vars => Inv'
    BY TimerStep, NothingKeptStep, OfferStep, Zenon
<1>3. Init => Round!Init
    BY DEF Init, Round!Init, Collected, EmptyMap, NoBatch
<1>4. TypeOK /\ Inv /\ [Next]_vars => [Round!Next]_(Round!vars)
    BY RoundStep, Zenon
<1> QED BY <1>1, <1>2, <1>3, <1>4, TypeCorrect, PTL DEF Spec, RoundSpec, Round!Spec

-----------------------------------------------------------------------------
(* The test for "all LMs have returned commands".                          *)

\* An answer makes at most one entry, under the key of its module.
LEMMA FiledUnder ==
    ASSUME NEW lm
    PROVE  DOMAIN Filed(lm) \subseteq DOMAIN m_lmQueryCommands \cup {Key(lm)}
BY Zenon DEF Filed, Put

\* When the map has one entry more than there are additional modules, and all
\* its entries are of deployed modules that have answered, all have answered.
LEMMA AllAnswered ==
    ASSUME TypeOK, NEW A \in SUBSET Deployed, NEW m, AllReturned(m),
           \A k \in DOMAIN m : \E lm \in A : k = Key(lm)
    PROVE  Deployed \subseteq A
<1>1. /\ m_defaultLm \in Lms /\ m_additionalLms \in SUBSET Lms
      /\ Deployed \in SUBSET Lms
    BY Zenon DEF TypeOK, Deployed
<1>2. IsFiniteSet(m_additionalLms) /\ IsFiniteSet(Deployed)
    BY <1>1, FS_Subset, LmAssumption, Zenon
<1>3. IsFiniteSet(A) /\ Cardinality(A) <= Cardinality(Deployed)
      /\ (Cardinality(A) = Cardinality(Deployed) => A = Deployed)
    BY <1>2, FS_Subset, Zenon
<1>4. Cardinality(Deployed) <= Cardinality(m_additionalLms) + 1
    <2>1. /\ Cardinality(Deployed) = Cardinality(m_additionalLms)
             \/ Cardinality(Deployed) = Cardinality(m_additionalLms) + 1
          /\ Cardinality(m_additionalLms) \in Nat
        BY <1>2, FS_AddElement, FS_CardinalityType, Zenon DEF Deployed
    <2> QED BY <2>1
<1> DEFINE f == [lm \in A |-> Key(lm)]
           K == {Key(lm) : lm \in A}
<1>5. f \in Surjection(A, K)
    BY Zenon DEF Surjection
<1> HIDE DEF f
<1>6. IsFiniteSet(K) /\ Cardinality(K) <= Cardinality(A)
    BY <1>3, <1>5, FS_Surjection, Zenon
<1>7. DOMAIN m \subseteq K
    BY Zenon
<1>8. Cardinality(DOMAIN m) <= Cardinality(K)
    BY <1>6, <1>7, FS_Subset, Zenon
<1>9. /\ Cardinality(A) \in Nat /\ Cardinality(K) \in Nat
      /\ Cardinality(Deployed) \in Nat /\ Cardinality(m_additionalLms) \in Nat
    BY <1>2, <1>3, <1>6, FS_CardinalityType, Zenon
<1>10. Cardinality(DOMAIN m) = Cardinality(m_additionalLms) + 1
    BY Zenon DEF AllReturned
<1>11. PICK a, k, d, n, c : /\ a = Cardinality(A) /\ k = Cardinality(K)
                            /\ d = Cardinality(Deployed)
                            /\ n = Cardinality(m_additionalLms)
                            /\ c = Cardinality(DOMAIN m)
    BY Zenon
<1>12. a = d
    <2>1. /\ a \in Nat /\ k \in Nat /\ d \in Nat /\ n \in Nat
          /\ a <= d /\ d <= n + 1 /\ k <= a /\ c <= k /\ c = n + 1
        BY <1>3, <1>4, <1>6, <1>8, <1>9, <1>10, <1>11, Zenon
    <2> QED BY <2>1
<1> QED BY <1>3, <1>11, <1>12, Zenon

\* A script that neither removes nor replaces modules only adds to them.
LEMMA DeployedGrows ==
    ASSUME ModulesStay, [Next]_vars
    PROVE  UNCHANGED m_defaultLm /\ m_additionalLms \subseteq m_additionalLms'
<1> USE DEF simVars, scriptVars, ricVars, lmVars, history
<1>1. CASE Advance \/ UNCHANGED vars
    BY <1>1, Zenon DEF Advance, vars
<1>2. CASE Script
    BY <1>2, Zenon DEF Script, Call, ModulesStay, Activate, Deactivate, Start, StartTwice,
                Stop, NotifyReportReceived, QueryLms, AddLogicModule,
                RemoveLogicModule, SetDefaultLogicModule
<1>3. ASSUME NEW e \in events, LmQueryEvent(e) \/ InactivityEvent(e) \/ ProcessEvent(e)
      PROVE  UNCHANGED <<m_defaultLm, m_additionalLms>>
    BY <1>3, Zenon DEF LmQueryEvent, InactivityEvent, ProcessEvent, QueryLms, Ignored
<1>4. ASSUME NEW e \in events, FinishRunEvent(e)
      PROVE  UNCHANGED <<m_defaultLm, m_additionalLms>>
    BY <1>4, Zenon DEF FinishRunEvent, Answer, AnswerForUnexpectedCycle, Ignored
<1> QED BY <1>1, <1>2, <1>3, <1>4, Zenon DEF Next

\* Every step keeps the answers with the modules that they are of, and issues
\* no batch before its time.
LEMMA AnswerStep ==
    ASSUME TypeOK, RunInv, TimerInv, NothingKept, AnswerInv, QueriesInTurn,
           ModulesStay, Policy = "DROP", [Next]_vars
    PROVE  AnswerInv'
<1>e. DOMAIN EmptyMap = {}
    BY Zenon DEF EmptyMap
<1>d. Deployed \subseteq Deployed' /\ \A lm : Key(lm)' = Key(lm)
    BY DeployedGrows, Zenon DEF Deployed, Key
<1>1. CASE Quiet
    BY <1>1, <1>d, Zenon DEF AnswerInv, Quiet, BatchComplete
<1>2. ASSUME NEW e \in events, LmQueryEvent(e) PROVE AnswerInv'
    <2>1. QueryLms(events \ {e}) /\ m_lmQueryCommands = EmptyMap
        BY <1>2, QueryInTurn, Zenon DEF NothingKept
    <2>2. answered' = {} /\ UNCHANGED <<m_lmQueryCommands, issued>>
        BY <2>1, Zenon DEF QueryLms
    <2> QED BY <1>e, <2>1, <2>2, Zenon DEF AnswerInv, BatchComplete
<1>3. ASSUME NEW e \in events, ProcessEvent(e) PROVE AnswerInv'
    <2>1. /\ now = m_lmQueryCycle + MaxWait
          /\ ProcessLmQueryCommands(m_lmQueryCommands, events \ {e})
          /\ answered' = answered
        BY <1>3, TimerFires, Zenon
    <2>2. BatchComplete'
        BY <2>1, Zenon DEF BatchComplete, ProcessLmQueryCommands, QueriesInTurn
    <2>3. m_lmQueryCommands' = EmptyMap
        BY <2>1, Zenon DEF ProcessLmQueryCommands
    <2> QED BY <1>d, <1>e, <2>1, <2>2, <2>3, Zenon DEF AnswerInv
<1>4. ASSUME NEW e \in events, e.id \in Lms, Answer(e) PROVE AnswerInv'
    <2>1. answered' = answered \cup {e.id}
        BY <1>4, Zenon DEF Answer
    <2>2. answered' \in SUBSET Deployed
        BY <1>4, <2>1, Zenon DEF AnswerInv, RunInv
    <2>3. \A k \in DOMAIN Filed(e.id) : \E lm \in answered' : k = Key(lm)
        BY <2>1, FiledUnder, Zenon DEF AnswerInv
    <2>4. CASE m_lmQueryCommands' = Filed(e.id) /\ UNCHANGED <<batches, issued>>
        BY <1>d, <2>2, <2>3, <2>4, Zenon DEF AnswerInv, BatchComplete
    <2>5. CASE /\ AllReturned(Filed(e.id))
               /\ ProcessLmQueryCommands(Filed(e.id), events \ {e})
        <3>1. Deployed \subseteq answered'
            BY <2>2, <2>3, <2>5, AllAnswered, Zenon
        <3>2. BatchComplete'
            BY <2>5, <3>1, Zenon DEF BatchComplete, ProcessLmQueryCommands
        <3>3. m_lmQueryCommands' = EmptyMap
            BY <2>5, Zenon DEF ProcessLmQueryCommands
        <3> QED BY <1>d, <1>e, <2>2, <3>2, <3>3, Zenon DEF AnswerInv
    <2> QED BY <1>4, <2>4, <2>5, AnswerTimers, Zenon
<1> QED BY <1>1, <1>2, <1>3, <1>4, Steps, Zenon

\* No batch is issued early: when NotifyLmFinished counts as many entries as
\* there are modules, every deployed module has answered in this cycle, also
\* when the default module shares its name with another, and otherwise the
\* batch waits for the timer. The queries come in turn, late commands are
\* dropped, and the script neither removes nor replaces modules.
THEOREM BatchesAreComplete ==
    ASSUME QueriesInTurn, ModulesStay, Policy = "DROP"
    PROVE  Spec => []BatchComplete
<1> DEFINE Inv == RunInv /\ TimerInv /\ NothingKept /\ AnswerInv
<1>1. Init => Inv
    BY DEF Init, RunInv, TimerInv, NothingKept, AnswerInv, BatchComplete, NoBatch,
           Timers, Queries, EmptyMap
<1>2. TypeOK /\ Inv /\ [Next]_vars => Inv'
    BY RunStep, TimerStep, NothingKeptStep, AnswerStep, Zenon
<1>3. Inv => BatchComplete
    BY Zenon DEF AnswerInv
<1> QED BY <1>1, <1>2, <1>3, TypeCorrect, PTL DEF Spec
=============================================================================
