----------------------------- MODULE NearRtRic ------------------------------
(***************************************************************************)
(* The query cycle of the Near-RT RIC: OranNrNearRtRic with its Logic      *)
(* Modules (OranLm) and the Conflict Mitigation Module (OranCmmNoop).      *)
(*                                                                         *)
(* The RIC periodically asks every Logic Module to run. A module computes  *)
(* its commands at once and hands them over after a processing delay. The  *)
(* RIC collects them in m_lmQueryCommands and issues them as one batch     *)
(* when every module has answered, or when the maximum wait time is over.  *)
(* The simulation script may start and stop the RIC, add, remove and       *)
(* replace modules, and a report may trigger a query out of turn.          *)
(***************************************************************************)
EXTENDS EventQueue, Maps, FiniteSets

CONSTANTS
    Lms,                \* the OranLm objects of the script
    Name,               \* Name[lm]: what lm->GetName() returns
    InitialDefault,     \* the attribute DefaultLogicModule
    InitialAdditional,  \* the modules added before the simulation runs
    Interval,           \* m_lmQueryInterval
    MaxWait,            \* m_lmQueryMaxWaitTime, 0 for no limit
    Policy,             \* m_lmQueryLateCommandPolicy
    InactivityInterval, \* the value of m_e2NodeInactivityIntervalRv
    Delays,             \* the values of m_processingDelayRv
    Calls,              \* the calls that the script makes
    MaxCalls,           \* bound: how many of them
    MaxTime             \* bound: the argument of Simulator::Stop

ASSUME LmAssumption ==
    /\ InitialDefault \in Lms
    /\ InitialAdditional \subseteq Lms
    /\ Lms \cap {"lmQuery", "inactivity", "process"} = {}
    /\ IsFiniteSet(Lms)

ASSUME TimeAssumption ==
    /\ Interval \in Nat \ {0}
    /\ MaxWait \in Nat
    /\ InactivityInterval \in Nat \ {0}
    /\ Delays \subseteq Nat
    /\ MaxTime \in Nat
    /\ MaxCalls \in Nat

ASSUME PolicyAssumption == Policy \in {"DROP", "SAVE"}

VARIABLES
    now,                \* Simulator::Now()
    uid,                \* the simulator's m_uid
    events,             \* the pending events
    aborted,            \* the NS_ABORT that ended the program, or "no"
    calls,              \* the number of calls the script has made
    m_active,
    m_defaultLm,
    m_additionalLms,    \* the values of the map, which is keyed by name
    m_lmQueryCycle,
    m_lmQueryCommands,  \* (name, is default) -> commands
    lmActive,           \* OranLm::m_active
    lmCycle,            \* OranLm::m_cycle
    lmCommands,         \* OranLm::m_commands
    answered,           \* history: the modules that answered since QueryLms
    batches,            \* history: the batches issued since QueryLms
    issued              \* history: the last batch given to the E2 terminator

simVars == <<now, uid, events>>
scriptVars == <<aborted, calls>>
ricVars == <<m_active, m_defaultLm, m_additionalLms, m_lmQueryCycle,
             m_lmQueryCommands>>
lmVars == <<lmActive, lmCycle, lmCommands>>
history == <<answered, batches, issued>>
vars == <<simVars, scriptVars, ricVars, lmVars, history>>

-----------------------------------------------------------------------------

Keys == {Name[lm] : lm \in Lms} \X BOOLEAN
Command == [lm : Lms, cycle : Nat]
EventIds == Lms \cup {"lmQuery", "inactivity", "process"}
Batch == [cycle : Nat, at : Nat, commands : SUBSET Command,
          answered : SUBSET Lms, deployed : SUBSET Lms]

NoBatch == [cycle |-> 0, at |-> 0, commands |-> {}, answered |-> {},
            deployed |-> {}]

\* The modules that QueryLms asks to run.
Deployed == m_additionalLms \cup {m_defaultLm}

\* A faulty Key: the default module is not told from a namesake.
Key_NameOnly(lm) == Name[lm]

\* The key under which NotifyLmFinished files the commands of lm.
Key(lm) == <<Name[lm], lm = m_defaultLm>>

Init ==
    /\ now = 0
    /\ uid = 0
    /\ events = {}
    /\ aborted = "no"
    /\ calls = 0
    /\ m_active = FALSE
    /\ m_defaultLm = InitialDefault
    /\ m_additionalLms = InitialAdditional
    /\ m_lmQueryCycle = 0
    /\ m_lmQueryCommands = EmptyMap
    /\ lmActive = [lm \in Lms |-> FALSE]
    /\ lmCycle = [lm \in Lms |-> 0]
    /\ lmCommands = [lm \in Lms |-> {}]
    /\ answered = {}
    /\ batches = 0
    /\ issued = NoBatch

-----------------------------------------------------------------------------
(* The event loop.                                                         *)

Running == aborted = "no"

\* The event e leaves the queue and its handler runs.
Fires(e) == Running /\ e.ts = now /\ IsNext(e, events)

\* Time passes to the next instant once no event is due.
Advance ==
    /\ Running
    /\ now < MaxTime
    /\ \A e \in events : e.ts > now
    /\ now' = now + 1
    /\ UNCHANGED <<uid, events, scriptVars, ricVars, lmVars, history>>

\* The script makes call c.
Call(c) ==
    /\ Running
    /\ c \in Calls
    /\ calls < MaxCalls
    /\ calls' = calls + 1

-----------------------------------------------------------------------------
(* Activation.                                                             *)

\* Activate() propagates to the modules only when the RIC is not active.
Activated == [lm \in Lms |-> lmActive[lm] \/ (~m_active /\ lm \in Deployed)]

\* Deactivate(). OranLm::Deactivate clears m_active before it calls
\* CancelRun(), which does nothing in a module that is not active: a run in
\* progress keeps its event and its commands.
Deactivated == [lm \in Lms |-> lmActive[lm] /\ ~(m_active /\ lm \in Deployed)]

Activate ==
    /\ Call("Activate")
    /\ lmActive' = Activated
    /\ m_active' = TRUE
    /\ UNCHANGED <<simVars, aborted, m_defaultLm, m_additionalLms,
                   m_lmQueryCycle, m_lmQueryCommands, lmCycle, lmCommands,
                   history>>

Deactivate ==
    /\ Call("Deactivate")
    /\ lmActive' = Deactivated
    /\ m_active' = FALSE
    /\ UNCHANGED <<simVars, aborted, m_defaultLm, m_additionalLms,
                   m_lmQueryCycle, m_lmQueryCommands, lmCycle, lmCommands,
                   history>>

AlreadyStarted == IsPending(events, "lmQuery") \/ IsPending(events, "inactivity")

Start ==
    /\ Call("Start")
    /\ ~AlreadyStarted
    /\ lmActive' = Activated
    /\ m_active' = TRUE
    /\ events' = events \cup {Event(now + Interval, uid, "lmQuery"),
                              Event(now + InactivityInterval, uid + 1, "inactivity")}
    /\ uid' = uid + 2
    /\ UNCHANGED <<now, aborted, m_defaultLm, m_additionalLms, m_lmQueryCycle,
                   m_lmQueryCommands, lmCycle, lmCommands, history>>

StartTwice ==
    /\ Call("Start")
    /\ AlreadyStarted
    /\ aborted' = "already started"
    /\ lmActive' = Activated
    /\ m_active' = TRUE
    /\ UNCHANGED <<simVars, m_defaultLm, m_additionalLms, m_lmQueryCycle,
                   m_lmQueryCommands, lmCycle, lmCommands, history>>

\* Stop() cancels the events of the RIC and keeps m_lmQueryCommands.
Stop ==
    /\ Call("Stop")
    /\ lmActive' = Deactivated
    /\ m_active' = FALSE
    /\ events' = Cancel(Cancel(Cancel(events, "lmQuery"), "inactivity"), "process")
    /\ UNCHANGED <<now, uid, aborted, m_defaultLm, m_additionalLms,
                   m_lmQueryCycle, m_lmQueryCommands, lmCycle, lmCommands,
                   history>>

-----------------------------------------------------------------------------
(* The set of modules. None of these calls touches the module itself: an   *)
(* added module is not activated, a removed or replaced one is neither     *)
(* deactivated nor cancelled.                                              *)

AddLogicModule(lm) ==
    /\ Call("AddLogicModule")
    /\ \A other \in m_additionalLms : Name[other] # Name[lm]
    /\ m_additionalLms' = m_additionalLms \cup {lm}
    /\ UNCHANGED <<simVars, aborted, m_active, m_defaultLm, m_lmQueryCycle,
                   m_lmQueryCommands, lmVars, history>>

RemoveLogicModule(lm) ==
    /\ Call("RemoveLogicModule")
    /\ lm \in m_additionalLms
    /\ m_additionalLms' = m_additionalLms \ {lm}
    /\ UNCHANGED <<simVars, aborted, m_active, m_defaultLm, m_lmQueryCycle,
                   m_lmQueryCommands, lmVars, history>>

SetDefaultLogicModule(lm) ==
    /\ Call("SetDefaultLogicModule")
    /\ lm # m_defaultLm
    /\ m_defaultLm' = lm
    /\ UNCHANGED <<simVars, aborted, m_active, m_additionalLms, m_lmQueryCycle,
                   m_lmQueryCommands, lmVars, history>>

-----------------------------------------------------------------------------
(* The query of the Logic Modules.                                         *)

\* CheckForInactivity() reschedules itself; the deregistrations that it asks
\* of the E2 terminator are the subject of the E2 modules.
Rechecked(E, u) == Cancel(E, "inactivity")
                     \cup {Event(now + InactivityInterval, u, "inactivity")}

\* The wait timer of a new cycle. The timer of the previous cycle, if it is
\* pending, is let go of and not cancelled.
Timed(E, u) ==
    IF MaxWait = 0 THEN E
    ELSE LetGo(E, "process") \cup {Event(now + MaxWait, u, "process")}

\* A faulty Runs: a module that still runs is left alone.
Runs_Idle == {lm \in Deployed : lmActive[lm] /\ ~IsPending(events, lm)}

\* The modules in which QueryLms() has an effect: CancelRun() and Run() do
\* nothing in a module that is not active.
Runs == {lm \in Deployed : lmActive[lm]}

\* When QueryLms() schedules the end of a run: the default module is run
\* first, and again with the others if it is one of them.
Stamp(lm) == IF lm \in m_additionalLms THEN uid + 3 ELSE uid + 2

\* QueryLms() in an active RIC, with E the pending events other than the
\* query's. A module that still runs is cancelled and run again. A run
\* produces a command or none. The default module runs first and the others
\* follow in the order of their names, any order: they carry one stamp.
QueryLms(E) ==
    \E delay \in [Runs -> Delays], productive \in SUBSET Runs :
        /\ events' = {e \in Timed(Rechecked(E, uid), uid + 1) : e.id \notin Runs}
             \cup {Event(now + delay[lm], Stamp(lm), lm) : lm \in Runs}
             \cup {Event(now + Interval, uid + 4, "lmQuery")}
        /\ uid' = uid + 5
        /\ m_lmQueryCycle' = now
        /\ lmCycle' = [lm \in Lms |-> IF lm \in Runs THEN now ELSE lmCycle[lm]]
        /\ lmCommands' = [lm \in Lms |->
             IF lm \in productive THEN {[lm |-> lm, cycle |-> now]}
             ELSE IF lm \in Runs THEN {} ELSE lmCommands[lm]]
        /\ answered' = {}
        /\ batches' = 0
        /\ UNCHANGED <<now, aborted, m_active, m_defaultLm, m_additionalLms,
                       m_lmQueryCommands, lmActive, issued>>

\* The handler of an event returns at once because the RIC, or the module,
\* is not active.
Ignored(e) ==
    /\ events' = events \ {e}
    /\ UNCHANGED <<now, uid, scriptVars, ricVars, lmVars, history>>

LmQueryEvent(e) ==
    /\ Fires(e)
    /\ e.id = "lmQuery"
    /\ \/ m_active /\ QueryLms(events \ {e}) /\ UNCHANGED calls
       \/ ~m_active /\ Ignored(e)

InactivityEvent(e) ==
    /\ Fires(e)
    /\ e.id = "inactivity"
    /\ \/ /\ m_active
          /\ events' = Rechecked(events \ {e}, uid)
          /\ uid' = uid + 1
          /\ UNCHANGED <<now, scriptVars, ricVars, lmVars, history>>
       \/ ~m_active /\ Ignored(e)

\* NotifyReportReceived() when a query trigger asks for a query. The E2
\* terminator that calls it is active exactly when the RIC is.
NotifyReportReceived ==
    /\ Call("NotifyReportReceived")
    /\ m_active
    /\ QueryLms(Cancel(events, "lmQuery"))

-----------------------------------------------------------------------------
(* The answers of the Logic Modules.                                       *)

\* A faulty ProcessLmQueryCommands: the collected commands are not cleared.
ProcessLmQueryCommands_Kept(m, E) ==
    /\ events' = Cancel(E, "process")
    /\ issued' = [cycle |-> m_lmQueryCycle, at |-> now,
                  commands |-> UNION {m[k] : k \in DOMAIN m},
                  answered |-> answered', deployed |-> Deployed]
    /\ batches' = batches + 1
    /\ m_lmQueryCommands' = m

\* ProcessLmQueryCommands() in an active RIC, with m the collected commands
\* and E the pending events: OranCmmNoop::Filter concatenates all of m.
ProcessLmQueryCommands(m, E) ==
    /\ events' = Cancel(E, "process")
    /\ issued' = [cycle |-> m_lmQueryCycle, at |-> now,
                  commands |-> UNION {m[k] : k \in DOMAIN m},
                  answered |-> answered', deployed |-> Deployed]
    /\ batches' = batches + 1
    /\ m_lmQueryCommands' = EmptyMap

ProcessEvent(e) ==
    /\ Fires(e)
    /\ e.id = "process"
    /\ \/ /\ m_active
          /\ answered' = answered
          /\ ProcessLmQueryCommands(m_lmQueryCommands, events \ {e})
          /\ UNCHANGED <<now, uid, scriptVars, m_active, m_defaultLm,
                         m_additionalLms, m_lmQueryCycle, lmVars>>
       \/ ~m_active /\ Ignored(e)

\* A faulty Collecting: the wait timer is not looked at.
Collecting_Always == TRUE

\* The RIC still collects the answers of the cycle.
Collecting == IsPending(events, "process") \/ MaxWait = 0

\* A faulty AllReturned: the default module is not counted.
AllReturned_NoDefault(m) == Cardinality(DOMAIN m) >= Cardinality(m_additionalLms)

\* The test of NotifyLmFinished for "all LMs have returned commands".
AllReturned(m) == Cardinality(DOMAIN m) = Cardinality(m_additionalLms) + 1

\* A faulty Filed: the map is emptied where only one entry should be.
Filed_Alone(lm) == [k \in {Key(lm)} |-> lmCommands[lm]]

\* m_lmQueryCommands once NotifyLmFinished has filed the commands of lm: an
\* earlier entry of the module is emptied first, whatever the policy.
Filed(lm) ==
    IF Collecting \/ Policy = "SAVE"
    THEN Put(m_lmQueryCommands, Key(lm), lmCommands[lm])
    ELSE IF Key(lm) \in DOMAIN m_lmQueryCommands
         THEN Put(m_lmQueryCommands, Key(lm), {})
         ELSE m_lmQueryCommands

\* FinishRun() of an active module whose run was for the current cycle, with
\* the whole of NotifyLmFinished().
Answer(e) ==
    LET lm == e.id IN
    /\ lmCycle[lm] = m_lmQueryCycle
    /\ answered' = answered \cup {lm}
    /\ IF AllReturned(Filed(lm)) /\ Collecting /\ m_active
       THEN ProcessLmQueryCommands(Filed(lm), events \ {e})
       ELSE /\ m_lmQueryCommands' = Filed(lm)
            /\ events' = events \ {e}
            /\ UNCHANGED <<batches, issued>>
    /\ lmCommands' = [lmCommands EXCEPT ![lm] = {}]
    /\ UNCHANGED <<now, uid, scriptVars, m_active, m_defaultLm, m_additionalLms,
                   m_lmQueryCycle, lmActive, lmCycle>>

\* The same for a run of another cycle: the RIC aborts the simulation.
AnswerForUnexpectedCycle(e) ==
    /\ lmCycle[e.id] # m_lmQueryCycle
    /\ aborted' = "unexpected cycle"
    /\ events' = events \ {e}
    /\ UNCHANGED <<now, uid, calls, ricVars, lmVars, history>>

FinishRunEvent(e) ==
    /\ Fires(e)
    /\ e.id \in Lms
    /\ \/ lmActive[e.id] /\ Answer(e)
       \/ lmActive[e.id] /\ AnswerForUnexpectedCycle(e)
       \/ ~lmActive[e.id] /\ Ignored(e)

-----------------------------------------------------------------------------

Script ==
    \/ Activate \/ Deactivate \/ Start \/ StartTwice \/ Stop
    \/ NotifyReportReceived
    \/ \E lm \in Lms : AddLogicModule(lm)
    \/ \E lm \in Lms : RemoveLogicModule(lm)
    \/ \E lm \in Lms : SetDefaultLogicModule(lm)

Next ==
    \/ Advance
    \/ Script
    \/ \E e \in events : LmQueryEvent(e)
    \/ \E e \in events : InactivityEvent(e)
    \/ \E e \in events : ProcessEvent(e)
    \/ \E e \in events : FinishRunEvent(e)

Spec == Init /\ [][Next]_vars

-----------------------------------------------------------------------------

TypeOK ==
    /\ now \in Nat
    /\ uid \in Nat
    /\ events \subseteq [ts : Nat, uid : Nat, id : EventIds, held : BOOLEAN]
    /\ aborted \in {"no", "already started", "unexpected cycle"}
    /\ calls \in Nat
    /\ m_active \in BOOLEAN
    /\ m_defaultLm \in Lms
    /\ m_additionalLms \subseteq Lms
    /\ m_lmQueryCycle \in Nat
    /\ DOMAIN m_lmQueryCommands \subseteq Keys
    /\ m_lmQueryCommands \in [DOMAIN m_lmQueryCommands -> SUBSET Command]
    /\ lmActive \in [Lms -> BOOLEAN]
    /\ lmCycle \in [Lms -> Nat]
    /\ lmCommands \in [Lms -> SUBSET Command]
    /\ answered \subseteq Lms
    /\ batches \in Nat
    /\ issued \in Batch

-----------------------------------------------------------------------------
(* Properties.                                                             *)

\* The commands that the RIC holds for a later batch.
Collected == UNION {m_lmQueryCommands[k] : k \in DOMAIN m_lmQueryCommands}

\* The comment in NotifyLmFinished: a batch is issued once all the deployed
\* modules have answered in this cycle, or when the wait time of this cycle
\* is over, and never earlier.
BatchComplete ==
    \/ issued.deployed \subseteq issued.answered
    \/ MaxWait > 0 /\ issued.at = issued.cycle + MaxWait

\* By the time QueryLms opens a cycle, the cycle before it has been issued,
\* and it has been issued once: no cycle is skipped, none is sent twice.
OneBatchPerCycle ==
    [][m_lmQueryCycle' # m_lmQueryCycle => batches = 1 \/ m_lmQueryCycle = 0]_vars

\* A module that is going to answer was run for the current cycle, so
\* NotifyLmFinished never meets an answer "for unexpected cycle".
RunsAreCurrent ==
    \A e \in events :
        e.id \in Lms => ~lmActive[e.id] \/ lmCycle[e.id] = m_lmQueryCycle

\* oran-nr-near-rt-ric.cc:449 aborts the simulation when an answer is for another
\* cycle than the one queried. No Activate, Deactivate, Stop, Start, report or
\* addition of a Logic Module, at any moment of a run, leads there.
NoUnexpectedCycle == aborted # "unexpected cycle"

\* The query cycle implements QueryRound: a round is a cycle, the offers are
\* the collected commands, and a round is closed by ProcessLmQueryCommands. So
\* m_lmQueryCommands, which QueryLms does not clear, carries no command from
\* one cycle into the next, and no answer overwrites a collected command.
Round == INSTANCE QueryRound WITH
    round  <- m_lmQueryCycle,
    offers <- Collected,
    closed <- (batches > 0 \/ m_lmQueryCycle = 0),
    sent   <- issued.commands

RoundSpec == Round!Spec
=============================================================================
