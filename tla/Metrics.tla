------------------------------ MODULE Metrics ------------------------------
(***************************************************************************)
(* The way of a metric of one UE to the agent: OranReporterNrUeTxDrop      *)
(* accumulates the dropped bytes per bearer until its trigger makes        *)
(* reports of them; the node's terminator sends those it has stored; the   *)
(* RIC saves them as rows of the repository; OranLmNrRlQlearn::GetTxDrop() *)
(* averages the rows that are new since its last average.                  *)
(* OranReporterNrUeTxPdu and GetTxPdu() are the same with sent bytes.      *)
(*                                                                         *)
(* A drop is named by its bearer and time, and a report carries the drops  *)
(* in its sum. Events of one instant take place in any order.              *)
(***************************************************************************)
EXTENDS Naturals, Sequences, FiniteSets, FiniteSetsExt, Maps

CONSTANTS
    Bearers,          \* the LCIDs of the UE
    TriggerInterval,  \* of the reporter's periodic trigger
    InitialReport,    \* the attribute of the trigger
    SendInterval,     \* of the node's terminator
    Delays,           \* the values of m_transmissionDelayRv
    RunInterval,      \* from one Run() of the logic module to the next
    m_N,              \* an average is made in every m_N-th call
    MaxResponses,     \* bound: the registration responses
    MaxDrops,         \* bound: the drops of a run
    MaxTime           \* bound: the end of the simulation

ASSUME MetricsAssumption ==
    /\ {TriggerInterval, SendInterval, RunInterval, m_N} \subseteq Nat \ {0}
    /\ Delays \subseteq Nat /\ Delays # {}
    /\ InitialReport \in BOOLEAN
    /\ {MaxResponses, MaxDrops, MaxTime} \subseteq Nat

VARIABLES
    now,
    triggers, sends, nextRun,  \* when these events are due
    registered,   \* when the responses to registrations came
    m_samples,    \* bearer -> [time, drops]
    m_reports,    \* the terminator's reports
    messages,     \* those under way, that arrive together: [ts, sent, reports]
    rows,         \* table nruetxdrop
    m_txDropCounter, m_lastTxDropTime,
    averages,     \* the rows that each average was made of
    made,         \* history: the drops
    tied,         \* history: a drop came after a report of the same instant
    lastSent,     \* history: when the latest message that arrived was sent
    overtaken     \* history: a message arrived after one that was not sent earlier

reporterVars == <<m_samples, m_reports, made, tied>>
lmVars == <<m_txDropCounter, m_lastTxDropTime, averages>>
ricVars == <<rows, lastSent, overtaken>>
timers == <<triggers, sends, nextRun>>
vars == <<now, timers, registered, reporterVars, messages, ricVars, lmVars>>

Init ==
    /\ now = 1
    /\ \E t \in 1..TriggerInterval : triggers = {t}
    /\ sends = {}
    /\ nextRun \in 1..RunInterval
    /\ registered = {}
    /\ m_samples = EmptyMap /\ m_reports = {} /\ messages = {} /\ rows = {}
    /\ m_txDropCounter = 0 /\ m_lastTxDropTime = 0 /\ averages = <<>>
    /\ made = {} /\ tied = FALSE
    /\ lastSent = 0 /\ overtaken = FALSE

Advance ==
    /\ now < MaxTime
    /\ \A t \in triggers \cup sends \cup {nextRun} \cup {m.ts : m \in messages} : t > now
    /\ now' = now + 1
    /\ UNCHANGED <<timers, registered, reporterVars, messages, ricVars, lmVars>>

-----------------------------------------------------------------------------
(* The UE.                                                                 *)

Reports == m_reports \cup rows \cup UNION {m.reports : m \in messages}

\* AddTxDrop(), whether or not the reporter is active.
AddTxDrop(b) ==
    LET drop == [bearer |-> b, time |-> now]
        old == IF b \in DOMAIN m_samples THEN m_samples[b].drops ELSE {}
    IN
    /\ drop \notin made
    /\ Cardinality(made) < MaxDrops
    /\ m_samples' = Put(m_samples, b, [time |-> now, drops |-> old \cup {drop}])
    /\ made' = made \cup {drop}
    /\ tied' = (tied \/ \E r \in Reports : r.time = now)
    /\ UNCHANGED <<now, timers, registered, m_reports, messages, ricVars, lmVars>>

\* Mutant: the samples stay.
Cleared_Not(S) == S

Cleared(S) == EmptyMap

\* GenerateReports(), in PerformReport(): a report for every bearer that has a
\* sample, stamped with the identifier that the node has by now.
GenerateReports(known) ==
    /\ m_reports' = m_reports \cup {[time |-> m_samples[b].time, drops |-> m_samples[b].drops,
                                     known |-> known] : b \in DOMAIN m_samples}
    /\ m_samples' = Cleared(m_samples)

\* OranReportTriggerPeriodic::TriggerReport()
TriggerReport ==
    /\ now \in triggers
    /\ triggers' = (triggers \ {now}) \cup {now + TriggerInterval}
    /\ GenerateReports(registered # {})
    /\ UNCHANGED <<now, sends, nextRun, registered, messages, ricVars, lmVars, made, tied>>

\* ReceiveRegistrationResponse(): every response starts a chain of sends, and
\* the first one, with an initial report, another chain of triggers.
ReceiveRegistrationResponse ==
    /\ Cardinality(registered) < MaxResponses
    /\ now \notin registered
    /\ registered' = registered \cup {now}
    /\ sends' = sends \cup {now + SendInterval}
    /\ IF registered = {} /\ InitialReport
       THEN GenerateReports(TRUE) /\ triggers' = triggers \cup {now + TriggerInterval}
       ELSE UNCHANGED <<m_samples, m_reports, triggers>>
    /\ UNCHANGED <<now, nextRun, messages, ricVars, lmVars, made, tied>>

\* DoSendReports()
DoSendReports ==
    /\ now \in sends
    /\ sends' = (sends \ {now}) \cup {now + SendInterval}
    /\ \E delay \in [m_reports -> Delays] :
         messages' = messages \cup
             {[ts |-> now + d, sent |-> now, reports |-> {r \in m_reports : delay[r] = d}] :
                d \in {delay[r] : r \in m_reports}}
    /\ m_reports' = {}
    /\ UNCHANGED <<now, triggers, nextRun, registered, m_samples, ricVars, lmVars, made, tied>>

-----------------------------------------------------------------------------
(* The RIC.                                                                *)

\* ReceiveReport() and SaveNrUeTxDrop() for reports that arrive together: their
\* events follow each other in the queue. The repository has no node 0.
SaveNrUeTxDrop ==
    \E m \in {x \in messages : x.ts = now} :
        /\ messages' = messages \ {m}
        /\ rows' = rows \cup {r \in m.reports : r.known}
        /\ lastSent' = Max({lastSent, m.sent})
        /\ overtaken' = (overtaken \/ lastSent >= m.sent)
        /\ UNCHANGED <<now, timers, registered, reporterVars, lmVars>>

\* s.time > lastTime
New(r) == r.time > m_lastTxDropTime

\* Mutant: the reference time is that of the average.
Newest_Now(S) == now

Newest(S) == Max({m_lastTxDropTime} \cup {r.time : r \in S})

\* GetTxDrop() in Run()
GetTxDrop ==
    LET fresh == {r \in rows : New(r)} IN
    /\ nextRun = now
    /\ nextRun' = now + RunInterval
    /\ IF m_txDropCounter + 1 < m_N
       THEN m_txDropCounter' = m_txDropCounter + 1 /\ UNCHANGED <<m_lastTxDropTime, averages>>
       ELSE /\ m_txDropCounter' = 0
            /\ m_lastTxDropTime' = Newest(fresh)
            /\ averages' = IF fresh = {} THEN averages ELSE Append(averages, fresh)
    /\ UNCHANGED <<now, triggers, sends, registered, reporterVars, messages, ricVars>>

Next ==
    \/ Advance
    \/ \E b \in Bearers : AddTxDrop(b)
    \/ TriggerReport
    \/ ReceiveRegistrationResponse
    \/ DoSendReports
    \/ SaveNrUeTxDrop
    \/ GetTxDrop

Spec == Init /\ [][Next]_vars

-----------------------------------------------------------------------------
(* Properties.                                                             *)

Counted == UNION UNION {{r.drops : r \in averages[i]} : i \in DOMAIN averages}

\* No dropped byte is shown to the agent twice: not in two averages of
\* GetTxDrop(), nor in two reports of one average.
CountedOnce ==
    \A i, j \in DOMAIN averages : \A r \in averages[i], s \in averages[j] :
        (i = j /\ r = s) \/ r.drops \cap s.drops = {}

\* The longest way: the drop comes just after the trigger, the report just
\* after the send, the row just after an average.
Way == TriggerInterval + SendInterval + Max(Delays) + m_N * RunInterval

\* What a registered node dropped is in an average of GetTxDrop() once every
\* timer on the way has had its turn, as long as no drop followed a report of
\* its own instant and no message overtook another: the test s.time > lastTime
\* takes a row of either kind for an old one.
CountedInTime ==
    ~tied /\ ~overtaken =>
        \A d \in made : (\E t \in registered : t < d.time) /\ now > d.time + Way => d \in Counted
=============================================================================
