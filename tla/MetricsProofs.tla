--------------------------- MODULE MetricsProofs ---------------------------
(***************************************************************************)
(* Proofs about the way of a metric to the agent: for any number of        *)
(* bearers, any intervals and any delays.                                  *)
(***************************************************************************)
EXTENDS Metrics, WellFoundedInduction, TLAPS

Known(r) == r.known

\* A set of times up to now has a greatest one.
LEMMA LessIsWellFounded == IsWellFoundedOn({p \in Nat \X Nat : p[1] < p[2]}, Nat)
BY NatLessThanWellFounded, Zenon DEF OpToRel

LEMMA LeastExists ==
    ASSUME NEW S, S \subseteq Nat, S # {}
    PROVE  \E x \in S : \A y \in S : x <= y
<1>1. \E R : R = {p \in Nat \X Nat : p[1] < p[2]} /\ IsWellFoundedOn(R, Nat)
    BY LessIsWellFounded, Zenon
<1>2. PICK R : R = {p \in Nat \X Nat : p[1] < p[2]} /\ IsWellFoundedOn(R, Nat)
    BY <1>1, Zenon
<1>3. PICK x \in S : \A y \in S : <<y, x>> \notin R
    BY <1>2, WFMin, Zenon
<1>4. \A y \in S : <<y, x>> \notin {p \in Nat \X Nat : p[1] < p[2]}
    BY <1>2, <1>3, Zenon
<1>5. \A y \in S : ~(y < x)
    BY <1>4, Zenon
<1>6. \A y \in S : x <= y
    BY <1>5
<1> QED BY <1>6, Zenon

LEMMA MaxBounded ==
    ASSUME NEW S, S \subseteq Nat, S # {}, NEW b \in Nat, \A x \in S : x <= b
    PROVE  Max(S) \in S /\ \A x \in S : x <= Max(S)
<1> PICK T : T = {b - x : x \in S}
    BY Zenon
<1>1. \A x \in S : b - x \in T
    BY Zenon
<1>2. T # {}
    BY <1>1, Zenon
<1>3. T \subseteq Nat
    OBVIOUS
<1>4. PICK t \in T : \A u \in T : t <= u
    BY <1>2, <1>3, LeastExists, Zenon
<1>5. PICK m \in S : t = b - m
    BY Zenon
<1>6. \A x \in S : m >= x
    BY <1>1, <1>4, <1>5
<1>7. Max(S) \in S /\ \A y \in S : Max(S) >= y
    BY <1>6, Zenon DEF Max
<1> QED BY <1>7, Zenon

-----------------------------------------------------------------------------
(* The invariants.                                                         *)

Drops == [bearer : Bearers, time : Nat]
Report == [time : Nat, drops : SUBSET Drops, known : BOOLEAN]

\* Times are natural numbers, and nothing is overdue or from the future.
TimeInv ==
    /\ now \in Nat /\ now > 0
    /\ \A t \in triggers \cup sends \cup {nextRun} : t \in Nat /\ t >= now
    /\ \A m \in messages : m.ts \in Nat /\ m.ts >= now /\ m.sent \in Nat /\ m.sent <= now
    /\ \A t \in registered : t \in Nat /\ t <= now
    /\ made \subseteq Drops /\ \A d \in made : d.time <= now
    /\ \A b \in DOMAIN m_samples :
         m_samples[b].time \in Nat /\ 0 < m_samples[b].time /\ m_samples[b].time <= now
    /\ \A r \in Reports : r.time \in Nat /\ 0 < r.time /\ r.time <= now
    /\ m_lastTxDropTime \in Nat /\ lastSent \in Nat
    /\ averages \in Seq(SUBSET Report) /\ Reports \subseteq Report
    /\ m_txDropCounter \in Nat /\ m_txDropCounter < m_N

\* A drop is in one report or one sample.
PartInv ==
    /\ \A r, s \in Reports : r = s \/ r.drops \cap s.drops = {}
    /\ \A r \in Reports : r.drops \subseteq made
    /\ \A b \in DOMAIN m_samples : m_samples[b].drops \subseteq made
    /\ \A b \in DOMAIN m_samples : \A r \in Reports : m_samples[b].drops \cap r.drops = {}
    /\ \A b, c \in DOMAIN m_samples : b = c \/ m_samples[b].drops \cap m_samples[c].drops = {}

\* What was averaged is not new any more.
AverageInv ==
    /\ \A i \in DOMAIN averages : \A r \in averages[i] : r \in rows /\ r.time <= m_lastTxDropTime
    /\ CountedOnce
    /\ m_lastTxDropTime = 0 \/ \E r \in rows : r.time = m_lastTxDropTime

\* Every pipe keeps the order of times: the samples are later than the reports,
\* what is stored later than what was sent, and a message later than those that
\* were sent before it.
OrderInv ==
    ~tied =>
      /\ \A b \in DOMAIN m_samples : \A r \in Reports : r.time < m_samples[b].time
      /\ \A r \in rows, s \in m_reports : r.time < s.time
      /\ \A m \in messages : \A r \in m.reports, s \in m_reports : r.time < s.time
      /\ \A m, l \in messages : m.sent < l.sent =>
            \A r \in m.reports, s \in l.reports : r.time < s.time
      /\ \A m \in messages : m.sent > lastSent => \A r \in rows, s \in m.reports : r.time < s.time

\* The timers go on.
TimerInv ==
    /\ \E t \in triggers : t <= now + TriggerInterval
    /\ registered # {} => \E t \in sends : t <= now + SendInterval
    /\ nextRun <= now + RunInterval

\* The stages of a drop, and when the next one is due.
Sampled(d) ==
    /\ \E b \in DOMAIN m_samples : d \in m_samples[b].drops
    /\ \E t \in triggers : t <= d.time + TriggerInterval
Stored(d) ==
    /\ \E r \in m_reports : d \in r.drops /\ Known(r)
    /\ \E t \in sends : t <= d.time + TriggerInterval + SendInterval
UnderWay(d) ==
    \E m \in messages : /\ \E r \in m.reports : d \in r.drops /\ Known(r)
                        /\ m.ts <= d.time + TriggerInterval + SendInterval + Max(Delays)
NextAverage == nextRun + (m_N - 1 - m_txDropCounter) * RunInterval
Saved(d) ==
    /\ \E r \in rows : d \in r.drops /\ New(r)
    /\ NextAverage <= d.time + Way

StageInv ==
    ~tied /\ ~overtaken =>
        \A d \in made : (\E t \in registered : t < d.time) =>
            Sampled(d) \/ Stored(d) \/ UnderWay(d) \/ Saved(d) \/ d \in Counted

-----------------------------------------------------------------------------
(* What the steps do.                                                      *)

LEMMA Constants ==
    /\ TriggerInterval \in Nat /\ SendInterval \in Nat /\ RunInterval \in Nat /\ m_N \in Nat
    /\ TriggerInterval > 0 /\ SendInterval > 0 /\ RunInterval > 0 /\ m_N > 0
    /\ Delays \subseteq Nat
BY MetricsAssumption

\* Where a report may be.
LEMMA ReportsAre ==
    /\ \A x : x \in Reports <=>
                 x \in m_reports \/ x \in rows \/ \E m \in messages : x \in m.reports
    /\ \A x : x \in Reports' <=>
                 x \in m_reports' \/ x \in rows' \/ \E m \in messages' : x \in m.reports
BY Zenon DEF Reports

\* r is a report of the sample of bearer b.
Of(r, b) == r.time = m_samples[b].time /\ r.drops = m_samples[b].drops

\* GenerateReports() makes the samples reports.
Generates(G) ==
    /\ m_reports' = m_reports \cup G
    /\ \A r \in G : \E b \in DOMAIN m_samples : Of(r, b)
    /\ \A b \in DOMAIN m_samples : \E r \in G : Of(r, b)
    /\ m_samples' = EmptyMap

LEMMA Generated ==
    ASSUME NEW k \in BOOLEAN, GenerateReports(k)
    PROVE  \E G : /\ Generates(G)
                  /\ \A r \in G : r = [time |-> r.time, drops |-> r.drops, known |-> k]
<1> DEFINE rep(b) == [time |-> m_samples[b].time, drops |-> m_samples[b].drops, known |-> k]
           G == {rep(b) : b \in DOMAIN m_samples}
<1>1. /\ m_reports' = m_reports \cup G
      /\ m_samples' = EmptyMap
    BY Zenon DEF GenerateReports, Cleared
<1>2. \A b : Of(rep(b), b) /\ rep(b) = [time |-> rep(b).time, drops |-> rep(b).drops, known |-> k]
    BY Zenon DEF Of
<1> HIDE DEF rep
<1>3. /\ \A r \in G : \E b \in DOMAIN m_samples : Of(r, b)
      /\ \A b \in DOMAIN m_samples : \E r \in G : Of(r, b)
      /\ \A r \in G : r = [time |-> r.time, drops |-> r.drops, known |-> k]
    BY <1>2, Zenon
<1> HIDE DEF G
<1> QED BY <1>1, <1>3, Zenon DEF Generates

\* A message of DoSendReports().
Message(m) == /\ \E d \in Delays : m.ts = now + d
              /\ m.sent = now
              /\ m.reports \subseteq m_reports

LEMMA SendEffect ==
    ASSUME DoSendReports
    PROVE  \E N : /\ messages' = messages \cup N
                  /\ \A m \in N : Message(m)
                  /\ \A r \in m_reports : \E m \in N : r \in m.reports
<1>1. PICK delay \in [m_reports -> Delays] : messages' = messages \cup
             {[ts |-> now + d, sent |-> now, reports |-> {r \in m_reports : delay[r] = d}] :
                d \in {delay[r] : r \in m_reports}}
    BY Zenon DEF DoSendReports
<1> DEFINE msg(d) == [ts |-> now + d, sent |-> now, reports |-> {r \in m_reports : delay[r] = d}]
           D == {delay[r] : r \in m_reports}
           N == {msg(d) : d \in D}
<1>2. \A d : msg(d).ts = now + d /\ msg(d).sent = now
               /\ msg(d).reports = {r \in m_reports : delay[r] = d}
    BY Zenon
<1>3. messages' = messages \cup N
    BY <1>1, Zenon
<1> HIDE DEF msg
<1>4. D \subseteq Delays
    BY Zenon
<1>5. \A d \in Delays : Message(msg(d))
    BY <1>2, Zenon DEF Message
<1>6. \A m \in N : Message(m)
    BY <1>4, <1>5, Zenon
<1>7. ASSUME NEW r \in m_reports PROVE \E m \in N : r \in m.reports
    <2>1. delay[r] \in D
        BY Zenon
    <2>2. msg(delay[r]) \in N
        BY <2>1, Zenon
    <2>3. r \in msg(delay[r]).reports
        BY <1>2
    <2> QED BY <2>2, <2>3, Zenon
<1> HIDE DEF N
<1> QED BY <1>3, <1>6, <1>7, Zenon

\* AddTxDrop() adds a drop to the sample of bearer b.
Adds(b, drop) ==
    /\ drop \notin made /\ drop \in Drops /\ drop.time = now
    /\ made' = made \cup {drop}
    /\ DOMAIN m_samples' = DOMAIN m_samples \cup {b}
    /\ m_samples'[b].time = now
    /\ drop \in m_samples'[b].drops
    /\ \A d \in m_samples'[b].drops : d = drop \/ (b \in DOMAIN m_samples /\ d \in m_samples[b].drops)
    /\ b \in DOMAIN m_samples => m_samples[b].drops \subseteq m_samples'[b].drops
    /\ \A c \in DOMAIN m_samples : c # b => m_samples'[c] = m_samples[c]

LEMMA DropEffect ==
    ASSUME now \in Nat, NEW b \in Bearers, AddTxDrop(b)
    PROVE  /\ \E drop : Adds(b, drop)
           /\ ~tied' => ~tied /\ \A r \in Reports : r.time # now
           /\ Reports' = Reports
<1> DEFINE drop == [bearer |-> b, time |-> now]
           old == IF b \in DOMAIN m_samples THEN m_samples[b].drops ELSE {}
<1> PICK s : s = [time |-> now, drops |-> old \cup {drop}]
    BY Zenon
<1>1. /\ drop \notin made /\ made' = made \cup {drop}
      /\ m_samples' = Put(m_samples, b, s)
    BY Zenon DEF AddTxDrop
<1>2. drop \in Drops /\ drop.time = now
    BY Zenon DEF Drops
<1>3. s.time = now /\ s.drops = old \cup {drop}
    BY Zenon
<1>a. /\ b \in DOMAIN m_samples => old = m_samples[b].drops
      /\ b \notin DOMAIN m_samples => old = {}
    BY Zenon
<1> HIDE DEF drop, old
<1>4. /\ DOMAIN m_samples' = DOMAIN m_samples \cup {b}
      /\ m_samples'[b] = s
      /\ \A c \in DOMAIN m_samples : c # b => m_samples'[c] = m_samples[c]
    BY <1>1, Zenon DEF Put
<1>5. Adds(b, drop)
    BY <1>1, <1>2, <1>3, <1>4, <1>a, Zenon DEF Adds
<1>6. ~tied' => ~tied /\ \A r \in Reports : r.time # now
    BY Zenon DEF AddTxDrop
<1>7. Reports' = Reports
    BY Zenon DEF AddTxDrop, Reports, ricVars
<1> QED BY <1>5, <1>6, <1>7, Zenon

\* SaveNrUeTxDrop() for message m.
Saves(m) ==
    /\ m \in messages /\ m.ts = now
    /\ messages' = messages \ {m}
    /\ \A r : r \in rows' <=> r \in rows \/ (r \in m.reports /\ Known(r))
    /\ lastSent' = IF m.sent > lastSent THEN m.sent ELSE lastSent
    /\ ~overtaken' => ~overtaken /\ m.sent > lastSent

LEMMA SaveEffect ==
    ASSUME TimeInv, SaveNrUeTxDrop
    PROVE  \E m : Saves(m)
<1>1. PICK m \in {x \in messages : x.ts = now} :
         /\ messages' = messages \ {m}
         /\ rows' = rows \cup {r \in m.reports : r.known}
         /\ lastSent' = Max({lastSent, m.sent})
         /\ overtaken' = (overtaken \/ lastSent >= m.sent)
    BY Zenon DEF SaveNrUeTxDrop
<1>2. m \in messages /\ m.ts = now /\ m.sent \in Nat /\ lastSent \in Nat
    BY Zenon DEF TimeInv
<1>3. \A r : r \in rows' <=> r \in rows \/ (r \in m.reports /\ Known(r))
    BY <1>1, Zenon DEF Known
<1>4. lastSent' = IF m.sent > lastSent THEN m.sent ELSE lastSent
    <2> PICK a, b : a = lastSent /\ b = m.sent
        BY Zenon
    <2>1. Max({a, b}) \in {a, b} /\ \A y \in {a, b} : Max({a, b}) >= y
        <3>1. \E x \in {a, b} : \A y \in {a, b} : x >= y
            BY <1>2
        <3> QED BY <3>1, Zenon DEF Max
    <2> QED BY <1>1, <1>2, <2>1
<1>5. ~overtaken' => ~overtaken /\ ~(lastSent >= m.sent)
    BY <1>1, Zenon
<1>6. ~(lastSent >= m.sent) => m.sent > lastSent
    BY <1>2
<1> QED BY <1>1, <1>2, <1>3, <1>4, <1>5, <1>6, Zenon DEF Saves

\* The average of GetTxDrop() takes the new rows.
Averages(fresh) ==
    /\ \A r : r \in fresh <=> r \in rows /\ New(r)
    /\ m_txDropCounter' = 0
    /\ m_lastTxDropTime' \in Nat /\ m_lastTxDropTime <= m_lastTxDropTime'
    /\ m_lastTxDropTime' = m_lastTxDropTime \/ \E r \in fresh : r.time = m_lastTxDropTime'
    /\ \A r \in fresh : r.time <= m_lastTxDropTime'
    /\ averages' = IF fresh = {} THEN averages ELSE Append(averages, fresh)

LEMMA AverageEffect ==
    ASSUME TimeInv, GetTxDrop
    PROVE  \/ /\ m_txDropCounter + 1 < m_N
              /\ m_txDropCounter' = m_txDropCounter + 1
              /\ UNCHANGED <<m_lastTxDropTime, averages>>
           \/ /\ ~(m_txDropCounter + 1 < m_N)
              /\ \E fresh : Averages(fresh)
<1> PICK fresh : fresh = {r \in rows : New(r)}
    BY Zenon
<1>1. CASE m_txDropCounter + 1 < m_N
    BY <1>1, Zenon DEF GetTxDrop
<1>2. CASE ~(m_txDropCounter + 1 < m_N)
    <2>1. /\ m_txDropCounter' = 0
          /\ m_lastTxDropTime' = Newest(fresh)
          /\ averages' = IF fresh = {} THEN averages ELSE Append(averages, fresh)
        BY <1>2, Zenon DEF GetTxDrop
    <2> PICK S, a : S = {a} \cup {r.time : r \in fresh} /\ a = m_lastTxDropTime
        BY Zenon
    <2>2. \A r \in fresh : r \in Reports
        BY ReportsAre, Zenon
    <2>3. now \in Nat /\ a \in Nat /\ \A r \in fresh : r.time \in Nat /\ r.time <= now
        BY <2>2, Zenon DEF TimeInv
    <2>4. S \subseteq Nat /\ S # {} /\ \A x \in S : x <= now + a
        <3>1. \A r \in fresh : r.time <= now + a
            BY <2>3
        <3> QED BY <2>3, <3>1
    <2>5. now + a \in Nat
        BY <2>3
    <2>6. Max(S) \in S /\ \A x \in S : x <= Max(S)
        BY <2>4, <2>5, MaxBounded, Zenon
    <2>7. m_lastTxDropTime' = Max(S)
        BY <2>1, Zenon DEF Newest
    <2>8. /\ m_lastTxDropTime' \in Nat /\ a <= m_lastTxDropTime'
          /\ m_lastTxDropTime' = a \/ \E r \in fresh : r.time = m_lastTxDropTime'
          /\ \A r \in fresh : r.time <= m_lastTxDropTime'
        BY <2>4, <2>6, <2>7, Zenon
    <2> QED BY <1>2, <2>1, <2>8, Zenon DEF Averages
<1> QED BY <1>1, <1>2, Zenon

\* Sending and saving make no reports.
LEMMA MovedReports ==
    ASSUME TimeInv, DoSendReports \/ SaveNrUeTxDrop
    PROVE  \A r \in Reports' : r \in Reports
<1>1. CASE DoSendReports
    <2>1. PICK N : messages' = messages \cup N /\ \A m \in N : Message(m)
        BY <1>1, SendEffect, Zenon
    <2>2. rows' = rows /\ m_reports' = {}
        BY <1>1, Zenon DEF DoSendReports, ricVars
    <2> QED BY <2>1, <2>2, ReportsAre, Zenon DEF Message
<1>2. CASE SaveNrUeTxDrop
    <2>1. PICK m : Saves(m)
        BY <1>2, SaveEffect, Zenon
    <2>2. m_reports' = m_reports
        BY <1>2, Zenon DEF SaveNrUeTxDrop, reporterVars
    <2> QED BY <2>1, <2>2, ReportsAre, Zenon DEF Saves
<1> QED BY <1>1, <1>2, Zenon

\* The report of a sample.
LEMMA GeneratedReports ==
    ASSUME NEW G, Generates(G), UNCHANGED <<rows, messages>>
    PROVE  \A r : r \in Reports' <=> r \in Reports \/ r \in G
BY ReportsAre, Zenon DEF Generates

\* One more element at the end.
LEMMA Appended ==
    ASSUME NEW T, NEW s \in Seq(T), NEW x \in T, NEW r, r = Append(s, x)
    PROVE  /\ r \in Seq(T)
           /\ \E n : /\ n \notin DOMAIN s /\ DOMAIN r = DOMAIN s \cup {n}
                     /\ r[n] = x
                     /\ \A i \in DOMAIN s : r[i] = s[i]
<1>1. r \in Seq(T) /\ Len(s) \in Nat
    OBVIOUS
<1>2. DOMAIN s = 1..Len(s) /\ DOMAIN r = 1..(Len(s) + 1)
    OBVIOUS
<1>3. r[Len(s) + 1] = x /\ \A i \in 1..Len(s) : r[i] = s[i]
    OBVIOUS
<1>4. Len(s) + 1 \notin 1..Len(s) /\ 1..(Len(s) + 1) = 1..Len(s) \cup {Len(s) + 1}
    BY <1>1
<1> QED BY <1>1, <1>2, <1>3, <1>4, Zenon

\* Every step keeps the times right.
LEMMA TimeStep ==
    ASSUME TimeInv, PartInv, [Next]_vars
    PROVE  TimeInv'
<1> USE DEF timers, reporterVars, ricVars, lmVars
<1>n. now \in Nat /\ now > 0
    BY Zenon DEF TimeInv
<1>1. CASE UNCHANGED vars
    BY <1>1, Zenon DEF vars, TimeInv, Reports
<1>2. CASE Advance
    <2>1. /\ now' = now + 1 /\ Reports' = Reports
          /\ UNCHANGED <<timers, registered, reporterVars, messages, ricVars, lmVars>>
        BY <1>2, Zenon DEF Advance, Reports
    <2>2. \A t \in triggers \cup sends \cup {nextRun} : t > now
        BY <1>2, Zenon DEF Advance
    <2>3. \A m \in messages : m.ts > now
        BY <1>2, Zenon DEF Advance
    <2>4. \A t \in triggers \cup sends \cup {nextRun} : t \in Nat /\ t >= now + 1
        BY <2>2, <1>n DEF TimeInv
    <2>5. \A m \in messages : m.ts \in Nat /\ m.ts >= now + 1 /\ m.sent \in Nat
                                /\ m.sent <= now + 1
        BY <2>3, <1>n DEF TimeInv
    <2>6. \A t \in Nat : t <= now => t <= now + 1
        BY <1>n
    <2>7. /\ \A t \in registered : t \in Nat /\ t <= now + 1
          /\ \A d \in made : d.time <= now + 1
        BY <2>6, Zenon DEF TimeInv, Drops
    <2>8. /\ \A b \in DOMAIN m_samples :
               m_samples[b].time \in Nat /\ 0 < m_samples[b].time /\ m_samples[b].time <= now + 1
          /\ \A r \in Reports : r.time \in Nat /\ 0 < r.time /\ r.time <= now + 1
        BY <2>6, Zenon DEF TimeInv
    <2>9. now + 1 \in Nat /\ now + 1 > 0
        BY <1>n
    <2> QED BY <2>1, <2>4, <2>5, <2>7, <2>8, <2>9, Zenon DEF TimeInv
<1>3. ASSUME NEW b \in Bearers, AddTxDrop(b) PROVE TimeInv'
    <2>1. PICK drop : Adds(b, drop)
        BY <1>3, <1>n, DropEffect, Zenon
    <2>2. Reports' = Reports
        BY <1>3, <1>n, DropEffect, Zenon
    <2>3. UNCHANGED <<now, timers, registered, m_reports, messages, ricVars, lmVars>>
        BY <1>3, Zenon DEF AddTxDrop
    <2>4. \A c \in DOMAIN m_samples' :
             m_samples'[c].time \in Nat /\ 0 < m_samples'[c].time /\ m_samples'[c].time <= now
        <3>1. m_samples'[b].time = now
            BY <2>1, Zenon DEF Adds
        <3>2. \A c \in DOMAIN m_samples' : c = b \/ (c \in DOMAIN m_samples /\ m_samples'[c] = m_samples[c])
            BY <2>1, Zenon DEF Adds
        <3> QED BY <3>1, <3>2, <1>n DEF TimeInv
    <2>5. made' \subseteq Drops /\ \A d \in made' : d.time <= now
        <3>1. made' = made \cup {drop} /\ drop \in Drops /\ drop.time = now
            BY <2>1, Zenon DEF Adds
        <3> QED BY <3>1, <1>n DEF TimeInv
    <2> QED BY <2>2, <2>3, <2>4, <2>5, Zenon DEF TimeInv
<1>4. ASSUME NEW k \in BOOLEAN, GenerateReports(k), UNCHANGED <<rows, messages>>
      PROVE  /\ DOMAIN m_samples' = {}
             /\ \A r \in Reports' : r.time \in Nat /\ 0 < r.time /\ r.time <= now
             /\ Reports' \subseteq Report
    <2>1. PICK G : /\ Generates(G)
                   /\ \A r \in G : r = [time |-> r.time, drops |-> r.drops, known |-> k]
        BY <1>4, Generated, Zenon
    <2>2. DOMAIN m_samples' = {}
        BY <2>1, Zenon DEF Generates, EmptyMap
    <2>3. ASSUME NEW r \in G
          PROVE  r \in Report /\ r.time \in Nat /\ 0 < r.time /\ r.time <= now
        <3>1. PICK b \in DOMAIN m_samples : r.time = m_samples[b].time /\ r.drops = m_samples[b].drops
            BY <2>1, <2>3, Zenon DEF Generates, Of
        <3>2. r.time \in Nat /\ 0 < r.time /\ r.time <= now
            BY <3>1, Zenon DEF TimeInv
        <3>3. r.drops \in SUBSET Drops
            BY <3>1, Zenon DEF TimeInv, PartInv
        <3>4. [time |-> r.time, drops |-> r.drops, known |-> k] \in Report
            BY <3>2, <3>3, Zenon DEF Report
        <3>5. r = [time |-> r.time, drops |-> r.drops, known |-> k]
            BY <2>1, Zenon
        <3> QED BY <3>2, <3>4, <3>5, Zenon
    <2>4. \A r \in Reports' : r \in Reports \/ r \in G
        BY <2>1, <1>4, GeneratedReports, Zenon
    <2>5. \A r \in Reports : r \in Report /\ r.time \in Nat /\ 0 < r.time /\ r.time <= now
        BY Zenon DEF TimeInv
    <2> QED BY <2>2, <2>3, <2>4, <2>5, Zenon
<1>5. CASE TriggerReport
    <2>1. /\ triggers' = (triggers \ {now}) \cup {now + TriggerInterval}
          /\ GenerateReports(registered # {})
          /\ UNCHANGED <<now, sends, nextRun, registered, messages, ricVars, lmVars, made, tied>>
        BY <1>5, Zenon DEF TriggerReport
    <2>2. (registered # {}) \in BOOLEAN
        BY Zenon
    <2>3. /\ DOMAIN m_samples' = {}
          /\ \A r \in Reports' : r.time \in Nat /\ 0 < r.time /\ r.time <= now
          /\ Reports' \subseteq Report
        BY <2>1, <2>2, <1>4, Zenon
    <2>4. now + TriggerInterval \in Nat /\ now + TriggerInterval >= now
        BY <1>n, Constants
    <2>5. \A t \in triggers' : t \in Nat /\ t >= now
        BY <2>1, <2>4, Zenon DEF TimeInv
    <2> QED BY <2>1, <2>3, <2>5, Zenon DEF TimeInv
<1>6. CASE ReceiveRegistrationResponse
    <2>1. /\ registered' = registered \cup {now}
          /\ sends' = sends \cup {now + SendInterval}
          /\ UNCHANGED <<now, nextRun, messages, ricVars, lmVars, made, tied>>
        BY <1>6, Zenon DEF ReceiveRegistrationResponse
    <2>2. /\ now + TriggerInterval \in Nat /\ now + TriggerInterval >= now
          /\ now + SendInterval \in Nat /\ now + SendInterval >= now
        BY <1>n, Constants
    <2>3. \A t \in sends' : t \in Nat /\ t >= now
        BY <2>1, <2>2, Zenon DEF TimeInv
    <2>4. \A t \in registered' : t \in Nat /\ t <= now
        BY <2>1, <1>n DEF TimeInv
    <2>5. \/ GenerateReports(TRUE) /\ triggers' = triggers \cup {now + TriggerInterval}
          \/ UNCHANGED <<m_samples, m_reports, triggers>>
        BY <1>6, Zenon DEF ReceiveRegistrationResponse
    <2>6. \A t \in triggers' : t \in Nat /\ t >= now
        BY <2>2, <2>5, Zenon DEF TimeInv
    <2>7. CASE GenerateReports(TRUE)
        <3>1. /\ DOMAIN m_samples' = {}
              /\ \A r \in Reports' : r.time \in Nat /\ 0 < r.time /\ r.time <= now
              /\ Reports' \subseteq Report
            <4> PICK k \in BOOLEAN : k = TRUE
                BY Zenon
            <4>1. GenerateReports(k)
                BY <2>7, Zenon
            <4> QED BY <2>1, <4>1, <1>4, Zenon
        <3> QED BY <2>1, <2>3, <2>4, <2>6, <3>1, Zenon DEF TimeInv
    <2>8. CASE UNCHANGED <<m_samples, m_reports, triggers>>
        <3>1. Reports' = Reports
            BY <2>1, <2>8, Zenon DEF Reports
        <3> QED BY <2>1, <2>3, <2>4, <2>8, <3>1, Zenon DEF TimeInv
    <2> QED BY <2>5, <2>7, <2>8, Zenon
<1>7. CASE DoSendReports
    <2>1. /\ sends' = (sends \ {now}) \cup {now + SendInterval}
          /\ UNCHANGED <<now, triggers, nextRun, registered, m_samples, ricVars, lmVars, made, tied>>
        BY <1>7, Zenon DEF DoSendReports
    <2>2. PICK N : messages' = messages \cup N /\ \A m \in N : Message(m)
        BY <1>7, SendEffect, Zenon
    <2>3. now + SendInterval \in Nat /\ now + SendInterval >= now
        BY <1>n, Constants
    <2>4. \A t \in sends' : t \in Nat /\ t >= now
        BY <2>1, <2>3, Zenon DEF TimeInv
    <2>5. ASSUME NEW m \in N PROVE m.ts \in Nat /\ m.ts >= now /\ m.sent \in Nat /\ m.sent <= now
        <3>1. PICK d \in Delays : m.ts = now + d /\ m.sent = now
            BY <2>2, Zenon DEF Message
        <3>2. d \in Nat
            BY Constants, Zenon
        <3> QED BY <3>1, <3>2, <1>n
    <2>6. \A m \in messages' : m.ts \in Nat /\ m.ts >= now /\ m.sent \in Nat /\ m.sent <= now
        BY <2>2, <2>5, Zenon DEF TimeInv
    <2>7. \A r \in Reports' : r \in Reports
        BY <1>7, MovedReports, Zenon
    <2> QED BY <2>1, <2>4, <2>6, <2>7, Zenon DEF TimeInv
<1>8. CASE SaveNrUeTxDrop
    <2>1. PICK m : Saves(m)
        BY <1>8, SaveEffect, Zenon
    <2>2. UNCHANGED <<now, timers, registered, reporterVars, lmVars>>
        BY <1>8, Zenon DEF SaveNrUeTxDrop
    <2>3. \A r \in Reports' : r \in Reports
        BY <1>8, MovedReports, Zenon
    <2>4. lastSent' \in Nat
        BY <2>1, Zenon DEF Saves, TimeInv
    <2>5. \A x \in messages' : x \in messages
        BY <2>1, Zenon DEF Saves
    <2> QED BY <2>2, <2>3, <2>4, <2>5, Zenon DEF TimeInv
<1>9. CASE GetTxDrop
    <2>1. /\ nextRun' = now + RunInterval /\ Reports' = Reports
          /\ UNCHANGED <<now, triggers, sends, registered, reporterVars, messages, ricVars>>
        BY <1>9, Zenon DEF GetTxDrop, Reports
    <2>2. now + RunInterval \in Nat /\ now + RunInterval >= now
        BY <1>n, Constants
    <2>3. m_txDropCounter' \in Nat /\ m_txDropCounter' < m_N
        <3>1. m_txDropCounter' = 0 \/ (m_txDropCounter + 1 < m_N /\ m_txDropCounter' = m_txDropCounter + 1)
            BY <1>9, AverageEffect, Zenon DEF Averages
        <3> QED BY <3>1, Constants DEF TimeInv
    <2>4. m_lastTxDropTime' \in Nat /\ averages' \in Seq(SUBSET Report)
        <3>1. CASE UNCHANGED <<m_lastTxDropTime, averages>>
            BY <3>1, Zenon DEF TimeInv
        <3>2. ASSUME NEW fresh, Averages(fresh)
              PROVE  m_lastTxDropTime' \in Nat /\ averages' \in Seq(SUBSET Report)
            <4>1. fresh \in SUBSET Report
                BY <3>2, ReportsAre, Zenon DEF Averages, TimeInv
            <4>2. Append(averages, fresh) \in Seq(SUBSET Report)
                BY <4>1, Appended, Zenon DEF TimeInv
            <4> QED BY <3>2, <4>2, Zenon DEF Averages, TimeInv
        <3> QED BY <1>9, <3>1, <3>2, AverageEffect, Zenon
    <2>5. \A t \in triggers' \cup sends' \cup {nextRun'} : t \in Nat /\ t >= now
        BY <2>1, <2>2, Zenon DEF TimeInv
    <2> QED BY <2>1, <2>3, <2>4, <2>5, Zenon DEF TimeInv
<1> QED BY <1>1, <1>2, <1>3, <1>5, <1>6, <1>7, <1>8, <1>9, Zenon DEF Next

\* A drop is never in two places.
LEMMA PartStep ==
    ASSUME TimeInv, PartInv, [Next]_vars
    PROVE  PartInv'
<1> USE DEF timers, reporterVars, ricVars, lmVars
<1>1. ASSUME \A r \in Reports' : r \in Reports, UNCHANGED <<m_samples, made>> PROVE PartInv'
    BY <1>1, Zenon DEF PartInv
<1>2. ASSUME NEW b \in Bearers, AddTxDrop(b) PROVE PartInv'
    <2>1. PICK drop : Adds(b, drop)
        BY <1>2, DropEffect, Zenon DEF TimeInv
    <2>2. Reports' = Reports
        BY <1>2, DropEffect, Zenon DEF TimeInv
    <2>3. /\ drop \notin made /\ made' = made \cup {drop}
          /\ DOMAIN m_samples' = DOMAIN m_samples \cup {b}
          /\ \A d \in m_samples'[b].drops :
                d = drop \/ (b \in DOMAIN m_samples /\ d \in m_samples[b].drops)
          /\ \A c \in DOMAIN m_samples : c # b => m_samples'[c] = m_samples[c]
        BY <2>1, Zenon DEF Adds
    <2>4. \A c \in DOMAIN m_samples' : \A d \in m_samples'[c].drops :
             \/ c = b /\ d = drop
             \/ c \in DOMAIN m_samples /\ d \in m_samples[c].drops
        BY <2>3, Zenon
    <2>5. \A r \in Reports : r.drops \subseteq made
        BY Zenon DEF PartInv
    <2>6. \A c \in DOMAIN m_samples : m_samples[c].drops \subseteq made
        BY Zenon DEF PartInv
    <2>7. \A c \in DOMAIN m_samples' : m_samples'[c].drops \subseteq made'
        BY <2>3, <2>4, <2>6, Zenon
    <2>8. ASSUME NEW c \in DOMAIN m_samples', NEW r \in Reports
          PROVE  m_samples'[c].drops \cap r.drops = {}
        <3>1. \A d \in m_samples'[c].drops : d \notin r.drops
            BY <2>3, <2>4, <2>5 DEF PartInv
        <3> QED BY <3>1, Zenon
    <2>9. ASSUME NEW c \in DOMAIN m_samples', NEW e \in DOMAIN m_samples', c # e
          PROVE  m_samples'[c].drops \cap m_samples'[e].drops = {}
        <3>1. ASSUME NEW d \in m_samples'[c].drops, d \in m_samples'[e].drops PROVE FALSE
            <4>1. /\ (c = b /\ d = drop) \/ (c \in DOMAIN m_samples /\ d \in m_samples[c].drops)
                  /\ (e = b /\ d = drop) \/ (e \in DOMAIN m_samples /\ d \in m_samples[e].drops)
                BY <2>4, <3>1, Zenon
            <4> QED BY <4>1, <2>3, <2>6, <2>9 DEF PartInv
        <3> QED BY <3>1, Zenon
    <2> QED BY <2>2, <2>3, <2>7, <2>8, <2>9, Zenon DEF PartInv
<1>3. ASSUME NEW k \in BOOLEAN, GenerateReports(k), UNCHANGED <<rows, messages, made>>
      PROVE  PartInv'
    <2>1. PICK G : /\ Generates(G)
                   /\ \A r \in G : r = [time |-> r.time, drops |-> r.drops, known |-> k]
        BY <1>3, Generated, Zenon
    <2>2. DOMAIN m_samples' = {}
        BY <2>1, Zenon DEF Generates, EmptyMap
    <2>3. \A r : r \in Reports' <=> r \in Reports \/ r \in G
        BY <2>1, <1>3, GeneratedReports, Zenon
    <2>4. \A r \in G : \E b \in DOMAIN m_samples : r.drops = m_samples[b].drops /\ Of(r, b)
        BY <2>1, Zenon DEF Generates, Of
    <2>5. \A r \in Reports' : r.drops \subseteq made
        BY <2>3, <2>4, Zenon DEF PartInv
    <2>6. ASSUME NEW r \in G, NEW s \in G PROVE r = s \/ r.drops \cap s.drops = {}
        <3>1. PICK b \in DOMAIN m_samples : r.drops = m_samples[b].drops /\ Of(r, b)
            BY <2>4, Zenon
        <3>2. PICK c \in DOMAIN m_samples : s.drops = m_samples[c].drops /\ Of(s, c)
            BY <2>4, Zenon
        <3>3. CASE b = c
            <4>1. r.time = s.time /\ r.drops = s.drops
                BY <3>1, <3>2, <3>3, Zenon DEF Of
            <4>2. /\ r = [time |-> r.time, drops |-> r.drops, known |-> k]
                  /\ s = [time |-> s.time, drops |-> s.drops, known |-> k]
                BY <2>1, Zenon
            <4>3. r = s
                BY <4>1, <4>2, Zenon
            <4> QED BY <4>3, Zenon
        <3>4. CASE b # c
            BY <3>1, <3>2, <3>4, Zenon DEF PartInv
        <3> QED BY <3>3, <3>4, Zenon
    <2> QED BY <2>2, <2>3, <2>4, <2>5, <2>6, <1>3, Zenon DEF PartInv
<1>4. CASE UNCHANGED vars \/ Advance \/ GetTxDrop
    <2>1. Reports' = Reports /\ UNCHANGED <<m_samples, made>>
        BY <1>4, Zenon DEF vars, Advance, GetTxDrop, Reports
    <2> QED BY <2>1, <1>1, Zenon
<1>5. CASE TriggerReport
    <2> PICK k \in BOOLEAN : k = (registered # {})
        BY Zenon
    <2>1. GenerateReports(k) /\ UNCHANGED <<rows, messages, made>>
        BY <1>5, Zenon DEF TriggerReport
    <2> QED BY <2>1, <1>3, Zenon
<1>6. CASE ReceiveRegistrationResponse
    <2> PICK k \in BOOLEAN : k = TRUE
        BY Zenon
    <2>1. UNCHANGED <<rows, messages, made>>
        BY <1>6, Zenon DEF ReceiveRegistrationResponse
    <2>2. GenerateReports(k) \/ UNCHANGED <<m_samples, m_reports>>
        BY <1>6, Zenon DEF ReceiveRegistrationResponse
    <2>3. CASE UNCHANGED <<m_samples, m_reports>>
        <3>1. Reports' = Reports
            BY <2>1, <2>3, Zenon DEF Reports
        <3> QED BY <2>1, <2>3, <3>1, <1>1, Zenon
    <2> QED BY <2>1, <2>2, <2>3, <1>3, Zenon
<1>7. CASE DoSendReports \/ SaveNrUeTxDrop
    <2>1. UNCHANGED <<m_samples, made>>
        BY <1>7, Zenon DEF DoSendReports, SaveNrUeTxDrop
    <2> QED BY <2>1, <1>1, <1>7, MovedReports, Zenon
<1> QED BY <1>2, <1>4, <1>5, <1>6, <1>7, Zenon DEF Next

\* No row is averaged twice.
LEMMA AverageStep ==
    ASSUME TimeInv, PartInv, AverageInv, [Next]_vars
    PROVE  AverageInv'
<1> USE DEF timers, reporterVars, ricVars, lmVars
<1>1. ASSUME \A r \in rows : r \in rows', UNCHANGED <<m_lastTxDropTime, averages>> PROVE AverageInv'
    BY <1>1 DEF AverageInv, CountedOnce
<1>2. CASE GetTxDrop
    <2>1. rows' = rows
        BY <1>2, Zenon DEF GetTxDrop
    <2>2. ASSUME NEW fresh, Averages(fresh) PROVE AverageInv'
        <3>1. /\ \A r \in fresh : r \in rows /\ New(r) /\ r.time <= m_lastTxDropTime'
              /\ m_lastTxDropTime' \in Nat /\ m_lastTxDropTime <= m_lastTxDropTime'
              /\ m_lastTxDropTime' = m_lastTxDropTime \/ \E r \in fresh : r.time = m_lastTxDropTime'
            BY <2>2, Zenon DEF Averages
        <3>2. m_lastTxDropTime \in Nat /\ \A r \in rows : r.time \in Nat
            BY ReportsAre, Zenon DEF TimeInv
        <3>3. m_lastTxDropTime' = 0 \/ \E r \in rows' : r.time = m_lastTxDropTime'
            BY <2>1, <3>1, Zenon DEF AverageInv
        <3>4. \A i \in DOMAIN averages : \A r \in averages[i] :
                 r \in rows /\ r.time <= m_lastTxDropTime'
            BY <3>1, <3>2 DEF AverageInv
        <3>5. CASE averages' = averages
            BY <3>3, <3>4, <3>5, <2>1 DEF AverageInv, CountedOnce
        <3>6. CASE averages' = Append(averages, fresh)
            <4> PICK s, T : s = averages' /\ T = SUBSET Report
                BY Zenon
            <4>1. fresh \in T /\ averages \in Seq(T)
                BY <3>1, ReportsAre, Zenon DEF TimeInv
            <4>2. PICK n : /\ n \notin DOMAIN averages /\ DOMAIN s = DOMAIN averages \cup {n}
                           /\ s[n] = fresh
                           /\ \A i \in DOMAIN averages : s[i] = averages[i]
                BY <3>6, <4>1, Appended
            <4>3. \A i \in DOMAIN s : \A r \in s[i] : r \in rows /\ r.time <= m_lastTxDropTime'
                BY <3>1, <3>4, <4>2, Zenon
            <4>4. ASSUME NEW i \in DOMAIN averages, NEW r \in averages[i], NEW x \in fresh
                  PROVE  r.drops \cap x.drops = {}
                <5>1. r \in rows /\ x \in rows /\ r.time <= m_lastTxDropTime
                        /\ x.time > m_lastTxDropTime
                    BY <3>1, Zenon DEF AverageInv, New
                <5>2. r # x
                    BY <5>1, <3>2
                <5> QED BY <5>1, <5>2, ReportsAre, Zenon DEF PartInv
            <4>5. \A r, x \in fresh : r = x \/ r.drops \cap x.drops = {}
                BY <3>1, ReportsAre, Zenon DEF PartInv
            <4>6. \A i, j \in DOMAIN averages : \A r \in averages[i], x \in averages[j] :
                     (i = j /\ r = x) \/ r.drops \cap x.drops = {}
                BY Zenon DEF AverageInv, CountedOnce
            <4>7. ASSUME NEW i \in DOMAIN s, NEW j \in DOMAIN s, NEW r \in s[i], NEW x \in s[j]
                  PROVE  (i = j /\ r = x) \/ r.drops \cap x.drops = {}
                <5>1. CASE i = n /\ j = n
                    BY <5>1, <4>2, <4>5, Zenon
                <5>2. CASE i = n /\ j # n
                    BY <5>2, <4>2, <4>4, Zenon
                <5>3. CASE i # n /\ j = n
                    BY <5>3, <4>2, <4>4, Zenon
                <5>4. CASE i # n /\ j # n
                    BY <5>4, <4>2, <4>6, Zenon
                <5> QED BY <5>1, <5>2, <5>3, <5>4, Zenon
            <4> QED BY <2>1, <3>3, <4>3, <4>7 DEF AverageInv, CountedOnce
        <3> QED BY <2>2, <3>5, <3>6, Zenon DEF Averages
    <2> QED BY <1>1, <1>2, <2>1, <2>2, AverageEffect, Zenon
<1>3. CASE SaveNrUeTxDrop
    <2>1. \A r \in rows : r \in rows'
        BY <1>3, SaveEffect, Zenon DEF Saves
    <2>2. UNCHANGED <<m_lastTxDropTime, averages>>
        BY <1>3, Zenon DEF SaveNrUeTxDrop
    <2> QED BY <2>1, <2>2, <1>1, Zenon
<1>4. CASE \/ UNCHANGED vars \/ Advance \/ TriggerReport \/ ReceiveRegistrationResponse
           \/ DoSendReports \/ \E b \in Bearers : AddTxDrop(b)
    <2>1. UNCHANGED <<rows, m_lastTxDropTime, averages>>
        BY <1>4, Zenon DEF vars, Advance, TriggerReport, ReceiveRegistrationResponse, DoSendReports,
                    AddTxDrop
    <2> QED BY <2>1, <1>1, Zenon
<1> QED BY <1>2, <1>3, <1>4, Zenon DEF Next

\* The initial state.
LEMMA CountInit == ASSUME Init PROVE TimeInv /\ PartInv /\ AverageInv
<1>1. Reports = {}
    BY Zenon DEF Init, Reports
<1>2. DOMAIN m_samples = {} /\ DOMAIN averages = {}
    BY DEF Init, EmptyMap
<1>3. TimeInv
    <2>1. averages \in Seq(SUBSET Report)
        BY DEF Init
    <2>2. triggers \cup sends \cup {nextRun} \subseteq Nat
        BY Constants DEF Init
    <2>3. \A t \in triggers \cup sends \cup {nextRun} : t \in Nat /\ t >= now
        BY Constants DEF Init
    <2>4. m_txDropCounter \in Nat /\ m_txDropCounter < m_N
        BY Constants, Zenon DEF Init
    <2> QED BY <1>1, <1>2, <2>1, <2>3, <2>4 DEF Init, TimeInv
<1>4. PartInv /\ AverageInv
    BY <1>1, <1>2, Zenon DEF Init, PartInv, AverageInv, CountedOnce
<1> QED BY <1>3, <1>4, Zenon

\* No dropped byte is shown to the agent twice, neither in two averages of
\* GetTxDrop() nor in two reports of one, for any number of bearers and
\* through any delay and reordering of the reports: GenerateReports() clears
\* the samples it reports, and the test s.time > lastTime excludes every row
\* that was averaged.
THEOREM DropsCountOnce == Spec => []CountedOnce
<1> DEFINE Inv == TimeInv /\ PartInv /\ AverageInv
<1>1. Init => Inv
    BY CountInit, Zenon
<1>2. Inv /\ [Next]_vars => Inv'
    BY TimeStep, PartStep, AverageStep, Zenon
<1>3. Inv => CountedOnce
    BY Zenon DEF AverageInv
<1> QED BY <1>1, <1>2, <1>3, PTL DEF Spec

-----------------------------------------------------------------------------
(* Order.                                                                  *)

\* Every step keeps the order, unless a drop follows a report of its instant.
LEMMA OrderStep ==
    ASSUME TimeInv, OrderInv, [Next]_vars
    PROVE  OrderInv'
<1> USE DEF timers, reporterVars, ricVars, lmVars
<1>n. now \in Nat
    BY Zenon DEF TimeInv
<1>1. ASSUME UNCHANGED <<tied, m_samples, m_reports, rows, messages, lastSent>> PROVE OrderInv'
    BY <1>1, Zenon DEF OrderInv, Reports
<1>2. CASE UNCHANGED vars \/ Advance \/ GetTxDrop
    BY <1>1, <1>2, Zenon DEF vars, Advance, GetTxDrop
<1>3. ASSUME NEW b \in Bearers, AddTxDrop(b) PROVE OrderInv'
    <2> SUFFICES ASSUME ~tied' PROVE OrderInv'
        BY Zenon DEF OrderInv
    <2>1. PICK drop : Adds(b, drop)
        BY <1>3, <1>n, DropEffect, Zenon
    <2>2. ~tied /\ \A r \in Reports : r.time # now
        BY <1>3, <1>n, DropEffect, Zenon
    <2>3. Reports' = Reports
        BY <1>3, <1>n, DropEffect, Zenon
    <2>4. UNCHANGED <<m_reports, rows, messages, lastSent>>
        BY <1>3, Zenon DEF AddTxDrop
    <2>5. m_samples'[b].time = now
        BY <2>1, Zenon DEF Adds
    <2>6. \A c \in DOMAIN m_samples' : c = b \/ (c \in DOMAIN m_samples /\ m_samples'[c] = m_samples[c])
        BY <2>1, Zenon DEF Adds
    <2>7. \A r \in Reports : r.time < now
        BY <2>2, <1>n DEF TimeInv
    <2>8. \A c \in DOMAIN m_samples' : \A r \in Reports' : r.time < m_samples'[c].time
        BY <2>2, <2>3, <2>5, <2>6, <2>7, Zenon DEF OrderInv
    <2> QED BY <2>2, <2>4, <2>8, Zenon DEF OrderInv
<1>4. ASSUME NEW k \in BOOLEAN, GenerateReports(k), UNCHANGED <<tied, rows, messages, lastSent>>
      PROVE  OrderInv'
    <2> SUFFICES ASSUME ~tied PROVE OrderInv'
        BY <1>4, Zenon DEF OrderInv
    <2>1. PICK G : Generates(G)
        BY <1>4, Generated, Zenon
    <2>2. DOMAIN m_samples' = {} /\ m_reports' = m_reports \cup G
        BY <2>1, Zenon DEF Generates, EmptyMap
    <2>3. \A s \in G : \E b \in DOMAIN m_samples : s.time = m_samples[b].time
        BY <2>1, Zenon DEF Generates, Of
    <2>4. \A s \in G : \A r \in Reports : r.time < s.time
        BY <2>3, Zenon DEF OrderInv
    <2>5. \A s \in G : /\ \A r \in rows : r.time < s.time
                       /\ \A m \in messages : \A r \in m.reports : r.time < s.time
        BY <2>4, ReportsAre, Zenon
    <2> QED BY <1>4, <2>2, <2>5, Zenon DEF OrderInv
<1>5. CASE TriggerReport
    <2> PICK k \in BOOLEAN : k = (registered # {})
        BY Zenon
    <2>1. GenerateReports(k) /\ UNCHANGED <<tied, rows, messages, lastSent>>
        BY <1>5, Zenon DEF TriggerReport
    <2> QED BY <2>1, <1>4, Zenon
<1>6. CASE ReceiveRegistrationResponse
    <2> PICK k \in BOOLEAN : k = TRUE
        BY Zenon
    <2>1. UNCHANGED <<tied, rows, messages, lastSent>>
        BY <1>6, Zenon DEF ReceiveRegistrationResponse
    <2>2. GenerateReports(k) \/ UNCHANGED <<m_samples, m_reports>>
        BY <1>6, Zenon DEF ReceiveRegistrationResponse
    <2> QED BY <2>1, <2>2, <1>1, <1>4, Zenon
<1>7. CASE DoSendReports
    <2>1. UNCHANGED <<tied, m_samples, rows, lastSent>> /\ m_reports' = {}
        BY <1>7, Zenon DEF DoSendReports
    <2> SUFFICES ASSUME ~tied PROVE OrderInv'
        BY <2>1, Zenon DEF OrderInv
    <2>2. PICK N : messages' = messages \cup N /\ \A m \in N : Message(m)
        BY <1>7, SendEffect, Zenon
    <2>3. \A m \in N : m.sent = now /\ m.reports \subseteq m_reports
        BY <2>2, Zenon DEF Message
    <2>4. \A r \in Reports' : r \in Reports
        BY <1>7, MovedReports, Zenon
    <2>5. \A b \in DOMAIN m_samples' : \A r \in Reports' : r.time < m_samples'[b].time
        BY <2>1, <2>4, Zenon DEF OrderInv
    <2>6. \A m \in messages : m.sent \in Nat /\ ~(now < m.sent)
        BY <1>n DEF TimeInv
    <2>7. ~(now < now)
        BY <1>n
    <2>8. ASSUME NEW m \in messages', NEW l \in messages', m.sent < l.sent,
                 NEW r \in m.reports, NEW s \in l.reports
          PROVE  r.time < s.time
        <3>1. m \notin N
            BY <2>2, <2>3, <2>6, <2>7, <2>8, Zenon
        <3>2. m \in messages
            BY <2>2, <3>1, Zenon
        <3>3. CASE l \in N
            BY <2>3, <3>2, <3>3, Zenon DEF OrderInv
        <3>4. CASE l \in messages
            BY <2>8, <3>2, <3>4, Zenon DEF OrderInv
        <3> QED BY <2>2, <3>3, <3>4, Zenon
    <2>9. ASSUME NEW m \in messages', m.sent > lastSent, NEW r \in rows, NEW s \in m.reports
          PROVE  r.time < s.time
        <3>1. CASE m \in N
            BY <2>3, <3>1, Zenon DEF OrderInv
        <3>2. CASE m \in messages
            BY <2>9, <3>2, Zenon DEF OrderInv
        <3> QED BY <2>2, <3>1, <3>2, Zenon
    <2> QED BY <2>1, <2>5, <2>8, <2>9, Zenon DEF OrderInv
<1>8. CASE SaveNrUeTxDrop
    <2>1. UNCHANGED <<tied, m_samples, m_reports>>
        BY <1>8, Zenon DEF SaveNrUeTxDrop
    <2> SUFFICES ASSUME ~tied PROVE OrderInv'
        BY <2>1, Zenon DEF OrderInv
    <2>2. PICK m : Saves(m)
        BY <1>8, SaveEffect, Zenon
    <2>3. /\ m \in messages /\ \A l \in messages' : l \in messages
          /\ \A r \in rows' : r \in rows \/ r \in m.reports
          /\ lastSent' = IF m.sent > lastSent THEN m.sent ELSE lastSent
        BY <2>2, Zenon DEF Saves
    <2>4. \A r \in Reports' : r \in Reports
        BY <1>8, MovedReports, Zenon
    <2>5. \A b \in DOMAIN m_samples' : \A r \in Reports' : r.time < m_samples'[b].time
        BY <2>1, <2>4, Zenon DEF OrderInv
    <2>6. \A r \in rows', s \in m_reports : r.time < s.time
        BY <2>3, Zenon DEF OrderInv
    <2>7. \A l \in messages : l.sent \in Nat /\ lastSent \in Nat
        BY Zenon DEF TimeInv
    <2>8. \A l \in messages : l.sent > lastSent' => l.sent > lastSent /\ m.sent < l.sent
        BY <2>3, <2>7
    <2>9. ASSUME NEW l \in messages', l.sent > lastSent', NEW r \in rows', NEW s \in l.reports
          PROVE  r.time < s.time
        <3>1. l \in messages /\ l.sent > lastSent /\ m.sent < l.sent
            BY <2>3, <2>8, <2>9, Zenon
        <3>2. CASE r \in rows
            BY <3>1, <3>2, Zenon DEF OrderInv
        <3>3. CASE r \in m.reports
            BY <2>3, <3>1, <3>3, Zenon DEF OrderInv
        <3> QED BY <2>3, <3>2, <3>3, Zenon
    <2> QED BY <2>1, <2>3, <2>5, <2>6, <2>9, Zenon DEF OrderInv
<1> QED BY <1>2, <1>3, <1>5, <1>6, <1>7, <1>8, Zenon DEF Next

\* Every timer is set again in time.
LEMMA TimerStep ==
    ASSUME TimeInv, TimerInv, [Next]_vars
    PROVE  TimerInv'
<1> USE DEF timers, reporterVars, ricVars, lmVars
<1>n. now \in Nat
    BY Zenon DEF TimeInv
<1>1. ASSUME UNCHANGED <<now, timers, registered>> PROVE TimerInv'
    BY <1>1, Zenon DEF TimerInv
<1>2. CASE UNCHANGED vars \/ (\E b \in Bearers : AddTxDrop(b)) \/ SaveNrUeTxDrop
    BY <1>1, <1>2, Zenon DEF vars, AddTxDrop, SaveNrUeTxDrop
<1>3. CASE Advance
    <2>1. now' = now + 1 /\ UNCHANGED <<timers, registered>>
        BY <1>3, Zenon DEF Advance
    <2>2. \A t \in triggers \cup sends \cup {nextRun} : t \in Nat
        BY Zenon DEF TimeInv
    <2>3. /\ \A t \in triggers : t <= now + TriggerInterval => t <= now + 1 + TriggerInterval
          /\ \A t \in sends : t <= now + SendInterval => t <= now + 1 + SendInterval
          /\ nextRun <= now + RunInterval => nextRun <= now + 1 + RunInterval
        BY <1>n, <2>2, Constants
    <2> QED BY <2>1, <2>3, Zenon DEF TimerInv
<1>t. /\ now + TriggerInterval <= now + TriggerInterval
      /\ now + SendInterval <= now + SendInterval
      /\ now + RunInterval <= now + RunInterval
    BY <1>n, Constants
<1>4. CASE TriggerReport
    <2>1. /\ now + TriggerInterval \in triggers'
          /\ UNCHANGED <<now, sends, nextRun, registered>>
        BY <1>4, Zenon DEF TriggerReport
    <2> QED BY <2>1, <1>t, Zenon DEF TimerInv
<1>5. CASE ReceiveRegistrationResponse
    <2>1. /\ now + SendInterval \in sends'
          /\ \A t \in triggers : t \in triggers'
          /\ UNCHANGED <<now, nextRun>>
        BY <1>5, Zenon DEF ReceiveRegistrationResponse
    <2> QED BY <2>1, <1>t, Zenon DEF TimerInv
<1>6. CASE DoSendReports
    <2>1. /\ now + SendInterval \in sends'
          /\ UNCHANGED <<now, triggers, nextRun, registered>>
        BY <1>6, Zenon DEF DoSendReports
    <2> QED BY <2>1, <1>t, Zenon DEF TimerInv
<1>7. CASE GetTxDrop
    <2>1. /\ nextRun' = now + RunInterval
          /\ UNCHANGED <<now, triggers, sends, registered>>
        BY <1>7, Zenon DEF GetTxDrop
    <2> QED BY <2>1, <1>t, Zenon DEF TimerInv
<1> QED BY <1>2, <1>3, <1>4, <1>5, <1>6, <1>7, Zenon DEF Next

-----------------------------------------------------------------------------
(* The way of a drop.                                                      *)

\* There is a longest delay.
DelaysBounded == \E D \in Delays : \A d \in Delays : d <= D

LEMMA LongestDelay ==
    ASSUME DelaysBounded
    PROVE  Max(Delays) \in Nat /\ \A d \in Delays : d <= Max(Delays)
<1>1. PICK D \in Delays : \A d \in Delays : d <= D
    BY Zenon DEF DelaysBounded
<1>2. \A d \in Delays : D >= d
    BY <1>1, Constants, Zenon
<1>3. Max(Delays) \in Delays /\ \A d \in Delays : Max(Delays) >= d
    BY <1>2, Zenon DEF Max
<1> QED BY <1>3, Constants, Zenon

\* The calls of GetTxDrop() until the next average.
LEMMA Rounds ==
    ASSUME NEW n \in Nat, NEW c \in Nat, c < n, NEW I \in Nat
    PROVE  /\ (n - 1 - c) * I \in Nat /\ n * I \in Nat
           /\ I + (n - 1 - c) * I <= n * I
           /\ c + 1 < n => I + (n - 1 - (c + 1)) * I = (n - 1 - c) * I
<1> PICK k \in Nat : k = n - 1 - c
    OBVIOUS
<1>1. k * I \in Nat /\ n * I \in Nat /\ c * I \in Nat
    OBVIOUS
<1>2. n = k + 1 + c
    OBVIOUS
<1>3. n * I = k * I + I + c * I
    BY <1>2
<1>4. I + k * I <= n * I
    BY <1>1, <1>3
<1>5. c + 1 < n => I + (k - 1) * I = k * I
    OBVIOUS
<1>6. n - 1 - (c + 1) = k - 1
    OBVIOUS
<1> QED BY <1>1, <1>4, <1>5, <1>6, Zenon

\* The drops that are in averages.
LEMMA CountedAre ==
    /\ \A d : d \in Counted <=> \E i \in DOMAIN averages : \E r \in averages[i] : d \in r.drops
    /\ \A d : d \in Counted' <=> \E i \in DOMAIN averages' : \E r \in averages'[i] : d \in r.drops
BY DEF Counted

Stage(d) == Sampled(d) \/ Stored(d) \/ UnderWay(d) \/ Saved(d) \/ d \in Counted

\* GenerateReports(): a sampled drop is stored, and the next send is due.
LEMMA GeneratedStage ==
    ASSUME TimeInv, TimeInv', NEW k \in BOOLEAN, k, GenerateReports(k), TimerInv', registered' # {},
           UNCHANGED <<now, rows, messages, nextRun, lmVars>>, \A t \in sends : t \in sends',
           NEW d \in made, Stage(d)
    PROVE  Stage(d)'
<1>n. /\ now \in Nat /\ d.time \in Nat /\ TriggerInterval \in Nat /\ SendInterval \in Nat
      /\ \A t \in triggers : t \in Nat /\ t >= now
    BY Constants, Zenon DEF TimeInv, Drops
<1>1. PICK G : /\ Generates(G)
               /\ \A r \in G : r = [time |-> r.time, drops |-> r.drops, known |-> k]
    BY Generated, Zenon
<1>2. \A r \in G : Known(r)
    BY <1>1 DEF Known
<1>3. CASE Sampled(d)
    <2>1. PICK b \in DOMAIN m_samples : d \in m_samples[b].drops
        BY <1>3, Zenon DEF Sampled
    <2>2. PICK t \in triggers : t <= d.time + TriggerInterval
        BY <1>3, Zenon DEF Sampled
    <2>3. PICK r \in G : d \in r.drops
        BY <1>1, <2>1, Zenon DEF Generates, Of
    <2>4. r \in m_reports' /\ Known(r)
        BY <1>1, <1>2, Zenon DEF Generates
    <2>5. PICK s \in sends' : s <= now + SendInterval
        BY Zenon DEF TimerInv
    <2>6. now + SendInterval <= d.time + TriggerInterval + SendInterval
        BY <1>n, <2>2
    <2>7. ASSUME NEW x, x <= now + SendInterval, x \in Nat
          PROVE  x <= d.time + TriggerInterval + SendInterval
        BY <1>n, <2>6, <2>7
    <2>8. s \in Nat
        BY Zenon DEF TimeInv
    <2> QED BY <2>3, <2>4, <2>5, <2>7, <2>8, Zenon DEF Stage, Stored
<1>4. CASE Stored(d)
    <2>1. \A r \in m_reports : r \in m_reports'
        BY <1>1, Zenon DEF Generates
    <2> QED BY <1>4, <2>1, Zenon DEF Stage, Stored
<1>5. CASE UnderWay(d)
    BY <1>5, Zenon DEF Stage, UnderWay
<1>6. CASE Saved(d)
    BY <1>6, Zenon DEF Stage, Saved, New, NextAverage, lmVars, Way
<1>7. CASE d \in Counted
    BY <1>7, Zenon DEF Stage, Counted, lmVars
<1> QED BY <1>3, <1>4, <1>5, <1>6, <1>7, Zenon DEF Stage

\* DoSendReports(): a stored drop is under way.
LEMMA SentStage ==
    ASSUME DelaysBounded, TimeInv, DoSendReports, NEW d \in made, Stage(d)
    PROVE  Stage(d)'
<1> USE DEF ricVars, lmVars
<1>n. /\ now \in Nat /\ d.time \in Nat /\ TriggerInterval \in Nat /\ SendInterval \in Nat
      /\ \A t \in sends : t \in Nat /\ t >= now
    BY Constants, Zenon DEF TimeInv, Drops
<1>u. UNCHANGED <<triggers, nextRun, m_samples, rows, m_txDropCounter, m_lastTxDropTime, averages>>
    BY Zenon DEF DoSendReports
<1>1. PICK N : /\ messages' = messages \cup N
               /\ \A m \in N : Message(m)
               /\ \A r \in m_reports : \E m \in N : r \in m.reports
    BY SendEffect, Zenon
<1>2. CASE Sampled(d)
    BY <1>2, <1>u, Zenon DEF Stage, Sampled
<1>3. CASE Stored(d)
    <2>1. PICK r \in m_reports : d \in r.drops /\ Known(r)
        BY <1>3, Zenon DEF Stored
    <2>2. PICK t \in sends : t <= d.time + TriggerInterval + SendInterval
        BY <1>3, Zenon DEF Stored
    <2>3. PICK m \in N : r \in m.reports
        BY <1>1, Zenon
    <2>4. PICK y \in Delays : m.ts = now + y
        BY <1>1, Zenon DEF Message
    <2>5. y \in Nat /\ Max(Delays) \in Nat /\ y <= Max(Delays)
        BY LongestDelay, Constants, Zenon
    <2>6. m.ts <= d.time + TriggerInterval + SendInterval + Max(Delays)
        BY <1>n, <2>2, <2>4, <2>5
    <2> QED BY <1>1, <2>1, <2>3, <2>6, Zenon DEF Stage, UnderWay
<1>4. CASE UnderWay(d)
    BY <1>1, <1>4, Zenon DEF Stage, UnderWay
<1>5. CASE Saved(d)
    BY <1>5, <1>u, Zenon DEF Stage, Saved, New, NextAverage, Way
<1>6. CASE d \in Counted
    BY <1>6, <1>u, Zenon DEF Stage, Counted
<1> QED BY <1>2, <1>3, <1>4, <1>5, <1>6, Zenon DEF Stage

\* SaveNrUeTxDrop(): what arrives in order is new.
LEMMA SavedStage ==
    ASSUME DelaysBounded, TimeInv, AverageInv, OrderInv, TimerInv, SaveNrUeTxDrop,
           ~tied, ~overtaken', NEW d \in made, Stage(d)
    PROVE  Stage(d)'
<1> USE DEF timers, reporterVars, lmVars
<1>u. UNCHANGED <<triggers, sends, nextRun, m_samples, m_reports, m_txDropCounter,
                  m_lastTxDropTime, averages>>
    BY Zenon DEF SaveNrUeTxDrop
<1>1. PICK m : Saves(m)
    BY SaveEffect, Zenon
<1>2. /\ m \in messages /\ m.ts = now /\ messages' = messages \ {m}
      /\ \A r \in rows : r \in rows'
      /\ \A r \in m.reports : Known(r) => r \in rows'
      /\ m.sent > lastSent
    BY <1>1, Zenon DEF Saves
<1>3. CASE Sampled(d) \/ Stored(d)
    BY <1>3, <1>u, Zenon DEF Stage, Sampled, Stored
<1>4. CASE UnderWay(d)
    <2>1. PICK l \in messages :
             /\ \E r \in l.reports : d \in r.drops /\ Known(r)
             /\ l.ts <= d.time + TriggerInterval + SendInterval + Max(Delays)
        BY <1>4, Zenon DEF UnderWay
    <2>2. CASE l # m
        BY <1>2, <2>1, <2>2, Zenon DEF Stage, UnderWay
    <2>3. CASE l = m
        <3>1. PICK r \in m.reports : d \in r.drops /\ Known(r)
            BY <2>1, <2>3, Zenon
        <3>2. r.time \in Nat /\ 0 < r.time
            BY <1>2, ReportsAre, Zenon DEF TimeInv
        <3>3. \A x \in rows : x.time < r.time
            BY <1>2, Zenon DEF OrderInv
        <3>4. r.time > m_lastTxDropTime
            <4>1. CASE m_lastTxDropTime = 0
                BY <3>2, <4>1, Zenon
            <4>2. CASE \E x \in rows : x.time = m_lastTxDropTime
                <5>1. m_lastTxDropTime < r.time
                    BY <3>3, <4>2, Zenon
                <5> QED BY <5>1, <3>2, Zenon DEF TimeInv
            <4> QED BY <4>1, <4>2, Zenon DEF AverageInv
        <3>5. r \in rows' /\ New(r)'
            BY <1>2, <1>u, <3>1, <3>4, Zenon DEF New
        <3> PICK D, P, Q : /\ D = Max(Delays) /\ P = m_N * RunInterval
                           /\ Q = (m_N - 1 - m_txDropCounter) * RunInterval
            BY Zenon
        <3>6. /\ P \in Nat /\ Q \in Nat /\ RunInterval + Q <= P
            BY Rounds, Constants, Zenon DEF TimeInv
        <3>7. D \in Nat /\ d.time \in Nat /\ now \in Nat /\ nextRun \in Nat
                /\ TriggerInterval \in Nat /\ SendInterval \in Nat /\ RunInterval \in Nat
            BY LongestDelay, Constants, Zenon DEF TimeInv, Drops
        <3>8. nextRun <= now + RunInterval /\ now <= d.time + TriggerInterval + SendInterval + D
            BY <1>2, <2>1, <2>3, Zenon DEF TimerInv
        <3>9. nextRun + Q <= d.time + (TriggerInterval + SendInterval + D + P)
            BY <3>6, <3>7, <3>8
        <3>10. NextAverage' <= d.time + Way
            BY <3>9, <1>u, Zenon DEF NextAverage, Way
        <3> QED BY <3>1, <3>5, <3>10, Zenon DEF Stage, Saved, Way
    <2> QED BY <2>2, <2>3, Zenon
<1>5. CASE Saved(d)
    BY <1>2, <1>5, <1>u, Zenon DEF Stage, Saved, New, NextAverage, Way
<1>6. CASE d \in Counted
    BY <1>6, <1>u, Zenon DEF Stage, Counted
<1> QED BY <1>3, <1>4, <1>5, <1>6, Zenon DEF Stage

\* GetTxDrop(): one call less to wait for, or the average.
LEMMA AveragedStage ==
    ASSUME TimeInv, GetTxDrop, NEW d \in made, Stage(d)
    PROVE  Stage(d)'
<1> USE DEF reporterVars, ricVars
<1>u. /\ UNCHANGED <<triggers, sends, m_samples, m_reports, messages, rows>>
      /\ nextRun = now /\ nextRun' = now + RunInterval
    BY Zenon DEF GetTxDrop
<1>1. CASE Sampled(d) \/ Stored(d) \/ UnderWay(d)
    BY <1>1, <1>u, Zenon DEF Stage, Sampled, Stored, UnderWay
<1>2. CASE /\ m_txDropCounter + 1 < m_N
           /\ m_txDropCounter' = m_txDropCounter + 1
           /\ UNCHANGED <<m_lastTxDropTime, averages>>
    <2>1. CASE Saved(d)
        <3>1. RunInterval + (m_N - 1 - (m_txDropCounter + 1)) * RunInterval
                = (m_N - 1 - m_txDropCounter) * RunInterval
            BY <1>2, Rounds, Constants DEF TimeInv
        <3> PICK P, Q : /\ P = (m_N - 1 - (m_txDropCounter + 1)) * RunInterval
                        /\ Q = (m_N - 1 - m_txDropCounter) * RunInterval
            BY Zenon
        <3>2. now \in Nat /\ RunInterval \in Nat /\ Q \in Nat
            BY Rounds, Constants, Zenon DEF TimeInv
        <3>3. P \in Int
            BY Constants DEF TimeInv
        <3>4. now + RunInterval + P = now + Q
            BY <3>1, <3>2, <3>3
        <3>5. NextAverage' = NextAverage
            BY <1>2, <1>u, <3>4, Zenon DEF NextAverage
        <3> QED BY <1>2, <1>u, <2>1, <3>5, Zenon DEF Stage, Saved, New, Way
    <2>2. CASE d \in Counted
        BY <1>2, <2>2, Zenon DEF Stage, Counted
    <2> QED BY <1>1, <2>1, <2>2, Zenon DEF Stage
<1>3. ASSUME NEW fresh, Averages(fresh) PROVE Stage(d)'
    <2> PICK s, T : s = averages' /\ T = SUBSET Report
        BY Zenon
    <2>1. fresh \in T /\ averages \in Seq(T)
        BY <1>3, ReportsAre, Zenon DEF TimeInv, Averages
    <2>2. \/ fresh = {} /\ s = averages
          \/ s = Append(averages, fresh)
        BY <1>3, Zenon DEF Averages
    <2>3. CASE Saved(d)
        <3>1. PICK r \in fresh : d \in r.drops
            BY <1>3, <2>3, Zenon DEF Saved, Averages
        <3>2. PICK n : n \in DOMAIN s /\ s[n] = fresh
            BY <2>1, <2>2, <3>1, Appended
        <3> QED BY <3>1, <3>2, CountedAre, Zenon DEF Stage
    <2>4. CASE d \in Counted
        <3>1. \A i \in DOMAIN averages : i \in DOMAIN s /\ s[i] = averages[i]
            BY <2>1, <2>2, Appended
        <3>2. d \in Counted'
            BY <2>4, <3>1, CountedAre, Zenon
        <3> QED BY <3>2, Zenon DEF Stage
    <2> QED BY <1>1, <2>3, <2>4, Zenon DEF Stage
<1> QED BY <1>2, <1>3, AverageEffect, Zenon

\* Every step brings the drops of a registered node on.
LEMMA StageStep ==
    ASSUME DelaysBounded, TimeInv, TimeInv', AverageInv, OrderInv, TimerInv, TimerInv', StageInv,
           [Next]_vars
    PROVE  StageInv'
<1> USE DEF timers, reporterVars, ricVars, lmVars
<1>s. ASSUME \A d \in made : Stage(d) => Stage(d)', UNCHANGED <<made, registered>>,
             ~tied' => ~tied, ~overtaken' => ~overtaken
      PROVE  StageInv'
    BY <1>s, Zenon DEF StageInv, Stage
<1>1. ASSUME UNCHANGED <<timers, registered, reporterVars, messages, ricVars, lmVars>>
      PROVE  StageInv'
    <2>1. \A d \in made : Stage(d) => Stage(d)'
        BY <1>1, Zenon DEF Stage, Sampled, Stored, UnderWay, Saved, New, NextAverage, Way, Counted
    <2> QED BY <1>1, <2>1, <1>s, Zenon
<1>2. CASE UNCHANGED vars \/ Advance
    BY <1>1, <1>2, Zenon DEF vars, Advance
<1>3. ASSUME NEW b \in Bearers, AddTxDrop(b) PROVE StageInv'
    <2>1. PICK drop : Adds(b, drop)
        BY <1>3, DropEffect, ZenonT(30) DEF TimeInv
    <2>2. ~tied' => ~tied
        BY <1>3, DropEffect, Zenon DEF TimeInv
    <2>3. UNCHANGED <<timers, registered, m_reports, messages, ricVars, lmVars>>
        BY <1>3, Zenon DEF AddTxDrop
    <2>4. ASSUME NEW d \in made, Stage(d) PROVE Stage(d)'
        <3>1. CASE Sampled(d)
            <4>1. PICK c \in DOMAIN m_samples : d \in m_samples[c].drops
                BY <3>1, Zenon DEF Sampled
            <4>2. c \in DOMAIN m_samples' /\ d \in m_samples'[c].drops
                BY <2>1, <4>1, Zenon DEF Adds
            <4> QED BY <2>3, <3>1, <4>2, Zenon DEF Stage, Sampled
        <3>2. CASE Stored(d) \/ UnderWay(d) \/ Saved(d) \/ d \in Counted
            BY <2>3, <3>2, Zenon DEF Stage, Stored, UnderWay, Saved, New, NextAverage, Way, Counted
        <3> QED BY <2>4, <3>1, <3>2, Zenon DEF Stage
    <2>5. Stage(drop)'
        <3>1. drop.time = now /\ b \in DOMAIN m_samples' /\ drop \in m_samples'[b].drops
            BY <2>1, Zenon DEF Adds
        <3> QED BY <2>3, <3>1, Zenon DEF TimerInv, Stage, Sampled
    <2>6. made' = made \cup {drop}
        BY <2>1, Zenon DEF Adds
    <2> QED BY <2>2, <2>3, <2>4, <2>5, <2>6, Zenon DEF StageInv, Stage
<1>4. CASE TriggerReport
    <2> PICK k \in BOOLEAN : k = (registered # {})
        BY Zenon
    <2>1. /\ GenerateReports(k)
          /\ UNCHANGED <<now, sends, nextRun, registered, messages, ricVars, lmVars, made, tied>>
        BY <1>4, Zenon DEF TriggerReport
    <2>2. CASE registered = {}
        BY <2>1, <2>2, Zenon DEF StageInv
    <2>3. CASE registered # {}
        <3>1. \A d \in made : Stage(d) => Stage(d)'
            BY <2>1, <2>3, GeneratedStage, Zenon
        <3> QED BY <2>1, <3>1, <1>s, Zenon
    <2> QED BY <2>2, <2>3, Zenon
<1>5. CASE ReceiveRegistrationResponse
    <2> PICK k \in BOOLEAN : k = TRUE
        BY Zenon
    <2>1. /\ registered' = registered \cup {now} /\ \A t \in sends : t \in sends'
          /\ UNCHANGED <<now, nextRun, messages, ricVars, lmVars, made, tied>>
        BY <1>5, Zenon DEF ReceiveRegistrationResponse
    <2>2. GenerateReports(k) \/ UNCHANGED <<m_samples, m_reports, triggers>>
        BY <1>5, Zenon DEF ReceiveRegistrationResponse
    <2>3. ASSUME NEW d \in made, Stage(d) PROVE Stage(d)'
        <3>1. CASE GenerateReports(k)
            <4>1. registered' # {}
                BY <2>1, Zenon
            <4> QED BY <2>1, <2>3, <3>1, <4>1, GeneratedStage, Zenon
        <3>2. CASE UNCHANGED <<m_samples, m_reports, triggers>>
            <4>1. CASE Sampled(d) \/ Stored(d)
                BY <2>1, <3>2, <4>1, Zenon DEF Stage, Sampled, Stored
            <4>2. CASE UnderWay(d) \/ Saved(d) \/ d \in Counted
                BY <2>1, <4>2, Zenon DEF Stage, UnderWay, Saved, New, NextAverage, Way, Counted
            <4> QED BY <2>3, <4>1, <4>2, Zenon DEF Stage
        <3> QED BY <2>2, <3>1, <3>2, Zenon
    <2>4. \A d \in made : \A t \in registered' : t < d.time => t \in registered
        <3>1. \A d \in made : d.time \in Nat /\ d.time <= now /\ now \in Nat
            BY Zenon DEF TimeInv, Drops
        <3>2. \A d \in made : ~(now < d.time)
            BY <3>1
        <3> QED BY <2>1, <3>2, Zenon
    <2> QED BY <2>1, <2>3, <2>4, Zenon DEF StageInv, Stage
<1>6. CASE DoSendReports
    <2>1. \A d \in made : Stage(d) => Stage(d)'
        BY <1>6, SentStage, Zenon
    <2>2. UNCHANGED <<made, registered, tied, overtaken>>
        BY <1>6, Zenon DEF DoSendReports
    <2> QED BY <2>1, <2>2, <1>s, Zenon
<1>7. CASE SaveNrUeTxDrop
    <2>1. UNCHANGED <<made, registered, tied>>
        BY <1>7, Zenon DEF SaveNrUeTxDrop
    <2>2. ~overtaken' => ~overtaken
        BY <1>7, SaveEffect, Zenon DEF Saves
    <2>3. ASSUME ~tied, ~overtaken' PROVE \A d \in made : Stage(d) => Stage(d)'
        BY <1>7, <2>3, SavedStage, Zenon
    <2> QED BY <2>1, <2>2, <2>3, Zenon DEF StageInv, Stage
<1>8. CASE GetTxDrop
    <2>1. \A d \in made : Stage(d) => Stage(d)'
        BY <1>8, AveragedStage, Zenon
    <2>2. UNCHANGED <<made, registered, tied, overtaken>>
        BY <1>8, Zenon DEF GetTxDrop
    <2> QED BY <2>1, <2>2, <1>s, Zenon
<1> QED BY <1>2, <1>3, <1>4, <1>5, <1>6, <1>7, <1>8, Zenon DEF Next

\* What a registered node dropped is in an average of GetTxDrop() within the
\* longest way, for any intervals and any bounded delay, as long as no drop
\* followed a report of its own instant and no message overtook another: every
\* timer on the way is set again within its interval, GenerateReports(),
\* DoSendReports() and GetTxDrop() each pass on all that has come to them, and
\* a row that arrives in order is newer than every row that was averaged.
THEOREM DropsCountInTime ==
    ASSUME DelaysBounded
    PROVE  Spec => []CountedInTime
<1> DEFINE Inv == TimeInv /\ PartInv /\ AverageInv /\ OrderInv /\ TimerInv /\ StageInv
<1>1. Init => Inv
    <2> SUFFICES ASSUME Init PROVE OrderInv /\ TimerInv /\ StageInv
        BY CountInit, Zenon
    <2>1. OrderInv
        BY Zenon DEF Init, OrderInv, EmptyMap
    <2>2. TimerInv
        <3>1. \A t \in 1..TriggerInterval : t <= 1 + TriggerInterval
            BY Constants
        <3>2. \A t \in 1..RunInterval : t <= 1 + RunInterval
            BY Constants
        <3> QED BY <3>1, <3>2, Zenon DEF Init, TimerInv
    <2>3. StageInv
        BY Zenon DEF Init, StageInv
    <2> QED BY <2>1, <2>2, <2>3, Zenon
<1>2. Inv /\ [Next]_vars => Inv'
    <2> SUFFICES ASSUME Inv, [Next]_vars PROVE Inv'
        BY Zenon
    <2>1. TimeInv' /\ PartInv' /\ AverageInv'
        BY TimeStep, PartStep, AverageStep, Zenon
    <2>2. OrderInv' /\ TimerInv'
        BY OrderStep, TimerStep, Zenon
    <2>3. StageInv'
        BY <2>1, <2>2, StageStep, Zenon
    <2> QED BY <2>1, <2>2, <2>3, Zenon
<1>3. Inv => CountedInTime
    <2> SUFFICES ASSUME Inv, ~tied, ~overtaken, NEW d \in made, NEW t \in registered,
                        t < d.time, now > d.time + Way
                 PROVE  d \in Counted
        BY Zenon DEF CountedInTime
    <2> PICK D, P, Q : /\ D = Max(Delays) /\ P = m_N * RunInterval
                       /\ Q = (m_N - 1 - m_txDropCounter) * RunInterval
        BY Zenon
    <2>1. /\ D \in Nat /\ P \in Nat /\ Q \in Nat
          /\ now \in Nat /\ d.time \in Nat /\ nextRun \in Nat /\ nextRun >= now
          /\ TriggerInterval \in Nat /\ SendInterval \in Nat
        BY LongestDelay, Rounds, Constants, Zenon DEF TimeInv, Drops
    <2>2. now > d.time + (TriggerInterval + SendInterval + D + P)
        BY Zenon DEF Way
    <2>3. \A x \in Nat : x >= now => /\ ~(x <= d.time + TriggerInterval)
                                     /\ ~(x <= d.time + TriggerInterval + SendInterval)
                                     /\ ~(x <= d.time + TriggerInterval + SendInterval + D)
        BY <2>1, <2>2
    <2>4. ~Sampled(d) /\ ~Stored(d) /\ ~UnderWay(d)
        BY <2>3, Zenon DEF TimeInv, Sampled, Stored, UnderWay
    <2>5. ~(nextRun + Q <= d.time + (TriggerInterval + SendInterval + D + P))
        BY <2>1, <2>2
    <2>6. ~Saved(d)
        BY <2>5, Zenon DEF Saved, NextAverage, Way
    <2> QED BY <2>4, <2>6, Zenon DEF StageInv
<1> QED BY <1>1, <1>2, <1>3, PTL DEF Spec
=============================================================================
