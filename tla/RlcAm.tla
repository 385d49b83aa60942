------------------------------- MODULE RlcAm -------------------------------
(***************************************************************************)
(* One direction of an acknowledged-mode RLC bearer: the transmitting side *)
(* of an NrRlcAm, the receiving side of its peer, and between them the MAC *)
(* layers, which lose PDUs and let one overtake another (HARQ).            *)
(*                                                                         *)
(* Sizes are in units of data; headers are left out. A timer that runs may *)
(* expire at any time, so that nothing depends on the values of the timers.*)
(* An entity transmits when the scheduler, which knows of its buffers only *)
(* what the buffer status reports say, gives it an opportunity.            *)
(***************************************************************************)
EXTENDS Naturals, Sequences, FiniteSets, FiniteSetsExt, Maps

CONSTANTS
    Modulus,          \* of sequence numbers: 1024
    WindowSize,       \* m_windowSize: 512
    FirstSn,          \* the bearer has carried that many PDUs before
    SduSizes,
    MaxTxBufferSize,  \* the attribute
    Rooms,            \* the sizes of transmission opportunities
    NackRooms,        \* the number of NACKs that fit in a STATUS PDU: one at least
    MaxOvertaken,     \* how many PDUs may overtake one
    MaxSdus,          \* bound: the SDUs offered
    MaxLosses,        \* bound: the PDUs lost
    MaxInFlight       \* bound: the data PDUs under way

ASSUME RlcAssumption ==
    /\ {Modulus, WindowSize, MaxInFlight} \subseteq Nat \ {0}
    /\ Modulus = 2 * WindowSize
    /\ {FirstSn, MaxTxBufferSize, MaxOvertaken, MaxSdus, MaxLosses} \subseteq Nat
    /\ SduSizes \subseteq Nat \ {0} /\ Rooms \subseteq Nat \ {0} /\ Rooms # {}
    /\ NackRooms \subseteq Nat \ {0} /\ NackRooms # {}

VARIABLES
    \* transmitting side
    m_txonBuffer,   \* segments: [data, first, last], of which the flags are the status tag
    m_txedBuffer, m_retxBuffer,  \* sequence number -> PDU
    m_vtA, m_vtS, m_pollSn,
    m_pollRetransmitTimer, m_pollRetransmitTimerJustExpired, m_bsrTimer,
    lc,             \* NrMacSchedulerLC: the queue sizes [tx, retx] it takes for granted
    \* receiving side
    m_rxonBuffer,   \* sequence number -> PDU
    m_vrR, m_vrX, m_vrMs, m_vrH,
    m_reorderingTimer, m_statusProhibitTimer, m_statusPduRequested,
    statusReported, \* the receiver's scheduler knows of a STATUS PDU
    reassembly,     \* [state, keepS0, sdusBuffer, expected, out]; out: what PDCP got
    \* MAC layers
    dataPdus,       \* [pdu, poll]
    statusPdus,     \* [ackSn, nacks], as a set
    losses,
    \* history
    offered,        \* the number of SDUs offered
    accepted,
    pdus,           \* the number of PDUs built
    aborted         \* the assertion that failed, or "no"

txVars == <<m_txonBuffer, m_txedBuffer, m_retxBuffer, m_vtA, m_vtS, m_pollSn,
            m_pollRetransmitTimer, m_pollRetransmitTimerJustExpired, m_bsrTimer, lc>>
rxVars == <<m_rxonBuffer, m_vrR, m_vrX, m_vrMs, m_vrH, m_reorderingTimer,
            m_statusProhibitTimer, m_statusPduRequested, statusReported, reassembly>>
macVars == <<dataPdus, statusPdus, losses>>
history == <<offered, accepted, pdus, aborted>>
vars == <<txVars, rxVars, macVars, history>>

-----------------------------------------------------------------------------
(* Sequence numbers                                                        *)

Sn == 0..Modulus - 1
Plus(sn, k) == (sn + k) % Modulus

\* operator> and the like compare the distances from the modulus base, which
\* is VT(A) on the transmitting and VR(R) on the receiving side.
Distance(base, sn) == (sn + Modulus - base) % Modulus

m_vtMs_OneMore == Plus(m_vtA, WindowSize + 1)
m_vtMs == Plus(m_vtA, WindowSize)

\* The first number from sn on of which buffer has no PDU.
FirstMissing(buffer, sn) ==
    Plus(sn, Min({k \in Sn : Plus(sn, k) \notin DOMAIN buffer}))

-----------------------------------------------------------------------------
(* Transmitting side. A PDU is [n, sdus, first, last]: its number among    *)
(* all PDUs, the data of its SDUs or segments, and the framing info.       *)

\* Sizes count units, of which none is twice in the buffers of a side.
Units(datas) == UNION {Range(datas[i]) : i \in DOMAIN datas}
Size(segments) == Cardinality(Units([i \in DOMAIN segments |-> segments[i].data]))
PduSize(pdu) == Cardinality(Units(pdu.sdus))
BufferSize(buffer) == Cardinality(UNION {Units(buffer[sn].sdus) : sn \in DOMAIN buffer})

\* DoTransmitBufferStatusReport() and NrMacSchedulerLC::Update(). The size to
\* retransmit includes what is only waiting to be acknowledged.
BufferStatus(txon, txed, retx) ==
    IF txon = <<>> /\ DOMAIN txed = {} /\ DOMAIN retx = {} THEN lc
    ELSE [tx |-> Size(txon), retx |-> BufferSize(txed) + BufferSize(retx)]

Sdu(n, size) == [i \in 1..size |-> <<n, i>>]

Fits_NotYetFull(size) == Size(m_txonBuffer) < MaxTxBufferSize \/ MaxTxBufferSize = 0
Fits(size) == Size(m_txonBuffer) + size <= MaxTxBufferSize \/ MaxTxBufferSize = 0

\* DoTransmitPdcpPdu()
TransmitPdcpPdu(size) ==
    LET sdu == Sdu(offered + 1, size) IN
    /\ offered < MaxSdus
    /\ offered' = offered + 1
    /\ IF Fits(size)
       THEN /\ m_txonBuffer' = Append(m_txonBuffer, [data |-> sdu, first |-> TRUE, last |-> TRUE])
            /\ accepted' = Append(accepted, sdu)
       ELSE UNCHANGED <<m_txonBuffer, accepted>>
    /\ lc' = BufferStatus(m_txonBuffer', m_txedBuffer, m_retxBuffer)
    /\ m_bsrTimer' = TRUE
    /\ UNCHANGED <<m_txedBuffer, m_retxBuffer, m_vtA, m_vtS, m_pollSn, m_pollRetransmitTimer,
                   m_pollRetransmitTimerJustExpired, rxVars, macVars, pdus, aborted>>

\* The two parts of a segment of which n units are taken, with their tags.
Taken_KeepsTag(s, n) == [data |-> SubSeq(s.data, 1, n), first |-> s.first, last |-> s.last]
Taken(s, n) == [data |-> SubSeq(s.data, 1, n), first |-> s.first, last |-> FALSE]
Rest(s, n) == [data |-> SubSeq(s.data, n + 1, Len(s.data)), first |-> FALSE, last |-> s.last]

\* The data field of a new PDU: as many segments of m_txonBuffer as there is
\* room for, and a part of the next one.
Whole(room) == Max({k \in 0..Len(m_txonBuffer) : Size(SubSeq(m_txonBuffer, 1, k)) <= room})
Field(room) ==
    LET k == Whole(room)
        taken == SubSeq(m_txonBuffer, 1, k)
        left == room - Size(taken)
    IN  IF left = 0 \/ k = Len(m_txonBuffer)
        THEN [taken |-> taken, rest |-> SubSeq(m_txonBuffer, k + 1, Len(m_txonBuffer))]
        ELSE [taken |-> Append(taken, Taken(m_txonBuffer[k + 1], left)),
              rest |-> <<Rest(m_txonBuffer[k + 1], left)>>
                         \o SubSeq(m_txonBuffer, k + 2, Len(m_txonBuffer))]

\* NrMacSchedulerLCG::AssignedData(): the order is retransmissions, new data.
AssignedData(room) ==
    IF lc.retx > 0 /\ room >= lc.retx THEN [lc EXCEPT !.retx = 0]
    ELSE [lc EXCEPT !.tx = IF room >= @ THEN 0 ELSE @ - room]

\* The polling bit: POLL_SN and the timer.
Poll(poll) ==
    /\ m_pollRetransmitTimerJustExpired' = (m_pollRetransmitTimerJustExpired /\ ~poll)
    /\ m_pollSn' = IF poll THEN Plus(m_vtS', Modulus - 1) ELSE m_pollSn
    /\ m_pollRetransmitTimer' = (m_pollRetransmitTimer \/ poll)

Outstanding == {sn \in Sn : Distance(m_vtA, sn) < Distance(m_vtA, m_vtS)}
Stalled == Distance(m_vtA, m_vtS) >= WindowSize

\* DoNotifyTxOpportunity(), of the first PDU of m_retxBuffer.
Retransmit(room) ==
    LET waiting == DOMAIN m_retxBuffer \cap Outstanding
        sn == Plus(m_vtA, Min({Distance(m_vtA, r) : r \in waiting}))
        pdu == m_retxBuffer[sn]
        poll == \/ m_txonBuffer = <<>> /\ DOMAIN m_retxBuffer = {sn}
                \/ Stalled
                \/ m_pollRetransmitTimerJustExpired
    IN
    /\ DOMAIN m_retxBuffer # {}
    /\ IF waiting = {}
       THEN /\ aborted' = "no PDU considered for retx found"
            /\ UNCHANGED <<m_txedBuffer, m_retxBuffer, m_pollSn, m_pollRetransmitTimer,
                           m_pollRetransmitTimerJustExpired, dataPdus, m_vtS>>
       ELSE /\ UNCHANGED <<aborted, m_vtS>>
            /\ IF PduSize(pdu) <= room
               THEN /\ Poll(poll)
                    /\ dataPdus' = Append(dataPdus, [pdu |-> pdu, poll |-> poll])
                    /\ m_txedBuffer' = Put(m_txedBuffer, sn, pdu)
                    /\ m_retxBuffer' = Restrict(m_retxBuffer, DOMAIN m_retxBuffer \ {sn})
               ELSE UNCHANGED <<m_txedBuffer, m_retxBuffer, m_pollSn, m_pollRetransmitTimer,
                                m_pollRetransmitTimerJustExpired, dataPdus>>
    /\ UNCHANGED <<m_txonBuffer, pdus>>

\* DoNotifyTxOpportunity(), of new data. Every new PDU polls: m_pollPdu is 1.
TransmitNew(room) ==
    LET field == Field(room)
        pdu == [n |-> FirstSn + pdus,
                sdus |-> [i \in DOMAIN field.taken |-> field.taken[i].data],
                first |-> Head(field.taken).first, last |-> field.taken[Len(field.taken)].last]
    IN
    /\ DOMAIN m_retxBuffer = {} /\ m_txonBuffer # <<>> /\ m_vtS # m_vtMs
    /\ m_txonBuffer' = field.rest
    /\ m_vtS' = Plus(m_vtS, 1)
    /\ Poll(TRUE)
    /\ m_txedBuffer' = Put(m_txedBuffer, m_vtS, pdu)
    /\ dataPdus' = Append(dataPdus, [pdu |-> pdu, poll |-> TRUE])
    /\ pdus' = pdus + 1
    /\ UNCHANGED <<m_retxBuffer, aborted>>

\* DoNotifyTxOpportunity() without data, or with a full window.
NoTransmission ==
    /\ DOMAIN m_retxBuffer = {} /\ (m_txonBuffer = <<>> \/ m_vtS = m_vtMs)
    /\ UNCHANGED <<m_txonBuffer, m_txedBuffer, m_retxBuffer, m_vtS, m_pollSn,
                   m_pollRetransmitTimer, m_pollRetransmitTimerJustExpired, dataPdus, pdus, aborted>>

\* The scheduler serves the bearer as long as it takes it for active.
NotifyTxOpportunity(room) ==
    /\ lc.tx + lc.retx > 0
    /\ Len(dataPdus) < MaxInFlight
    /\ lc' = AssignedData(room)
    /\ Retransmit(room) \/ TransmitNew(room) \/ NoTransmission
    /\ UNCHANGED <<m_vtA, m_bsrTimer, rxVars, statusPdus, losses, offered, accepted>>

\* The buffers after the PDUs sns, which wait for their acknowledgement, are
\* moved to the retransmission buffer.
MovedBuffers_Copied(sns) ==
    [txed |-> m_txedBuffer,
     retx |-> [sn \in DOMAIN m_retxBuffer \cup sns |->
                 IF sn \in sns THEN m_txedBuffer[sn] ELSE m_retxBuffer[sn]]]
MovedBuffers(sns) ==
    [txed |-> Restrict(m_txedBuffer, DOMAIN m_txedBuffer \ sns),
     retx |-> [sn \in DOMAIN m_retxBuffer \cup sns |->
                 IF sn \in sns THEN m_txedBuffer[sn] ELSE m_retxBuffer[sn]]]

\* Nothing else can be sent: what is not acknowledged is considered for
\* retransmission.
NothingElseToSend_IgnoresWindow == m_txonBuffer = <<>> /\ DOMAIN m_retxBuffer = {}
NothingElseToSend ==
    (m_txonBuffer = <<>> /\ DOMAIN m_retxBuffer = {}) \/ m_vtS = m_vtMs

\* ExpirePollRetransmitTimer()
ExpirePollRetransmitTimer ==
    LET moved == MovedBuffers(IF NothingElseToSend THEN DOMAIN m_txedBuffer \cap Outstanding
                              ELSE {}) IN
    /\ m_pollRetransmitTimer
    /\ m_pollRetransmitTimer' = FALSE
    /\ m_pollRetransmitTimerJustExpired' = TRUE
    /\ m_txedBuffer' = moved.txed /\ m_retxBuffer' = moved.retx
    /\ lc' = BufferStatus(m_txonBuffer, m_txedBuffer', m_retxBuffer')
    /\ UNCHANGED <<m_txonBuffer, m_vtA, m_vtS, m_pollSn, m_bsrTimer, rxVars, macVars, history>>

\* ExpireBsrTimer()
ExpireBsrTimer ==
    /\ m_bsrTimer
    /\ m_bsrTimer' = (m_txonBuffer # <<>> \/ DOMAIN m_txedBuffer \cup DOMAIN m_retxBuffer # {})
    /\ lc' = BufferStatus(m_txonBuffer, m_txedBuffer, m_retxBuffer)
    /\ UNCHANGED <<m_txonBuffer, m_txedBuffer, m_retxBuffer, m_vtA, m_vtS, m_pollSn,
                   m_pollRetransmitTimer, m_pollRetransmitTimerJustExpired,
                   rxVars, macVars, history>>

\* The numbers that a STATUS PDU is about: VT(A) <= sn < ACK_SN, and sn < VT(S).
Reported_AllSent(s) == Outstanding
Reported(s) == {sn \in Outstanding : Distance(m_vtA, sn) < Distance(m_vtA, s.ackSn)}

\* DoReceivePdu(), of a control PDU. There is no buffer status report.
ReceiveStatus(s) ==
    LET nacked == Reported(s) \cap s.nacks
        acked == Reported(s) \ s.nacks
        moved == MovedBuffers(nacked \cap DOMAIN m_txedBuffer)
    IN
    /\ s \in statusPdus
    /\ statusPdus' = statusPdus \ {s}
    /\ m_pollRetransmitTimer' = (m_pollRetransmitTimer /\ m_pollSn \notin Reported(s))
    /\ m_txedBuffer' = Restrict(moved.txed, DOMAIN moved.txed \ acked)
    /\ m_retxBuffer' = Restrict(moved.retx, DOMAIN moved.retx \ acked)
    /\ m_vtA' = Plus(m_vtA, Min({Distance(m_vtA, sn) : sn \in nacked} \cup {Cardinality(Reported(s))}))
    /\ aborted' = IF \/ ~(nacked \subseteq DOMAIN m_retxBuffer')
                     \/ acked \cap DOMAIN m_txedBuffer \cap DOMAIN m_retxBuffer # {}
                  THEN "retxBuffer" ELSE "no"
    /\ UNCHANGED <<m_txonBuffer, m_vtS, m_pollSn, m_pollRetransmitTimerJustExpired, m_bsrTimer,
                   lc, rxVars, dataPdus, losses, offered, accepted, pdus>>

-----------------------------------------------------------------------------
(* Receiving side                                                          *)

IsInsideReceivingWindow(vrR, sn) == Distance(vrR, sn) < WindowSize

\* What can be delivered or kept, of a PDU that is expected and of another one.
\* There is no other one in acknowledged mode, which delivers in sequence.
PartsInSequence(r, sdus) ==
    IF r.state = "WAITING_SI_SF" THEN <<r.keepS0 \o Head(sdus)>> \o Tail(sdus) ELSE sdus
PartsAfterLoss(pdu, sdus) == IF pdu.first THEN sdus ELSE Tail(sdus)

\* ReassembleAndDeliver(), of one PDU, as a function of the reassembly. A PDU
\* whose framing info does not fit the state is an error that is only logged.
ReassembleAndDeliver(r, pdu) ==
    LET lost == pdu.n % Modulus # r.expected
        sdus == r.sdusBuffer \o pdu.sdus
        parts == IF lost THEN PartsAfterLoss(pdu, sdus) ELSE PartsInSequence(r, sdus)
        keeps == ~pdu.last /\ parts # <<>>
    IN  IF ~lost /\ pdu.first = (r.state = "WAITING_SI_SF")
        THEN [r EXCEPT !.sdusBuffer = sdus, !.expected = Plus(@, 1)]
        ELSE [state |-> IF keeps THEN "WAITING_SI_SF" ELSE "WAITING_S0_FULL",
              keepS0 |-> IF keeps THEN parts[Len(parts)] ELSE <<>>,
              sdusBuffer |-> <<>>,
              expected |-> Plus(pdu.n, 1),
              out |-> r.out \o (IF keeps THEN SubSeq(parts, 1, Len(parts) - 1) ELSE parts)]

\* The same, of PDUs in sequence.
Reassembled(run) ==
    MapThenFoldSet(LAMBDA pdu, r : ReassembleAndDeliver(r, pdu), reassembly,
                   LAMBDA i : run[i], Max, DOMAIN run)

\* The PDUs of buffer from VR(R) on, up to the first that is missing.
InSequence(buffer) ==
    [i \in 1..Distance(m_vrR, FirstMissing(buffer, m_vrR)) |-> buffer[Plus(m_vrR, i - 1)]]

\* The reordering timer after a PDU was placed in the reception buffer.
Reordering(vrR, vrH) ==
    LET runs == /\ m_reorderingTimer
                /\ m_vrX # vrR
                /\ IsInsideReceivingWindow(vrR, m_vrX) \/ m_vrX = Plus(vrR, WindowSize)
        starts == ~runs /\ Distance(vrR, vrH) > 0
    IN  /\ m_reorderingTimer' = (runs \/ starts)
        /\ m_vrX' = IF starts THEN vrH ELSE m_vrX

\* DoReceivePdu(), of a data PDU: what becomes of the PDU.
Place(pdu) ==
    LET sn == pdu.n % Modulus
        buffer == IF sn \in DOMAIN m_rxonBuffer THEN m_rxonBuffer ELSE Put(m_rxonBuffer, sn, pdu)
        run == IF sn = m_vrR THEN InSequence(buffer) ELSE <<>>
    IN  IF IsInsideReceivingWindow(m_vrR, sn)
        THEN /\ m_vrH' = IF Distance(m_vrR, sn) >= Distance(m_vrR, m_vrH) THEN Plus(sn, 1) ELSE m_vrH
             /\ m_vrMs' = FirstMissing(buffer, m_vrMs)
             /\ m_vrR' = Plus(m_vrR, Len(run))
             /\ m_rxonBuffer' = Restrict(buffer, DOMAIN buffer \ {run[i].n % Modulus : i \in DOMAIN run})
             /\ reassembly' = Reassembled(run)
             /\ Reordering(m_vrR', m_vrH')
        ELSE UNCHANGED <<m_rxonBuffer, m_vrR, m_vrX, m_vrMs, m_vrH, m_reorderingTimer, reassembly>>

\* What is under way, without the i-th PDU.
Without(s, i) == SubSeq(s, 1, i - 1) \o SubSeq(s, i + 1, Len(s))

\* The i-th PDU under way arrives. HARQ delays a PDU by less than the time in
\* which a window of PDUs is sent: one of the next window does not overtake it.
ReceiveData(i) ==
    /\ i <= Len(dataPdus)
    /\ \A j \in 1..i - 1 : dataPdus[i].pdu.n < dataPdus[j].pdu.n + WindowSize
    /\ dataPdus' = Without(dataPdus, i)
    /\ m_statusPduRequested' = (m_statusPduRequested \/ dataPdus[i].poll)
    /\ statusReported' = (statusReported \/ (dataPdus[i].poll /\ ~m_statusProhibitTimer))
    /\ Place(dataPdus[i].pdu)
    /\ UNCHANGED <<m_statusProhibitTimer, txVars, statusPdus, losses, history>>

\* ExpireReorderingTimer(). There is no buffer status report.
ExpireReorderingTimer ==
    /\ m_reorderingTimer
    /\ m_vrMs' = FirstMissing(m_rxonBuffer, m_vrX)
    /\ m_reorderingTimer' = (Distance(m_vrR, m_vrH) > Distance(m_vrR, m_vrMs'))
    /\ m_vrX' = IF m_reorderingTimer' THEN m_vrH ELSE m_vrX
    /\ m_statusPduRequested' = TRUE
    /\ UNCHANGED <<m_rxonBuffer, m_vrR, m_vrH, m_statusProhibitTimer, statusReported, reassembly,
                   txVars, macVars, history>>

\* ExpireStatusProhibitTimer(), which does nothing. The prohibit time is longer
\* than HARQ takes: STATUS PDUs do not overtake each other.
ExpireStatusProhibitTimer ==
    /\ m_statusProhibitTimer
    /\ statusPdus = {}
    /\ m_statusProhibitTimer' = FALSE
    /\ UNCHANGED <<m_rxonBuffer, m_vrR, m_vrX, m_vrMs, m_vrH, m_reorderingTimer,
                   m_statusPduRequested, statusReported, reassembly, txVars, macVars, history>>

\* The numbers below VR(MS) that are missing, and those with fewer than room
\* missing before them: the NACKs that fit.
Missing == {sn \in Sn \ DOMAIN m_rxonBuffer : Distance(m_vrR, sn) < Distance(m_vrR, m_vrMs)}
Nacks(room) ==
    {sn \in Missing :
        Cardinality({m \in Missing : Distance(m_vrR, m) < Distance(m_vrR, sn)}) < room}

\* ACK_SN: the first number that is missing and not reported so, or VR(MS).
AckSn(room) ==
    Plus(m_vrR, Min({Distance(m_vrR, sn) : sn \in (Missing \ Nacks(room)) \cup {m_vrMs}}))

\* DoNotifyTxOpportunity(), of a STATUS PDU. An opportunity comes of a report
\* of it or of data in the other direction.
TransmitStatus(room) ==
    /\ m_statusPduRequested /\ ~m_statusProhibitTimer
    /\ statusPdus' = statusPdus \cup {[ackSn |-> AckSn(room), nacks |-> Nacks(room)]}
    /\ m_statusPduRequested' = FALSE
    /\ m_statusProhibitTimer' = TRUE
    /\ statusReported' = FALSE
    /\ UNCHANGED <<m_rxonBuffer, m_vrR, m_vrX, m_vrMs, m_vrH, m_reorderingTimer, reassembly,
                   txVars, dataPdus, losses, history>>

-----------------------------------------------------------------------------

\* A PDU fails in all its HARQ transmissions.
Lose ==
    /\ losses < MaxLosses
    /\ losses' = losses + 1
    /\ \/ /\ \E i \in DOMAIN dataPdus : dataPdus' = Without(dataPdus, i)
          /\ UNCHANGED statusPdus
       \/ /\ \E s \in statusPdus : statusPdus' = statusPdus \ {s}
          /\ UNCHANGED dataPdus
    /\ UNCHANGED <<txVars, rxVars, history>>

Init ==
    LET sn == FirstSn % Modulus IN
    /\ m_txonBuffer = <<>> /\ m_txedBuffer = EmptyMap /\ m_retxBuffer = EmptyMap
    /\ m_vtA = sn /\ m_vtS = sn /\ m_pollSn = sn
    /\ m_pollRetransmitTimer = FALSE /\ m_pollRetransmitTimerJustExpired = FALSE
    /\ m_bsrTimer = FALSE /\ lc = [tx |-> 0, retx |-> 0]
    /\ m_rxonBuffer = EmptyMap
    /\ m_vrR = sn /\ m_vrX = sn /\ m_vrMs = sn /\ m_vrH = sn
    /\ m_reorderingTimer = FALSE /\ m_statusProhibitTimer = FALSE
    /\ m_statusPduRequested = FALSE /\ statusReported = FALSE
    /\ reassembly = [state |-> "WAITING_S0_FULL", keepS0 |-> <<>>, sdusBuffer |-> <<>>,
                     expected |-> sn, out |-> <<>>]
    /\ dataPdus = <<>> /\ statusPdus = {} /\ losses = 0
    /\ offered = 0 /\ accepted = <<>> /\ pdus = 0 /\ aborted = "no"

Next ==
    /\ aborted = "no"
    /\ \/ \E size \in SduSizes : TransmitPdcpPdu(size)
       \/ \E room \in Rooms : NotifyTxOpportunity(room)
       \/ ExpirePollRetransmitTimer \/ ExpireBsrTimer
       \/ \E s \in statusPdus : ReceiveStatus(s)
       \/ \E i \in 1..MaxOvertaken + 1 : ReceiveData(i)
       \/ ExpireReorderingTimer \/ ExpireStatusProhibitTimer
       \/ \E room \in NackRooms : TransmitStatus(room)
       \/ Lose

Spec == Init /\ [][Next]_vars

\* Timers that run expire, PDUs that are not lost arrive, and a scheduler that
\* takes a bearer for active serves it, now and then with enough for any PDU.
Fairness ==
    /\ WF_vars(ExpirePollRetransmitTimer) /\ WF_vars(ExpireBsrTimer)
    /\ WF_vars(ExpireStatusProhibitTimer)
    /\ WF_vars(\E s \in statusPdus : ReceiveStatus(s)) /\ WF_vars(ReceiveData(1))
    /\ SF_vars(NotifyTxOpportunity(Max(Rooms)))
    /\ WF_vars(\E room \in NackRooms : statusReported /\ TransmitStatus(room))

FairSpec == Spec /\ Fairness

-----------------------------------------------------------------------------
(* Properties                                                              *)

Timers == {m_pollRetransmitTimer, m_pollRetransmitTimerJustExpired, m_bsrTimer,
           m_reorderingTimer, m_statusProhibitTimer, m_statusPduRequested, statusReported}

\* Types: buffers hold PDUs under their own sequence number.
TypeOK ==
    /\ {m_vtA, m_vtS, m_pollSn, m_vrR, m_vrX, m_vrMs, m_vrH} \subseteq Sn
    /\ Timers \subseteq BOOLEAN
    /\ \A buffer \in {m_txedBuffer, m_retxBuffer, m_rxonBuffer} : \A sn \in DOMAIN buffer :
          sn \in Sn /\ buffer[sn].n % Modulus = sn
    /\ lc \in [tx : Nat, retx : Nat]
    /\ Size(m_txonBuffer) <= MaxTxBufferSize \/ MaxTxBufferSize = 0
    /\ Len(dataPdus) <= MaxInFlight /\ Cardinality(statusPdus) <= 1

\* A bearer in acknowledged mode implements RlcService: through losses,
\* retransmissions, duplicates, overtaking and segmentation, PDCP gets the
\* SDUs that DoTransmitPdcpPdu() has stored whole, in order, once each.
Service == INSTANCE RlcService WITH
              Sdus <- {Sdu(n, size) : n \in 1..MaxSdus, size \in SduSizes},
              delivered <- reassembly.out
ServiceSpec == Service!Spec

\* The state variables of the two sides fit together, in the circular order
\* from VT(A): VT(A) <= VR(R) <= VR(MS) <= VR(H) <= VT(S) <= VT(MS). So no
\* new PDU falls outside of the receiving window.
WindowsFit ==
    LET d(sn) == Distance(m_vtA, sn) IN
    /\ d(m_vrR) <= d(m_vrMs) /\ d(m_vrMs) <= d(m_vrH) /\ d(m_vrH) <= d(m_vtS)
    /\ d(m_vtS) <= WindowSize

\* The transmitting side lets go of a PDU only when the peer has it: one that
\* is not received is in m_txedBuffer or in m_retxBuffer, and not in both.
NothingForgotten ==
    /\ DOMAIN m_txedBuffer \cap DOMAIN m_retxBuffer = {}
    /\ \A sn \in Sn \ DOMAIN m_rxonBuffer :
          Distance(m_vrR, sn) < Distance(m_vrR, m_vtS)
            => sn \in DOMAIN m_txedBuffer \cup DOMAIN m_retxBuffer

\* No assertion of DoReceivePdu() and DoNotifyTxOpportunity() fails.
AssertionsHold == aborted = "no"

\* However many PDUs are lost before, the buffers become empty: everything is
\* sent and acknowledged. Several events leave the scheduler without a report
\* (a NACK, the reordering timer, the end of the prohibit time), and it takes
\* the poll and BSR timers to get out of that.
EventuallyAcknowledged ==
    []<>(m_txonBuffer = <<>> /\ DOMAIN m_txedBuffer \cup DOMAIN m_retxBuffer = {})
=============================================================================
