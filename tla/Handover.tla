------------------------------ MODULE Handover ------------------------------
(***************************************************************************)
(* The handover of one UE between gNBs: NrUeRrc, the NrUeManager that a    *)
(* gNB's NrGnbRrc has of the UE under an RNTI (here: its context), and the *)
(* X2 messages between the gNBs. The RRC protocol is the real one          *)
(* (NrGnbRrcProtocolReal, UeRrcProtocolReal): commands and answers go over *)
(* the air, a connection release and the request to remove a context are   *)
(* direct calls without delay.                                             *)
(*                                                                         *)
(* A UE that has lost its connection stays idle. What a bearer carries,    *)
(* and its forwarding, is left out. Events of one instant take place in    *)
(* any order.                                                              *)
(***************************************************************************)
EXTENDS Naturals, FiniteSets, Functions, Maps

CONSTANTS
    Cells,
    JoiningTimeout,  \* m_handoverJoiningTimeoutDuration
    LeavingTimeout,  \* m_handoverLeavingTimeoutDuration
    RandomAccessMax, \* how long a UE tries the random access
    AirDelays,       \* of a message on SRB1, retransmissions included
    X2Delay,
    S1Delays,        \* of a path switch
    MaxHandovers,    \* bound: the handovers triggered
    MaxLosses,       \* bound: the types of X2 messages of which some are lost
    MaxTime          \* bound: the end of the simulation

ASSUME HandoverAssumption ==
    /\ {JoiningTimeout, LeavingTimeout, RandomAccessMax, X2Delay} \subseteq Nat \ {0}
    /\ AirDelays \subseteq Nat /\ S1Delays \subseteq Nat \ {0}
    /\ {MaxHandovers, MaxLosses, MaxTime} \subseteq Nat

VARIABLES
    now,
    m_ueMap,              \* cell -> RNTI -> context [state, joining, leaving, source, target]
    m_lastAllocatedRnti,
    ue,                   \* [state, at, until]: at = [cell, rnti], until ends the access
    x2,                   \* messages: [ts, type, to, peer], each a [cell, rnti]
    rrc,                  \* messages: [ts, type, at, target]
    s1,                   \* path switches under way: [ts, at]
    handovers,
    lost,                 \* history: the types of the X2 messages lost
    rlf,                  \* history: the UE had a radio link failure
    aborted               \* the assertion that ended the simulation, or "no"

gnbVars == <<m_ueMap, m_lastAllocatedRnti>>
history == <<handovers, lost, rlf>>
vars == <<now, gnbVars, ue, x2, rrc, s1, history, aborted>>

Never == 0
Nowhere == [cell |-> 0, rnti |-> 0]
IdleUe == [state |-> "IDLE_START", at |-> Nowhere, until |-> Never]

Contexts == UNION {{[cell |-> c, rnti |-> r] : r \in DOMAIN m_ueMap[c]} : c \in Cells}

HasUeManager(p) == p \in Contexts
UeManager(p) == m_ueMap[p.cell][p.rnti]
Updated(p, context) == [m_ueMap EXCEPT ![p.cell] = Put(@, p.rnti, context)]

\* RemoveUe(), which cancels the timers of the context.
RemoveUe(p) == [m_ueMap EXCEPT ![p.cell] = Restrict(@, DOMAIN @ \ {p.rnti})]

X2Message(type, to, peer) == [ts |-> now + X2Delay, type |-> type, to |-> to, peer |-> peer]

\* Messages over the air from or to the context p, and direct calls.
OverTheAir(type, p, target) ==
    {[ts |-> now + d, type |-> type, at |-> p, target |-> target] : d \in AirDelays}
Direct(type, p) == [ts |-> now, type |-> type, at |-> p, target |-> Nowhere]

Abort(why) ==
    /\ aborted' = why
    /\ UNCHANGED <<now, gnbVars, ue, x2, rrc, s1, history>>

\* The UE is connected to a gNB, and each knows the other.
Init ==
    /\ now = 1
    /\ \E c \in Cells :
        LET p == [cell |-> c, rnti |-> 1] IN
        /\ ue = [state |-> "CONNECTED_NORMALLY", at |-> p, until |-> Never]
        /\ m_ueMap = [d \in Cells |-> IF d # c THEN EmptyMap
                        ELSE Put(EmptyMap, 1, [state |-> "CONNECTED_NORMALLY", joining |-> Never,
                            leaving |-> Never, source |-> Nowhere, target |-> Nowhere])]
        /\ m_lastAllocatedRnti = [d \in Cells |-> IF d = c THEN 1 ELSE 0]
    /\ x2 = {} /\ rrc = {} /\ s1 = {}
    /\ handovers = 0 /\ lost = {} /\ rlf = FALSE /\ aborted = "no"

Running == aborted = "no"

Due ==
    {m.ts : m \in x2 \cup rrc \cup s1} \cup {ue.until}
      \cup UNION {{UeManager(p).joining, UeManager(p).leaving} : p \in Contexts}

Advance ==
    /\ Running
    /\ now < MaxTime
    /\ \A t \in Due \ {Never} : t > now
    /\ now' = now + 1
    /\ UNCHANGED <<gnbVars, ue, x2, rrc, s1, history, aborted>>

-----------------------------------------------------------------------------
(* The source gNB.                                                         *)

\* PrepareHandover() of a UE that is CONNECTED_NORMALLY. No timer is started.
PrepareHandover(p, c) ==
    /\ m_ueMap' = Updated(p, [UeManager(p) EXCEPT !.state = "HANDOVER_PREPARATION",
                                                 !.target = [cell |-> c, rnti |-> 0]])
    /\ x2' = x2 \cup {X2Message("HANDOVER REQUEST", [cell |-> c, rnti |-> 0], p)}

\* DoTriggerHandover(): a UE in another state is left alone.
TriggerHandover(p, c) ==
    /\ Running
    /\ handovers < MaxHandovers
    /\ UeManager(p).state = "CONNECTED_NORMALLY"
    /\ c # p.cell
    /\ PrepareHandover(p, c)
    /\ handovers' = handovers + 1
    /\ UNCHANGED <<now, m_lastAllocatedRnti, ue, rrc, s1, lost, rlf, aborted>>

Receives(m, type) == Running /\ m.ts = now /\ m.type = type

LeavingTimer == now + LeavingTimeout

\* DoRecvHandoverRequestAck() and RecvHandoverRequestAck()
RecvHandoverRequestAck(m) ==
    /\ Receives(m, "HANDOVER REQUEST ACK")
    /\ IF ~HasUeManager(m.to) THEN Abort("unknown RNTI")
       ELSE /\ x2' = x2 \ {m}
            /\ \E command \in OverTheAir("handover command", m.to, m.peer) :
                 rrc' = rrc \cup {command}
            /\ m_ueMap' = Updated(m.to, [UeManager(m.to) EXCEPT
                                           !.state = "HANDOVER_LEAVING",
                                           !.leaving = LeavingTimer,
                                           !.target = m.peer])
            /\ UNCHANGED <<now, m_lastAllocatedRnti, ue, s1, history, aborted>>

\* Mutant: the UE is not told.
Released_Silently(p) == {}

\* SendRrcConnectionRelease(), whose message finds the UE wherever it is.
Released(p) == {Direct("release", p)}

SendRrcConnectionRelease(p) ==
    /\ rrc' = rrc \cup Released(p)
    /\ m_ueMap' = RemoveUe(p)

\* Mutant: without the case added for a source that has sent the command.
RecvHandoverPreparationFailure_OnlyPreparing(m) ==
    /\ Receives(m, "HANDOVER PREPARATION FAILURE")
    /\ IF HasUeManager(m.to) /\ UeManager(m.to).state # "HANDOVER_PREPARATION"
       THEN Abort("unexpected state")
       ELSE /\ x2' = x2 \ {m}
            /\ m_ueMap' = IF HasUeManager(m.to)
                          THEN Updated(m.to, [UeManager(m.to) EXCEPT !.state = "CONNECTED_NORMALLY"])
                          ELSE m_ueMap
            /\ UNCHANGED <<now, m_lastAllocatedRnti, ue, rrc, s1, history, aborted>>

\* DoRecvHandoverPreparationFailure() and RecvHandoverPreparationFailure(): a
\* UE that was already told to leave is released.
RecvHandoverPreparationFailure(m) ==
    LET state == UeManager(m.to).state IN
    /\ Receives(m, "HANDOVER PREPARATION FAILURE")
    /\ IF /\ HasUeManager(m.to)
          /\ \/ state \notin {"HANDOVER_PREPARATION", "HANDOVER_LEAVING"}
             \/ UeManager(m.to).target.cell # m.peer.cell
       THEN Abort("unexpected state")
       ELSE /\ x2' = x2 \ {m}
            /\ \/ ~HasUeManager(m.to) /\ UNCHANGED <<m_ueMap, rrc>>
               \/ /\ HasUeManager(m.to) /\ state = "HANDOVER_PREPARATION"
                  /\ m_ueMap' = Updated(m.to, [UeManager(m.to) EXCEPT
                                                 !.state = "CONNECTED_NORMALLY"])
                  /\ UNCHANGED rrc
               \/ /\ HasUeManager(m.to) /\ state = "HANDOVER_LEAVING"
                  /\ SendRrcConnectionRelease(m.to)
            /\ UNCHANGED <<now, m_lastAllocatedRnti, ue, s1, history, aborted>>

\* DoRecvUeContextRelease() and RecvUeContextRelease()
RecvUeContextRelease(m) ==
    /\ Receives(m, "UE CONTEXT RELEASE")
    /\ IF HasUeManager(m.to) /\ UeManager(m.to).state # "HANDOVER_LEAVING"
       THEN Abort("unexpected state")
       ELSE /\ x2' = x2 \ {m}
            /\ m_ueMap' = IF HasUeManager(m.to) THEN RemoveUe(m.to) ELSE m_ueMap
            /\ UNCHANGED <<now, m_lastAllocatedRnti, ue, rrc, s1, history, aborted>>

\* HandoverLeavingTimeout(): the handover is cancelled at the target and the
\* UE released.
HandoverLeavingTimeout(p) ==
    /\ Running
    /\ UeManager(p).leaving = now
    /\ IF UeManager(p).state # "HANDOVER_LEAVING" THEN Abort("unexpected state")
       ELSE /\ x2' = x2 \cup {X2Message("HANDOVER CANCEL", UeManager(p).target, p)}
            /\ SendRrcConnectionRelease(p)
            /\ UNCHANGED <<now, m_lastAllocatedRnti, ue, s1, history, aborted>>

-----------------------------------------------------------------------------
(* The target gNB.                                                         *)

\* AddUe(), whose RNTI is the next one after the last.
NextRnti(c) == m_lastAllocatedRnti[c] + 1

\* Mutant: the joining timer is not started.
JoiningTimer_Never == Never

JoiningTimer == now + JoiningTimeout

\* DoRecvHandoverRequest(): refused by admission control, for want of a
\* preamble once the UE has an RNTI, or accepted.
RecvHandoverRequest(m) ==
    LET p == [cell |-> m.to.cell, rnti |-> NextRnti(m.to.cell)]
        Answer(type) == x2' = (x2 \ {m}) \cup {X2Message(type, m.peer, p)}
        Allocated == m_lastAllocatedRnti' = [m_lastAllocatedRnti EXCEPT ![p.cell] = p.rnti]
    IN
    /\ Receives(m, "HANDOVER REQUEST")
    /\ \/ /\ Answer("HANDOVER PREPARATION FAILURE")
          /\ Allocated \/ UNCHANGED m_lastAllocatedRnti
          /\ UNCHANGED m_ueMap
       \/ /\ Answer("HANDOVER REQUEST ACK")
          /\ Allocated
          /\ m_ueMap' = Updated(p, [state |-> "HANDOVER_JOINING", joining |-> JoiningTimer,
                                    leaving |-> Never, source |-> m.peer, target |-> Nowhere])
    /\ UNCHANGED <<now, ue, rrc, s1, history, aborted>>

PreparationFailure(p) == X2Message("HANDOVER PREPARATION FAILURE", UeManager(p).source, p)

\* Mutant: the source is not told.
HandoverJoiningTimeout_Silent(p) ==
    /\ Running
    /\ UeManager(p).joining = now
    /\ m_ueMap' = RemoveUe(p)
    /\ UNCHANGED <<now, m_lastAllocatedRnti, ue, x2, rrc, s1, history, aborted>>

\* HandoverJoiningTimeout(): the source is told to release the UE.
HandoverJoiningTimeout(p) ==
    /\ Running
    /\ UeManager(p).joining = now
    /\ IF UeManager(p).state # "HANDOVER_JOINING" THEN Abort("unexpected state")
       ELSE /\ x2' = x2 \cup {PreparationFailure(p)}
            /\ m_ueMap' = RemoveUe(p)
            /\ UNCHANGED <<now, m_lastAllocatedRnti, ue, rrc, s1, history, aborted>>

\* ProcessRaPreambles(): the response to a UE that tries to enter.
ProcessRaPreambles ==
    /\ Running
    /\ ue.state = "CONNECTED_HANDOVER"
    /\ HasUeManager(ue.at)
    /\ \A m \in rrc : m.type # "random access response"
    /\ \E response \in OverTheAir("random access response", ue.at, Nowhere) :
         rrc' = rrc \cup {response}
    /\ UNCHANGED <<now, gnbVars, ue, x2, s1, history, aborted>>

\* RecvRrcConnectionReconfigurationCompleted(): the UE has entered, or has
\* carried out a reconfiguration. It arrives if the context is still there.
RecvReconfigurationCompleted(m) ==
    LET state == UeManager(m.at).state IN
    /\ Receives(m, "completed")
    /\ IF HasUeManager(m.at) /\ state \notin {"CONNECTION_RECONFIGURATION", "CONNECTED_NORMALLY",
                                              "HANDOVER_LEAVING", "HANDOVER_JOINING"}
       THEN Abort("unexpected state")
       ELSE /\ rrc' = rrc \ {m}
            /\ \/ /\ HasUeManager(m.at) /\ state = "HANDOVER_JOINING"
                  /\ m_ueMap' = Updated(m.at, [UeManager(m.at) EXCEPT
                                                 !.state = "HANDOVER_PATH_SWITCH", !.joining = Never])
                  /\ \E d \in S1Delays : s1' = s1 \cup {[ts |-> now + d, at |-> m.at]}
               \/ /\ HasUeManager(m.at) /\ state = "CONNECTION_RECONFIGURATION"
                  /\ m_ueMap' = Updated(m.at, [UeManager(m.at) EXCEPT
                                                 !.state = "CONNECTED_NORMALLY"])
                  /\ UNCHANGED s1
               \/ /\ HasUeManager(m.at) => state \in {"CONNECTED_NORMALLY", "HANDOVER_LEAVING"}
                  /\ UNCHANGED <<m_ueMap, s1>>
            /\ UNCHANGED <<now, m_lastAllocatedRnti, ue, x2, history, aborted>>

\* DoPathSwitchRequestAcknowledge() and SendUeContextRelease(): the source may
\* forget the UE, and the reconfiguration that SetupDataRadioBearer() left
\* pending is made.
PathSwitchRequestAcknowledge(s) ==
    /\ Running
    /\ s.ts = now
    /\ IF ~HasUeManager(s.at) THEN Abort("unknown RNTI")
       ELSE IF UeManager(s.at).state # "HANDOVER_PATH_SWITCH" THEN Abort("unexpected state")
       ELSE /\ s1' = s1 \ {s}
            /\ x2' = x2 \cup {X2Message("UE CONTEXT RELEASE", UeManager(s.at).source, s.at)}
            /\ \E message \in OverTheAir("reconfiguration", s.at, Nowhere) :
                 rrc' = rrc \cup {message}
            /\ m_ueMap' = Updated(s.at, [UeManager(s.at) EXCEPT
                                           !.state = "CONNECTION_RECONFIGURATION"])
            /\ UNCHANGED <<now, m_lastAllocatedRnti, ue, history, aborted>>

\* DoRecvHandoverCancel() and RecvHandoverCancel(), which keep the context.
RecvHandoverCancel(m) ==
    /\ Receives(m, "HANDOVER CANCEL")
    /\ IF HasUeManager(m.to) /\ UeManager(m.to).state # "HANDOVER_JOINING"
       THEN Abort("unexpected state")
       ELSE /\ x2' = x2 \ {m}
            /\ m_ueMap' = IF HasUeManager(m.to)
                          THEN Updated(m.to, [UeManager(m.to) EXCEPT !.joining = Never])
                          ELSE m_ueMap
            /\ UNCHANGED <<now, m_lastAllocatedRnti, ue, rrc, s1, history, aborted>>

\* DoRecvIdealUeContextRemoveRequest(), which tells the source of a UE that
\* was to enter.
RecvIdealUeContextRemoveRequest(m) ==
    /\ Receives(m, "remove")
    /\ rrc' = rrc \ {m}
    /\ x2' = IF HasUeManager(m.at) /\ UeManager(m.at).state = "HANDOVER_JOINING"
             THEN x2 \cup {PreparationFailure(m.at)} ELSE x2
    /\ m_ueMap' = IF HasUeManager(m.at) THEN RemoveUe(m.at) ELSE m_ueMap
    /\ UNCHANGED <<now, m_lastAllocatedRnti, ue, s1, history, aborted>>

-----------------------------------------------------------------------------
(* The UE.                                                                 *)

\* A message over the air finds a UE that has the RNTI in the cell, while the
\* gNB has the radio bearer.
Reaches(m) == ue.at = m.at /\ HasUeManager(m.at)

\* DoRecvRrcConnectionReconfiguration()
RecvReconfiguration(m) ==
    /\ Running
    /\ m.ts = now
    /\ m.type \in {"handover command", "reconfiguration"}
    /\ IF Reaches(m) /\ ue.state # "CONNECTED_NORMALLY" THEN Abort("unexpected state")
       ELSE /\ \/ ~Reaches(m) /\ rrc' = rrc \ {m} /\ UNCHANGED ue
               \/ /\ Reaches(m) /\ m.type = "handover command"
                  /\ ue' = [state |-> "CONNECTED_HANDOVER", at |-> m.target,
                            until |-> now + RandomAccessMax]
                  /\ rrc' = rrc \ {m}
               \/ /\ Reaches(m) /\ m.type = "reconfiguration"
                  /\ \E answer \in OverTheAir("completed", m.at, Nowhere) :
                       rrc' = (rrc \ {m}) \cup {answer}
                  /\ UNCHANGED ue
            /\ UNCHANGED <<now, gnbVars, x2, s1, history, aborted>>

\* DoNotifyRandomAccessSuccessful(), of a UE that still waits for the response.
NotifyRandomAccessSuccessful(m) ==
    /\ Receives(m, "random access response")
    /\ IF ue.state = "CONNECTED_HANDOVER" /\ ue.at = m.at
       THEN /\ \E answer \in OverTheAir("completed", m.at, Nowhere) :
                 rrc' = (rrc \ {m}) \cup {answer}
            /\ ue' = [ue EXCEPT !.state = "CONNECTED_NORMALLY", !.until = Never]
       ELSE rrc' = rrc \ {m} /\ UNCHANGED ue
    /\ UNCHANGED <<now, gnbVars, x2, s1, history, aborted>>

\* SendIdealUeContextRemoveRequest() to the gNB that the UE is at now, and
\* NotifyConnectionReleased(), which ends in LeaveConnectedMode().
LeaveConnectedMode(messages) ==
    /\ rrc' = messages \cup {Direct("remove", ue.at)}
    /\ ue' = IdleUe

\* DoNotifyRandomAccessFailed()
NotifyRandomAccessFailed ==
    /\ Running
    /\ ue.state = "CONNECTED_HANDOVER"
    /\ ue.until = now
    /\ LeaveConnectedMode(rrc)
    /\ UNCHANGED <<now, gnbVars, x2, s1, history, aborted>>

\* DoRecvRrcConnectionRelease(), in whatever state and cell the UE is.
RecvRrcConnectionRelease(m) ==
    /\ Receives(m, "release")
    /\ IF ue = IdleUe THEN rrc' = rrc \ {m} /\ UNCHANGED ue
       ELSE LeaveConnectedMode(rrc \ {m})
    /\ UNCHANGED <<now, gnbVars, x2, s1, history, aborted>>

\* RadioLinkFailureDetected(), whose timer a handover command stops.
RadioLinkFailureDetected ==
    /\ Running
    /\ ue.state = "CONNECTED_NORMALLY"
    /\ LeaveConnectedMode(rrc)
    /\ rlf' = TRUE
    /\ UNCHANGED <<now, gnbVars, x2, s1, handovers, lost, aborted>>

-----------------------------------------------------------------------------
(* The X2 link drops a message.                                            *)

LoseX2Message(m) ==
    /\ Running
    /\ Cardinality(lost) < MaxLosses
    /\ x2' = x2 \ {m}
    /\ lost' = lost \cup {m.type}
    /\ UNCHANGED <<now, gnbVars, ue, rrc, s1, handovers, rlf, aborted>>

Next ==
    \/ Advance
    \/ \E p \in Contexts, c \in Cells : TriggerHandover(p, c)
    \/ \E p \in Contexts : HandoverLeavingTimeout(p)
    \/ \E p \in Contexts : HandoverJoiningTimeout(p)
    \/ \E m \in x2 : RecvHandoverRequest(m)
    \/ \E m \in x2 : RecvHandoverRequestAck(m)
    \/ \E m \in x2 : RecvHandoverPreparationFailure(m)
    \/ \E m \in x2 : RecvUeContextRelease(m)
    \/ \E m \in x2 : RecvHandoverCancel(m)
    \/ \E m \in x2 : LoseX2Message(m)
    \/ \E s \in s1 : PathSwitchRequestAcknowledge(s)
    \/ ProcessRaPreambles
    \/ \E m \in rrc : RecvReconfigurationCompleted(m)
    \/ \E m \in rrc : RecvIdealUeContextRemoveRequest(m)
    \/ \E m \in rrc : RecvReconfiguration(m)
    \/ \E m \in rrc : NotifyRandomAccessSuccessful(m)
    \/ \E m \in rrc : RecvRrcConnectionRelease(m)
    \/ NotifyRandomAccessFailed
    \/ RadioLinkFailureDetected

Spec == Init /\ [][Next]_vars

-----------------------------------------------------------------------------
(* Properties.                                                             *)

States == {"CONNECTED_NORMALLY", "CONNECTION_RECONFIGURATION", "HANDOVER_PREPARATION",
           "HANDOVER_LEAVING", "HANDOVER_JOINING", "HANDOVER_PATH_SWITCH"}

\* The types. No event is overdue, and a context has the timer of its state
\* and no other.
TypeOK ==
    /\ aborted \in {"no", "unknown RNTI", "unexpected state"}
    /\ \A t \in Due \ {Never} : t >= now
    /\ ue.state \in {"IDLE_START", "CONNECTED_NORMALLY", "CONNECTED_HANDOVER"}
    /\ \A p \in Contexts :
        /\ UeManager(p).state \in States
        /\ p.rnti <= m_lastAllocatedRnti[p.cell]
        /\ UeManager(p).leaving # Never <=> UeManager(p).state = "HANDOVER_LEAVING"
        /\ UeManager(p).joining # Never <=> UeManager(p).state = "HANDOVER_JOINING"

\* Whatever is refused, late or lost but UE CONTEXT RELEASE, and whatever
\* fails on the radio link, no message and no timeout finds a context or a UE
\* in a state for which its handler has no case; and a gNB hears of a UE that
\* it does not have (GetUeManager()) only after a radio link failure. (If the
\* release of the source is lost, it later releases a UE that it has handed
\* over.)
NoUnexpectedState ==
    \/ aborted = "no"
    \/ aborted = "unknown RNTI" /\ rlf
    \/ "UE CONTEXT RELEASE" \in lost

\* Something is to happen to the context: one of its timers, a message, or the
\* timer of the context that a target has for it.
Pending(p) ==
    \/ UeManager(p).leaving # Never
    \/ \E q \in Contexts : UeManager(q).joining # Never /\ p \in {q, UeManager(q).source}
    \/ \E m \in x2 : p \in {m.to, m.peer}
    \/ \E m \in rrc \cup s1 : m.at = p

\* No gNB keeps a context for nothing, and no handover stops half way: a timer
\* or a message is to change the context, or the UE is there and no handover is
\* going on. (PrepareHandover() starts no timer, so that a lost request or
\* refusal leaves the UE's context in preparation.)
NoContextForgotten ==
    \A p \in Contexts :
        \/ Pending(p)
        \/ /\ ue.at = p
           /\ \/ UeManager(p).state = "CONNECTED_NORMALLY"
              \/ lost \cap {"HANDOVER REQUEST", "HANDOVER PREPARATION FAILURE"} # {}

\* A UE that takes itself for connected is known where it is, or it will be
\* released by the gNB that it left.
UeNotStranded ==
    \/ ue = IdleUe
    \/ HasUeManager(ue.at)
    \/ \E p \in Contexts : UeManager(p).state = "HANDOVER_LEAVING" /\ UeManager(p).target = ue.at
    \/ \E m \in rrc : m.type = "release"
=============================================================================
