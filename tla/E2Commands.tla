----------------------------- MODULE E2Commands -----------------------------
(***************************************************************************)
(* The E2 interface with the commands that go back over it. At every query *)
(* the logic module (OranLmNrRlQlearn) reads from the repository which     *)
(* gNBs are registered and addresses its command to the first of them; the *)
(* command is sent when the module's run is over, to the terminator that   *)
(* the RIC has under that identifier by then; and it is received after the *)
(* transmission delay, whatever became of the node meanwhile.              *)
(*                                                                         *)
(* The query cycle itself, with several modules, is that of NearRtRic:     *)
(* here one module runs, and its commands are taken when it has finished.  *)
(***************************************************************************)
EXTENDS E2

CONSTANT ProcessingDelays  \* the values of m_processingDelayRv of the module

ASSUME ProcessingAssumption == ProcessingDelays \subseteq Nat /\ ProcessingDelays # {}

VARIABLES
    run,       \* the run that has not finished: [ts, id], as a set
    commands,  \* those under way: [ts, node, id]
    executed   \* history: the commands that a terminator carried out

commandVars == <<run, commands, executed>>
allVars == <<vars, commandVars>>

CommandInit == Init /\ run = {} /\ commands = {} /\ executed = {}

\* QueryLms(): the check, the end of a run that is still going on, and the new
\* one. Without a registered gNB, and when the agent does not answer, it has no
\* command.
QueryLms(e) ==
    /\ e.id = LmQueryMember
    /\ CheckForInactivity(e)
    /\ \E ids \in GetNrGnbE2NodeIds(db') :
         \/ run' = {}
         \/ \E id \in ids, d \in ProcessingDelays : run' = {[ts |-> now + d, id |-> id]}
    /\ UNCHANGED <<commands, executed>>

\* FinishRun(), NotifyLmFinished() and ProcessCommands(): a RIC that was
\* stopped sends nothing.
FinishRun(r) ==
    /\ Running
    /\ r.ts = now
    /\ run' = run \ {r}
    /\ IF ricActive
       THEN \E d \in Delays : commands' =
              commands \cup {[ts |-> now + d, node |-> Terminator(r.id), id |-> r.id]}
       ELSE UNCHANGED commands
    /\ UNCHANGED <<vars, executed>>

\* ReceiveCommand(), which a null terminator cannot answer.
ReceiveCommand(c) ==
    /\ Running
    /\ c.ts = now
    /\ commands' = commands \ {c}
    /\ aborted' = IF c.node = Null THEN "null terminator" ELSE "no"
    /\ executed' = IF c.node # Null /\ nodeActive[c.node] THEN executed \cup {c} ELSE executed
    /\ UNCHANGED <<simVars, calls, ricVars, nodeVars, saved, run>>

\* The event that the simulator takes next, as a set.
Due == {e \in events : Fires(e)}

Others ==
    /\ \/ Script
       \/ Advance /\ \A x \in run \cup commands : x.ts > now
       \/ \E e \in Due :
            \/ Ignored(e) \/ RegisterEvent(e) \/ RegistrationResponseEvent(e)
            \/ DeregistrationResponseEvent(e) \/ TriggerEvent(e) \/ SendEvent(e)
            \/ RegistrationRequestEvent(e) \/ DeregistrationRequestEvent(e)
            \/ ReportEvent(e)
            \/ e.id = InactivityMember /\ CheckForInactivity(e)
    /\ UNCHANGED commandVars

CommandNext ==
    \/ Others
    \/ \E e \in Due : QueryLms(e)
    \/ \E r \in run : FinishRun(r)
    \/ \E c \in commands : ReceiveCommand(c)

CommandSpec == CommandInit /\ [][CommandNext]_allVars

-----------------------------------------------------------------------------
(* Properties.                                                             *)

\* A command reaches the gNB that the module chose, or nobody: it never goes
\* to a UE, to a node whose identifier is another one, or to a null terminator,
\* whatever registrations, deregistrations and restarts come between the
\* module's reading and the delivery.
CommandsReachGnb ==
    \A c \in commands \cup executed : c.node \in Nodes \ Ues /\ Owned(c.id, c.node)
=============================================================================
