------------------------------ MODULE RlAgent ------------------------------
(***************************************************************************)
(* The reinforcement-learning loop: OranLmNrRlQlearn::Run() pushes an      *)
(* observation over gRPC and waits for its answer up to a deadline;        *)
(* rl_qlearn.py handles every call in a thread of a pool, without a lock.  *)
(* A thread goes on after the deadline of its call. The simulation may be  *)
(* started again while the agent runs on, and the agent may be stopped and *)
(* started again from its checkpoint.                                      *)
(*                                                                         *)
(* An observation stands for what is computed from it: its state, the      *)
(* action chosen in that state and its buffers. A transition of the        *)
(* Q-table so records where each of its parts came from.                   *)
(***************************************************************************)
EXTENDS Naturals, Sequences, FiniteSets, Maps

CONSTANTS
    MaxTti,     \* bound: the number of observations of each simulation
    Workers,    \* max_workers of the pool
    SaveEvery,  \* _save_every
    None        \* Python's None; no call

ASSUME RlAssumption ==
    /\ MaxTti \in Seq(Nat \ {0}) /\ MaxTti # <<>>
    /\ {Workers, SaveEvery} \subseteq Nat \ {0}
    /\ None \notin [epoch : Nat, tti : Nat]

Obs == UNION {[epoch : {e}, tti : 0..MaxTti[e] - 1] : e \in DOMAIN MaxTti}
Transition == [state : Obs, action : Obs, buffer : Obs, next : Obs]

VARIABLES
    epoch,       \* the simulation that runs
    ttiCounter,  \* the static counter of Run()
    call,        \* the observation whose answer Run() waits for
    requests,    \* calls on their way to the agent or in its queue
    replies,     \* answers on their way back
    alive,       \* the agent's process runs
    handler,     \* observation -> the local state of its thread
    prev_state_id, prev_action_id, prev_tti_counter, prev_txbuffer,
    table,       \* the transitions that the Q-table has learned
    _updates,
    file,        \* the checkpoint: a table, or None while it cannot be read
    gaveUp,      \* history: Run() has stopped waiting for an answer
    overlapped   \* history: two threads ran at a time

lmVars == <<epoch, ttiCounter, call, gaveUp>>
prevVars == <<prev_state_id, prev_action_id, prev_tti_counter, prev_txbuffer>>
tableVars == <<table, _updates, file>>
vars == <<lmVars, requests, replies, alive, handler, prevVars, tableVars, overlapped>>

\* The servicer after __init__(), with the transitions T in its table.
Servicer(T) ==
    /\ prev_state_id' = None /\ prev_action_id' = None
    /\ prev_tti_counter' = None /\ prev_txbuffer' = None
    /\ table' = T
    /\ _updates' = 0

Init ==
    /\ epoch = 1 /\ ttiCounter = 0 /\ call = None
    /\ requests = {} /\ replies = {}
    /\ alive = TRUE /\ handler = EmptyMap
    /\ prev_state_id = None /\ prev_action_id = None
    /\ prev_tti_counter = None /\ prev_txbuffer = None
    /\ table = {} /\ _updates = 0 /\ file = {}
    /\ gaveUp = FALSE /\ overlapped = FALSE

-----------------------------------------------------------------------------
(* The logic module.                                                       *)

Idle == call = None

\* Run() pushes an observation. A call finds no agent that is not there.
PushObservation ==
    /\ Idle /\ ttiCounter < MaxTti[epoch]
    /\ call' = [epoch |-> epoch, tti |-> ttiCounter]
    /\ ttiCounter' = ttiCounter + 1
    /\ requests' = IF alive THEN requests \cup {call'} ELSE requests
    /\ UNCHANGED <<epoch, gaveUp, replies, alive, handler, prevVars, tableVars,
                   overlapped>>

\* status.ok()
Answered ==
    /\ call \in replies
    /\ replies' = replies \ {call}
    /\ call' = None
    /\ UNCHANGED <<epoch, ttiCounter, gaveUp, requests, alive, handler, prevVars, tableVars,
                   overlapped>>

\* The deadline of 200 ms, or the loss of the connection. The answer is void.
Failed ==
    /\ call # None
    /\ gaveUp' = TRUE
    /\ replies' = replies \ {call}
    /\ call' = None
    /\ UNCHANGED <<epoch, ttiCounter, requests, alive, handler, prevVars, tableVars,
                   overlapped>>

\* A new simulation, at any time: its counter starts at zero.
Simulate ==
    /\ epoch < Len(MaxTti)
    /\ epoch' = epoch + 1 /\ ttiCounter' = 0 /\ call' = None
    /\ gaveUp' = (gaveUp \/ call # None)
    /\ replies' = {}
    /\ UNCHANGED <<requests, alive, handler, prevVars, tableVars, overlapped>>

-----------------------------------------------------------------------------
(* The agent.                                                              *)

\* A thread at pc that has read nothing it will still use.
At(pc) == [pc |-> pc, state |-> None, action |-> None, buffer |-> None, Q |-> {}]

\* Mutant: the pool has no limit.
Free_Always == TRUE

Free == Cardinality(DOMAIN handler) < Workers

\* A thread of the pool takes a call; one that is void may be dropped.
Start(o) ==
    /\ o \in requests
    /\ Free
    /\ requests' = requests \ {o}
    /\ \/ /\ handler' = Put(handler, o, At("check"))
          /\ overlapped' = (overlapped \/ handler # EmptyMap)
       \/ /\ call # o
          /\ UNCHANGED <<handler, overlapped>>
    /\ UNCHANGED <<lmVars, replies, alive, prevVars, tableVars>>

Goto(o, pc) == handler' = [handler EXCEPT ![o] = At(pc)]

\* Mutant: an observation that is not newer than the last one is learned from.
Newer_Always(o) == TRUE

\* totals.tti_counter > self.prev_tti_counter
Newer(o) == o.tti > prev_tti_counter.tti

\* hubo_paso_anterior, and whether the observation is a later one.
Check(o) ==
    /\ handler[o].pc = "check"
    /\ Goto(o, IF None \notin {prev_state_id, prev_action_id, prev_tti_counter} /\ Newer(o)
               THEN "reward" ELSE "select")
    /\ UNCHANGED <<lmVars, requests, replies, alive, prevVars, tableVars, overlapped>>

\* reward() uses the last buffers, and the call of on_transition() the last
\* state and action: three reads.
Read(o) ==
    /\ \/ /\ handler[o].pc = "reward"
          /\ handler' = [handler EXCEPT ![o].pc = "state", ![o].buffer = prev_txbuffer]
       \/ /\ handler[o].pc = "state"
          /\ handler' = [handler EXCEPT ![o].pc = "action", ![o].state = prev_state_id]
       \/ /\ handler[o].pc = "action"
          /\ handler' = [handler EXCEPT ![o].pc = "update", ![o].action = prev_action_id]
    /\ UNCHANGED <<lmVars, requests, replies, alive, prevVars, tableVars, overlapped>>

\* update() reads the table and writes one cell of it. Of what others wrote in
\* between it undoes what they wrote to the same cell.
Update(o) ==
    /\ handler[o].pc = "update"
    /\ handler' = [handler EXCEPT ![o].pc = "write", ![o].Q = table]
    /\ UNCHANGED <<lmVars, requests, replies, alive, prevVars, tableVars, overlapped>>

\* Mutant: one update too late.
SaveNow_Late(n) == n % SaveEvery = 0 /\ n > SaveEvery

SaveNow(n) == n % SaveEvery = 0

Learned(o) == [state |-> handler[o].state, action |-> handler[o].action,
               buffer |-> handler[o].buffer, next |-> o]

Write(o) ==
    /\ handler[o].pc = "write"
    /\ \E kept \in {table, handler[o].Q} : table' = kept \cup {Learned(o)}
    /\ _updates' = _updates + 1
    /\ Goto(o, IF SaveNow(_updates') THEN "save" ELSE "select")
    /\ UNCHANGED <<lmVars, requests, replies, alive, prevVars, file, overlapped>>

\* save() writes the file in place; if that fails the file remains unreadable.
Save(o) ==
    /\ \/ handler[o].pc = "save" /\ file' = None /\ Goto(o, "saved")
       \/ handler[o].pc = "saved" /\ file' \in {table, None} /\ Goto(o, "select")
    /\ UNCHANGED <<lmVars, requests, replies, alive, prevVars, table, _updates, overlapped>>

\* The action is selected, and after_observation(): the buffers are kept.
Select(o) ==
    /\ handler[o].pc = "select"
    /\ prev_txbuffer' = o
    /\ Goto(o, "state_id")
    /\ UNCHANGED <<lmVars, requests, replies, alive, prev_state_id, prev_action_id,
                   prev_tti_counter, tableVars, overlapped>>

\* Mutant: the action is not kept.
Kept_Not(o) == IF prev_action_id = None THEN o ELSE prev_action_id

Kept(o) == o

\* The three assignments at the end.
Keep(o) ==
    /\ \/ /\ handler[o].pc = "state_id"
          /\ prev_state_id' = o
          /\ Goto(o, "action_id")
          /\ UNCHANGED <<prev_action_id, prev_tti_counter>>
       \/ /\ handler[o].pc = "action_id"
          /\ prev_action_id' = Kept(o)
          /\ Goto(o, "tti_counter")
          /\ UNCHANGED <<prev_state_id, prev_tti_counter>>
       \/ /\ handler[o].pc = "tti_counter"
          /\ prev_tti_counter' = o
          /\ Goto(o, "return")
          /\ UNCHANGED <<prev_state_id, prev_action_id>>
    /\ UNCHANGED <<lmVars, requests, replies, alive, prev_txbuffer, tableVars, overlapped>>

\* Mutant: the thread never becomes free.
Freed_Not(o) == handler

Freed(o) == [x \in DOMAIN handler \ {o} |-> handler[x]]

\* The answer; nobody receives the answer of a void call.
Return(o) ==
    /\ handler[o].pc = "return"
    /\ handler' = Freed(o)
    /\ replies' = IF call = o THEN replies \cup {o} ELSE replies
    /\ UNCHANGED <<lmVars, requests, alive, prevVars, tableVars, overlapped>>

\* One step of the thread of o.
Thread(o) ==
    /\ o \in DOMAIN handler
    /\ \/ Check(o) \/ Read(o) \/ Update(o) \/ Write(o) \/ Save(o)
       \/ Select(o) \/ Keep(o) \/ Return(o)

\* The process ends, at any point of its threads.
Stop ==
    /\ alive
    /\ alive' = FALSE
    /\ handler' = EmptyMap /\ requests' = {} /\ replies' = {}
    /\ UNCHANGED <<lmVars, prevVars, tableVars, overlapped>>

\* The table of the checkpoint, or an empty one if that cannot be read.
Loaded == IF file = None THEN {} ELSE file

\* __init__()
Boot ==
    /\ ~alive
    /\ alive' = TRUE
    /\ Servicer(Loaded)
    /\ UNCHANGED <<lmVars, requests, replies, handler, file, overlapped>>

-----------------------------------------------------------------------------

Lm == PushObservation \/ Answered \/ Failed \/ Simulate
Agent == Stop \/ Boot \/ \E o \in Obs : Start(o) \/ Thread(o)

Next == Lm \/ Agent

Spec == Init /\ [][Next]_vars

\* The operating system runs every thread, and the pool takes every call.
FairSpec == Spec /\ \A o \in Obs : WF_vars(Start(o)) /\ WF_vars(Thread(o))

-----------------------------------------------------------------------------
(* Properties.                                                             *)

\* The state: observations, threads and tables are what their names say, and
\* an agent that does not run has no threads.
TypeOK ==
    /\ epoch \in DOMAIN MaxTti /\ ttiCounter \in 0..MaxTti[epoch]
    /\ {call, prev_state_id, prev_action_id, prev_tti_counter, prev_txbuffer}
         \subseteq Obs \cup {None}
    /\ requests \cup replies \cup DOMAIN handler \subseteq Obs
    /\ table \subseteq Transition
    /\ file = None \/ file \subseteq Transition
    /\ _updates \in Nat
    /\ Cardinality(DOMAIN handler) <= Workers
    /\ ~alive => handler = EmptyMap /\ requests = {}

\* As long as no deadline expires, threads, which share the servicer's fields
\* without a lock, never run together, and what the agent learns is what happened:
\* state, action and buffers are of one observation, the next one of the same
\* simulation follows it, and Run() has received the action.
LearnsWhatHappened ==
    ~gaveUp =>
        /\ ~overlapped
        /\ \A t \in table :
            /\ t.state = t.action /\ t.state = t.buffer
            /\ t.next.epoch = t.state.epoch
            /\ t.next.tti = t.state.tti + 1
            /\ t.action # call

\* Expired deadlines alone do not mix observations: until two threads have run
\* together, a transition has its state, action and buffers from a single
\* observation, and one that came earlier in the same simulation.
TransitionsWhole ==
    ~overlapped =>
        \A t \in table :
            /\ t.state = t.action /\ t.state = t.buffer
            /\ t.next.epoch = t.state.epoch => t.state.tti < t.next.tti

\* An agent that is stopped at any moment has a checkpoint from which at most
\* _save_every updates are missing, unless it is stopped while it is saving.
CheckpointRecent ==
    ~overlapped /\ alive /\ file # None =>
        file \subseteq table /\ Cardinality(table \ file) <= SaveEvery

\* Every call that reaches the agent leaves its queue: the pool does not run
\* out of threads.
PoolDrains == \A o \in Obs : o \in requests ~> o \notin requests
=============================================================================
