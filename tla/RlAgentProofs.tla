--------------------------- MODULE RlAgentProofs ----------------------------
(***************************************************************************)
(* Proofs about the reinforcement-learning loop, for any number of         *)
(* simulations, observations and threads, and any saving interval.         *)
(***************************************************************************)
EXTENDS RlAgent, FiniteSetTheorems, TLAPS

Reading == {"reward", "state", "action", "update", "write"}

\* Where a thread is before it changes the fields of the servicer, and after.
Before == {"check", "save", "saved", "select"} \cup Reading
After == {"state_id", "action_id", "tti_counter", "return"}

Thinks == [pc : Before \cup After, state : Obs \cup {None}, action : Obs \cup {None},
           buffer : Obs \cup {None}, Q : SUBSET Transition]

\* What a thread has read is there.
HasRead(o) ==
    LET h == handler[o] IN
    /\ h.pc \in {"reward", "state", "action"} =>
         None \notin {prev_state_id, prev_action_id, prev_txbuffer}
    /\ h.pc \in {"state", "action", "update", "write"} => h.buffer # None
    /\ h.pc \in {"action", "update", "write"} => h.state # None
    /\ h.pc \in {"update", "write"} => h.action # None
    /\ h.pc = "state_id" => prev_txbuffer # None

\* The strengthening of TypeOK.
TypeInv ==
    /\ TypeOK
    /\ IsFiniteSet(DOMAIN handler)
    /\ handler \in [DOMAIN handler -> Thinks]
    /\ prev_state_id # None => prev_txbuffer # None
    /\ \A o \in DOMAIN handler : HasRead(o)

-----------------------------------------------------------------------------
(* One thread at a time.                                                   *)

Serial == \A o, p \in DOMAIN handler : o = p

\* The four fields are of one observation, or none.
Settled ==
    /\ prev_action_id = prev_state_id
    /\ prev_tti_counter = prev_state_id
    /\ prev_txbuffer = prev_state_id

\* What a thread that is alone finds, has read and has written.
Progress(o) ==
    LET h == handler[o] IN
    /\ h.pc \in Before => Settled
    /\ h.pc \in Reading => prev_state_id # None /\ prev_state_id.tti < o.tti
    /\ h.pc \in {"state", "action", "update", "write"} => h.buffer = prev_state_id
    /\ h.pc \in {"action", "update", "write"} => h.state = prev_state_id
    /\ h.pc \in {"update", "write"} => h.action = prev_state_id
    /\ h.pc = "write" => h.Q = table
    /\ h.pc \in After => prev_txbuffer = o
    /\ h.pc \in After \ {"state_id"} => prev_state_id = o
    /\ h.pc \in {"tti_counter", "return"} => prev_action_id = o
    /\ h.pc = "return" => prev_tti_counter = o

Whole(t) == t.state = t.action /\ t.state = t.buffer /\ t.state.tti < t.next.tti

\* The strengthening of TransitionsWhole.
WholeInv ==
    ~overlapped =>
        /\ Serial
        /\ alive /\ handler = EmptyMap => Settled
        /\ \A o \in DOMAIN handler : Progress(o)
        /\ \A t \in table : Whole(t)
        /\ file # None => \A t \in file : Whole(t)

\* The table, the checkpoint and what a thread has read are finite.
Finite ==
    /\ IsFiniteSet(table)
    /\ file # None => IsFiniteSet(file)
    /\ \A o \in DOMAIN handler : IsFiniteSet(handler[o].Q)

\* The checkpoint lacks the updates since the count was last a multiple of
\* _save_every, or a thread is about to save the rest.
Recent ==
    /\ file \subseteq table
    /\ \/ Cardinality(table \ file) <= _updates % SaveEvery
       \/ /\ Cardinality(table \ file) <= SaveEvery
          /\ \E o \in DOMAIN handler : handler[o].pc = "save"

\* The strengthening of CheckpointRecent.
RecentInv == ~overlapped /\ alive /\ file # None => Recent

-----------------------------------------------------------------------------
(* One call at a time.                                                     *)

\* The observations of this simulation that Run() has the answers of.
Done == IF call = None THEN ttiCounter ELSE ttiCounter - 1

\* x is the last observation before the n-th of this simulation.
Precedes(x, n) ==
    IF n = 0 THEN x.epoch < epoch ELSE x = [epoch |-> epoch, tti |-> n - 1]

\* Run() has received the answer to x.
Received(x) ==
    /\ x # call
    /\ x.epoch < epoch \/ (x.epoch = epoch /\ x.tti < ttiCounter)

Happened(t) ==
    /\ t.next.epoch = t.state.epoch
    /\ t.next.tti = t.state.tti + 1
    /\ Received(t.state)

\* Calls are answered one by one: a call is in one place at a time, and what
\* the servicer remembers is the observation before it.
Orderly ==
    /\ ~overlapped
    /\ call # None => ttiCounter > 0 /\ call = [epoch |-> epoch, tti |-> ttiCounter - 1]
    /\ requests \cup replies \cup DOMAIN handler \subseteq {call}
    /\ requests # {} => handler = EmptyMap /\ replies = {}
    /\ replies # {} => handler = EmptyMap /\ alive /\ prev_state_id = call
    /\ alive /\ replies = {} /\ (\A o \in DOMAIN handler : handler[o].pc \in Before) =>
         prev_state_id = None \/ Precedes(prev_state_id, Done)
    /\ \A t \in table : Happened(t)
    /\ file # None => \A t \in file : Happened(t)

\* The strengthening of LearnsWhatHappened.
HappenedInv == ~gaveUp => Orderly

-----------------------------------------------------------------------------
(* Types.                                                                  *)

\* An observation is a record of naturals, and no observation is None.
LEMMA ObsTyped ==
    /\ \A o \in Obs : o \in [epoch : Nat, tti : Nat]
    /\ None \notin Obs
<1>1. ASSUME NEW e \in DOMAIN MaxTti, NEW o \in [epoch : {e}, tti : 0..MaxTti[e] - 1]
      PROVE  o \in [epoch : Nat, tti : Nat]
    BY <1>1, RlAssumption
<1> QED BY <1>1, RlAssumption, Zenon DEF Obs

\* The observation that Run() pushes is one.
LEMMA Pushed ==
    ASSUME NEW e \in DOMAIN MaxTti, NEW n \in 0..MaxTti[e] - 1
    PROVE  [epoch |-> e, tti |-> n] \in Obs
BY DEF Obs

\* A thread that goes on keeps no more than its place.
LEMMA AtTyped ==
    ASSUME NEW pc \in Before \cup After
    PROVE  At(pc) \in Thinks /\ At(pc).pc = pc
BY Zenon DEF At, Thinks

\* A step of the thread of o leaves the other threads where they are.
LEMMA OthersStay ==
    ASSUME TypeInv, NEW o \in DOMAIN handler, NEW h \in Thinks,
           handler' = [handler EXCEPT ![o] = h]
    PROVE  /\ DOMAIN handler' = DOMAIN handler
           /\ handler' \in [DOMAIN handler' -> Thinks]
           /\ handler'[o] = h
           /\ \A p \in DOMAIN handler : p # o => handler'[p] = handler[p]
BY Zenon DEF TypeInv

\* The local state that the next step of the thread of o leaves.
LEMMA ReadTyped ==
    ASSUME TypeInv, NEW o \in DOMAIN handler, Read(o) \/ Update(o)
    PROVE  \E h \in Thinks :
              /\ handler' = [handler EXCEPT ![o] = h]
              /\ \/ /\ handler[o].pc = "reward"
                    /\ h = [handler[o] EXCEPT !.pc = "state", !.buffer = prev_txbuffer]
                 \/ /\ handler[o].pc = "state"
                    /\ h = [handler[o] EXCEPT !.pc = "action", !.state = prev_state_id]
                 \/ /\ handler[o].pc = "action"
                    /\ h = [handler[o] EXCEPT !.pc = "update", !.action = prev_action_id]
                 \/ /\ handler[o].pc = "update"
                    /\ h = [handler[o] EXCEPT !.pc = "write", !.Q = table]
<1>0. handler[o] \in Thinks /\ handler \in [DOMAIN handler -> Thinks]
    BY Zenon DEF TypeInv
<1>a. /\ prev_txbuffer \in Obs \cup {None} /\ prev_state_id \in Obs \cup {None}
      /\ prev_action_id \in Obs \cup {None} /\ table \in SUBSET Transition
    BY Zenon DEF TypeInv, TypeOK
<1>1. CASE /\ handler[o].pc = "reward"
           /\ handler' = [handler EXCEPT ![o].pc = "state", ![o].buffer = prev_txbuffer]
    <2> DEFINE h == [handler[o] EXCEPT !.pc = "state", !.buffer = prev_txbuffer]
    <2>1. h \in Thinks
        BY <1>0, <1>a, Zenon DEF Thinks, Before, Reading
    <2>2. handler' = [handler EXCEPT ![o] = h]
        BY <1>0, <1>1, Zenon
    <2> QED BY <1>1, <2>1, <2>2, Zenon
<1>2. CASE /\ handler[o].pc = "state"
           /\ handler' = [handler EXCEPT ![o].pc = "action", ![o].state = prev_state_id]
    <2> DEFINE h == [handler[o] EXCEPT !.pc = "action", !.state = prev_state_id]
    <2>1. h \in Thinks
        BY <1>0, <1>a, Zenon DEF Thinks, Before, Reading
    <2>2. handler' = [handler EXCEPT ![o] = h]
        BY <1>0, <1>2, Zenon
    <2> QED BY <1>2, <2>1, <2>2, Zenon
<1>3. CASE /\ handler[o].pc = "action"
           /\ handler' = [handler EXCEPT ![o].pc = "update", ![o].action = prev_action_id]
    <2> DEFINE h == [handler[o] EXCEPT !.pc = "update", !.action = prev_action_id]
    <2>1. h \in Thinks
        BY <1>0, <1>a, Zenon DEF Thinks, Before, Reading
    <2>2. handler' = [handler EXCEPT ![o] = h]
        BY <1>0, <1>3, Zenon
    <2> QED BY <1>3, <2>1, <2>2, Zenon
<1>4. CASE Update(o)
    <2> DEFINE h == [handler[o] EXCEPT !.pc = "write", !.Q = table]
    <2>1. h \in Thinks
        BY <1>0, <1>a, Zenon DEF Thinks, Before, Reading
    <2>2. handler' = [handler EXCEPT ![o] = h]
        BY <1>0, <1>4, Zenon DEF Update
    <2> QED BY <1>4, <2>1, <2>2, Zenon DEF Update
<1> QED BY <1>1, <1>2, <1>3, <1>4, Zenon DEF Read

\* What is left to show of a step of the thread of o, other than its last.
LEMMA ThreadTyped ==
    ASSUME TypeInv, NEW o \in DOMAIN handler, NEW h \in Thinks,
           handler' = [handler EXCEPT ![o] = h],
           prev_state_id' \in {prev_state_id, o}, prev_action_id' \in {prev_action_id, o},
           prev_tti_counter' \in {prev_tti_counter, o}, prev_txbuffer' \in {prev_txbuffer, o},
           prev_state_id' # None => prev_txbuffer' # None,
           HasRead(o)',
           table' \subseteq Transition, file' = None \/ file' \subseteq Transition,
           _updates' \in Nat,
           UNCHANGED <<lmVars, requests, replies, alive>>
    PROVE  TypeInv'
<1>1. /\ DOMAIN handler' = DOMAIN handler
      /\ handler' \in [DOMAIN handler' -> Thinks]
      /\ \A p \in DOMAIN handler : p # o => handler'[p] = handler[p]
    BY OthersStay, Zenon
<1>2. o \in Obs /\ o # None
    BY ObsTyped, Zenon DEF TypeInv, TypeOK
<1>3. TypeOK'
    <2>1. alive
        BY Zenon DEF TypeInv, TypeOK, EmptyMap
    <2>2. /\ epoch' \in DOMAIN MaxTti /\ ttiCounter' \in 0..MaxTti[epoch']
          /\ {call', prev_state_id', prev_action_id', prev_tti_counter', prev_txbuffer'}
               \subseteq Obs \cup {None}
          /\ requests' \cup replies' \cup DOMAIN handler' \subseteq Obs
          /\ Cardinality(DOMAIN handler') <= Workers
        BY <1>1, <1>2, Zenon DEF TypeInv, TypeOK, lmVars
    <2> QED BY <2>1, <2>2, Zenon DEF TypeOK
<1>4. \A p \in DOMAIN handler' : HasRead(p)'
    <2>1. ASSUME NEW p \in DOMAIN handler, p # o PROVE HasRead(p)'
        BY <1>1, <1>2, <2>1, Zenon DEF TypeInv, HasRead
    <2> QED BY <1>1, <2>1, Zenon
<1> QED BY <1>1, <1>3, <1>4, Zenon DEF TypeInv

\* The types are inductive.
LEMMA TypeStep == TypeInv /\ [Next]_vars => TypeInv'
<1> SUFFICES ASSUME TypeInv, [Next]_vars PROVE TypeInv'
    BY Zenon
<1> USE DEF lmVars, prevVars, tableVars
<1>1. ASSUME UNCHANGED <<handler, prevVars>>, TypeOK' PROVE TypeInv'
    BY <1>1, Zenon DEF TypeInv, HasRead
<1>2. CASE PushObservation
    <2>1. /\ epoch \in DOMAIN MaxTti /\ ttiCounter \in 0..MaxTti[epoch] - 1
          /\ ttiCounter' \in 0..MaxTti[epoch]
        BY <1>2, RlAssumption DEF PushObservation, TypeInv, TypeOK
    <2>2. call' \in Obs
        BY <1>2, <2>1, Pushed, Zenon DEF PushObservation
    <2>3. TypeOK'
        BY <1>2, <2>1, <2>2 DEF PushObservation, TypeInv, TypeOK
    <2> QED BY <1>1, <1>2, <2>3, Zenon DEF PushObservation
<1>3. CASE Answered \/ Failed
    <2>1. TypeOK'
        BY <1>3 DEF Answered, Failed, TypeInv, TypeOK
    <2> QED BY <1>1, <1>3, <2>1, Zenon DEF Answered, Failed
<1>4. CASE Simulate
    <2>1. epoch' \in DOMAIN MaxTti /\ ttiCounter' \in 0..MaxTti[epoch']
        BY <1>4, RlAssumption DEF Simulate, TypeInv, TypeOK
    <2>2. TypeOK'
        BY <1>4, <2>1, Zenon DEF Simulate, TypeInv, TypeOK
    <2> QED BY <1>1, <1>4, <2>2, Zenon DEF Simulate
<1>5. CASE Stop
    <2>1. DOMAIN handler' = {} /\ IsFiniteSet({}) /\ Cardinality({}) <= Workers
        BY <1>5, FS_EmptySet, RlAssumption DEF Stop, EmptyMap
    <2>2. TypeOK'
        BY <1>5, <2>1, Zenon DEF Stop, TypeInv, TypeOK
    <2> QED BY <1>5, <2>1, <2>2, Zenon DEF Stop, TypeInv, EmptyMap
<1>6. CASE Boot
    <2>1. DOMAIN handler' = {} /\ handler' = handler
        BY <1>6, Zenon DEF Boot, TypeInv, TypeOK, EmptyMap
    <2>2. Loaded \subseteq Transition
        BY Zenon DEF Loaded, TypeInv, TypeOK
    <2>3. TypeOK'
        BY <1>6, <2>1, <2>2, Zenon DEF Boot, Servicer, TypeInv, TypeOK
    <2>4. prev_state_id' = None
        BY <1>6, Zenon DEF Boot, Servicer
    <2> QED BY <2>1, <2>3, <2>4, Zenon DEF TypeInv
<1>7. ASSUME NEW o \in Obs, Start(o) PROVE TypeInv'
    <2>1. CASE UNCHANGED handler
        <3>1. TypeOK'
            BY <1>7, <2>1, Zenon DEF Start, TypeInv, TypeOK
        <3> QED BY <1>1, <1>7, <2>1, <3>1, Zenon DEF Start
    <2>2. CASE handler' = Put(handler, o, At("check"))
        <3>1. /\ DOMAIN handler' = DOMAIN handler \cup {o}
              /\ \A p \in DOMAIN handler' :
                   handler'[p] = IF p = o THEN At("check") ELSE handler[p]
            BY <2>2, Zenon DEF Put
        <3>2. At("check") \in Thinks /\ At("check").pc = "check"
            BY AtTyped, Zenon DEF Before
        <3>3. handler' \in [DOMAIN handler' -> Thinks]
            BY <2>2, <3>1, <3>2, Zenon DEF Put, TypeInv
        <3>4. /\ IsFiniteSet(DOMAIN handler')
              /\ Cardinality(DOMAIN handler') <= Cardinality(DOMAIN handler) + 1
              /\ Cardinality(DOMAIN handler) \in Nat
            <4> PICK D : D = DOMAIN handler
                BY Zenon
            <4>1. IsFiniteSet(D)
                BY Zenon DEF TypeInv
            <4>2. /\ Cardinality(D) \in Nat
                  /\ IsFiniteSet(D \cup {o})
                  /\ Cardinality(D \cup {o}) = IF o \in D THEN Cardinality(D) ELSE Cardinality(D) + 1
                BY <4>1, FS_AddElement, FS_CardinalityType, Zenon
            <4> QED BY <3>1, <4>2
        <3>5. Cardinality(DOMAIN handler') <= Workers
            <4>1. Cardinality(DOMAIN handler) < Workers
                BY <1>7, Zenon DEF Start, Free
            <4>2. Cardinality(DOMAIN handler') \in Nat
                BY <3>4, FS_CardinalityType, Zenon
            <4> QED BY <3>4, <4>1, <4>2, RlAssumption
        <3>6. \A p \in DOMAIN handler' : HasRead(p)'
            BY <1>7, <3>1, <3>2, Zenon DEF Start, HasRead, TypeInv
        <3>7. TypeOK'
            BY <1>7, <3>1, <3>5, Zenon DEF Start, TypeInv, TypeOK
        <3> QED BY <1>7, <3>3, <3>4, <3>6, <3>7, Zenon DEF Start, TypeInv
    <2> QED BY <1>7, <2>1, <2>2, Zenon DEF Start
<1>8. ASSUME NEW o \in DOMAIN handler, Thread(o) PROVE TypeInv'
    <2>0. /\ o \in Obs /\ o # None /\ handler[o] \in Thinks /\ HasRead(o)
          /\ table \subseteq Transition /\ _updates \in Nat
          /\ file = None \/ file \subseteq Transition
          /\ prev_state_id # None => prev_txbuffer # None
        BY ObsTyped, Zenon DEF TypeInv, TypeOK
    <2>1. CASE Check(o)
        <3>1. PICK pc \in {"reward", "select"} :
                  /\ handler' = [handler EXCEPT ![o] = At(pc)]
                  /\ pc = "reward" => None \notin {prev_state_id, prev_action_id}
            BY <2>1, Zenon DEF Check, Goto
        <3>2. At(pc) \in Thinks /\ At(pc).pc = pc
            BY AtTyped, Zenon DEF Before, Reading
        <3>3. handler'[o] = At(pc)
            BY <3>1, <3>2, OthersStay, Zenon
        <3>4. HasRead(o)'
            BY <2>0, <2>1, <3>1, <3>2, <3>3, Zenon DEF Check, HasRead
        <3> QED BY <2>0, <2>1, <3>1, <3>2, <3>4, ThreadTyped, Zenon DEF Check
    <2>2. CASE Read(o) \/ Update(o)
        <3>1. PICK h \in Thinks :
              /\ handler' = [handler EXCEPT ![o] = h]
              /\ \/ /\ handler[o].pc = "reward"
                    /\ h = [handler[o] EXCEPT !.pc = "state", !.buffer = prev_txbuffer]
                 \/ /\ handler[o].pc = "state"
                    /\ h = [handler[o] EXCEPT !.pc = "action", !.state = prev_state_id]
                 \/ /\ handler[o].pc = "action"
                    /\ h = [handler[o] EXCEPT !.pc = "update", !.action = prev_action_id]
                 \/ /\ handler[o].pc = "update"
                    /\ h = [handler[o] EXCEPT !.pc = "write", !.Q = table]
            BY <2>2, ReadTyped, Zenon
        <3>2. handler'[o] = h
            BY <3>1, OthersStay, Zenon
        <3>3. UNCHANGED <<lmVars, requests, replies, alive, prevVars, tableVars, overlapped>>
            BY <2>2, Zenon DEF Read, Update
        <3>4. HasRead(o)'
            BY <2>0, <3>1, <3>2, <3>3, Zenon DEF HasRead, Thinks
        <3> QED BY <2>0, <3>1, <3>3, <3>4, ThreadTyped, Zenon
    <2>3. CASE Write(o)
        <3>1. PICK pc \in {"save", "select"} : handler' = [handler EXCEPT ![o] = At(pc)]
            BY <2>3, Zenon DEF Write, Goto
        <3>2. At(pc) \in Thinks /\ At(pc).pc = pc
            BY AtTyped, Zenon DEF Before, Reading
        <3>3. handler'[o] = At(pc)
            BY <3>1, <3>2, OthersStay, Zenon
        <3>4. HasRead(o)'
            BY <3>2, <3>3, Zenon DEF HasRead
        <3>5. Learned(o) \in Transition
            BY <2>0, <2>3, Zenon DEF Write, Learned, Transition, Thinks, HasRead
        <3>6. table' \subseteq Transition /\ _updates' \in Nat
            BY <2>0, <2>3, <3>5 DEF Write, Thinks
        <3> QED BY <2>0, <2>3, <3>1, <3>2, <3>4, <3>6, ThreadTyped, Zenon DEF Write
    <2>4. CASE Save(o)
        <3>1. PICK pc \in {"saved", "select"} : handler' = [handler EXCEPT ![o] = At(pc)]
            BY <2>4, Zenon DEF Save, Goto
        <3>2. At(pc) \in Thinks /\ At(pc).pc = pc
            BY AtTyped, Zenon DEF Before, Reading
        <3>3. handler'[o] = At(pc)
            BY <3>1, <3>2, OthersStay, Zenon
        <3>4. HasRead(o)'
            BY <3>2, <3>3, Zenon DEF HasRead
        <3>5. file' = None \/ file' \subseteq Transition
            BY <2>0, <2>4, Zenon DEF Save
        <3> QED BY <2>0, <2>4, <3>1, <3>2, <3>4, <3>5, ThreadTyped, Zenon DEF Save
    <2>5. CASE Select(o)
        <3>1. handler' = [handler EXCEPT ![o] = At("state_id")]
            BY <2>5, Zenon DEF Select, Goto
        <3>2. At("state_id") \in Thinks /\ At("state_id").pc = "state_id"
            BY AtTyped, Zenon DEF After
        <3>3. handler'[o] = At("state_id")
            BY <3>1, <3>2, OthersStay, Zenon
        <3>4. HasRead(o)'
            BY <2>0, <2>5, <3>2, <3>3, Zenon DEF Select, HasRead
        <3> QED BY <2>0, <2>5, <3>1, <3>2, <3>4, ThreadTyped, Zenon DEF Select
    <2>6. CASE Keep(o)
        <3>1. PICK pc \in {"action_id", "tti_counter", "return"} :
                  handler' = [handler EXCEPT ![o] = At(pc)]
            BY <2>6, Zenon DEF Keep, Goto
        <3>2. At(pc) \in Thinks /\ At(pc).pc = pc
            BY AtTyped, Zenon DEF After
        <3>3. handler'[o] = At(pc)
            BY <3>1, <3>2, OthersStay, Zenon
        <3>4. HasRead(o)'
            BY <3>2, <3>3, Zenon DEF HasRead
        <3>5. /\ prev_state_id' \in {prev_state_id, o} /\ prev_action_id' \in {prev_action_id, o}
              /\ prev_tti_counter' \in {prev_tti_counter, o} /\ prev_txbuffer' = prev_txbuffer
              /\ prev_state_id' # None => prev_txbuffer' # None
            BY <2>0, <2>6, Zenon DEF Keep, Kept, HasRead
        <3> QED BY <2>0, <2>6, <3>1, <3>2, <3>4, <3>5, ThreadTyped, Zenon DEF Keep
    <2>7. CASE Return(o)
        <3>1. /\ DOMAIN handler' = DOMAIN handler \ {o}
              /\ \A p \in DOMAIN handler' : handler'[p] = handler[p]
              /\ handler' = [p \in DOMAIN handler \ {o} |-> handler[p]]
            BY <2>7, Zenon DEF Return, Freed
        <3>2. handler' \in [DOMAIN handler' -> Thinks]
            BY <3>1, Zenon DEF TypeInv
        <3>3. IsFiniteSet(DOMAIN handler') /\ Cardinality(DOMAIN handler') <= Workers
            <4> PICK D : D = DOMAIN handler
                BY Zenon
            <4>1. /\ IsFiniteSet(D \ {o})
                  /\ Cardinality(D \ {o}) <= Cardinality(D)
                  /\ Cardinality(D \ {o}) \in Nat /\ Cardinality(D) \in Nat
                BY FS_CardinalityType, FS_Subset, Zenon DEF TypeInv
            <4>2. Cardinality(D) <= Workers
                BY Zenon DEF TypeInv, TypeOK
            <4> QED BY <3>1, <4>1, <4>2, RlAssumption
        <3>4. \A p \in DOMAIN handler' : HasRead(p)'
            BY <2>7, <3>1 DEF Return, HasRead, TypeInv
        <3>5. alive
            BY Zenon DEF TypeInv, TypeOK, EmptyMap
        <3>6. TypeOK'
            BY <2>0, <2>7, <3>1, <3>3, <3>5, Zenon DEF Return, TypeInv, TypeOK
        <3> QED BY <2>7, <3>2, <3>3, <3>4, <3>6, Zenon DEF Return, TypeInv
    <2> QED BY <1>8, <2>1, <2>2, <2>3, <2>4, <2>5, <2>6, <2>7, Zenon DEF Thread
<1>9. CASE UNCHANGED vars
    <2>1. TypeOK'
        BY <1>9, Zenon DEF vars, TypeInv, TypeOK
    <2> QED BY <1>1, <1>9, <2>1, Zenon DEF vars
<1> QED BY <1>2, <1>3, <1>4, <1>5, <1>6, <1>7, <1>8, <1>9, Zenon DEF Next, Lm, Agent, Thread

\* The servicer, the pool and the tables are empty at first.
LEMMA InitTyped == Init => TypeInv
<1> SUFFICES ASSUME Init PROVE TypeInv
    BY Zenon
<1>1. DOMAIN handler = {} /\ IsFiniteSet({}) /\ Cardinality({}) <= Workers
    BY FS_EmptySet, RlAssumption DEF Init, EmptyMap
<1>2. TypeOK
    BY <1>1, RlAssumption DEF Init, TypeOK
<1> QED BY <1>1, <1>2, Zenon DEF Init, TypeInv, EmptyMap

\* The variables keep their types: the pool never has more threads than
\* max_workers, no thread outlives the process, and update() never gets a state
\* or an action that is None.
THEOREM TypeCorrect == Spec => []TypeOK
<1>1. TypeInv => TypeOK
    BY Zenon DEF TypeInv
<1> QED BY <1>1, InitTyped, TypeStep, PTL DEF Spec

-----------------------------------------------------------------------------
(* The transitions are whole.                                              *)

\* A thread that is alone keeps what it has read and what it finds together.
LEMMA AloneStep ==
    ASSUME TypeInv, WholeInv, ~overlapped, NEW o \in DOMAIN handler, Thread(o), ~Return(o)
    PROVE  /\ DOMAIN handler' = {o} /\ UNCHANGED <<alive, overlapped>>
           /\ Progress(o)'
           /\ \A t \in table' : t \in table \/ (handler[o].pc = "write" /\ t = Learned(o))
           /\ handler[o].pc = "write" => Whole(Learned(o))
           /\ file' \in {file, table, None}
           /\ handler'[o].pc \in Before =>
                /\ handler[o].pc \in Before
                /\ UNCHANGED prev_state_id
<1> USE DEF lmVars, prevVars, tableVars
<1>0. /\ o \in Obs /\ o # None /\ handler[o] \in Thinks /\ Progress(o)
      /\ \A p \in DOMAIN handler : p = o
    BY ObsTyped, Zenon DEF TypeInv, TypeOK, WholeInv, Serial
<1>1. ASSUME NEW h \in Thinks, handler' = [handler EXCEPT ![o] = h]
      PROVE  DOMAIN handler' = {o} /\ handler'[o] = h
    <2>1. DOMAIN handler' = DOMAIN handler /\ handler'[o] = h
        BY <1>1, OthersStay, Zenon
    <2> QED BY <1>0, <2>1, Zenon
<1>2. ASSUME NEW pc \in Before \cup After, Goto(o, pc)
      PROVE  DOMAIN handler' = {o} /\ handler'[o] = At(pc) /\ handler'[o].pc = pc
    BY <1>1, <1>2, AtTyped, Zenon DEF Goto
<1>3. CASE Check(o)
    <2>1. PICK pc \in {"reward", "select"} :
              /\ Goto(o, pc)
              /\ pc = "reward" => /\ None \notin {prev_state_id, prev_action_id, prev_tti_counter}
                                  /\ Newer(o)
        BY <1>3, Zenon DEF Check
    <2>2. DOMAIN handler' = {o} /\ handler'[o].pc = pc
        BY <1>2, <2>1, Zenon DEF Before, Reading
    <2>3. Settled /\ handler[o].pc = "check"
        BY <1>0, <1>3, Zenon DEF Check, Progress, Before
    <2>4. pc = "reward" => prev_state_id.tti < o.tti
        <3>1. ASSUME pc = "reward" PROVE prev_state_id.tti < o.tti
            <4>1. prev_state_id \in [epoch : Nat, tti : Nat] /\ o \in [epoch : Nat, tti : Nat]
                BY <1>0, <2>1, <3>1, ObsTyped, Zenon DEF TypeInv, TypeOK
            <4>2. o.tti > prev_state_id.tti
                BY <2>1, <2>3, <3>1, Zenon DEF Newer, Settled
            <4> QED BY <4>1, <4>2, Zenon
        <3> QED BY <3>1, Zenon
    <2>5. Progress(o)'
        BY <1>3, <2>1, <2>2, <2>3, <2>4, Zenon DEF Check, Progress, Before, After, Reading, Settled
    <2> QED BY <1>3, <2>2, <2>3, <2>5, Zenon DEF Check, Before
<1>4. CASE Read(o) \/ Update(o)
    <2>1. PICK h \in Thinks :
              /\ handler' = [handler EXCEPT ![o] = h]
              /\ \/ /\ handler[o].pc = "reward"
                    /\ h = [handler[o] EXCEPT !.pc = "state", !.buffer = prev_txbuffer]
                 \/ /\ handler[o].pc = "state"
                    /\ h = [handler[o] EXCEPT !.pc = "action", !.state = prev_state_id]
                 \/ /\ handler[o].pc = "action"
                    /\ h = [handler[o] EXCEPT !.pc = "update", !.action = prev_action_id]
                 \/ /\ handler[o].pc = "update"
                    /\ h = [handler[o] EXCEPT !.pc = "write", !.Q = table]
        BY <1>4, ReadTyped, Zenon
    <2>2. DOMAIN handler' = {o} /\ handler'[o] = h
        BY <1>1, <2>1, Zenon
    <2>3. UNCHANGED <<lmVars, requests, replies, alive, prevVars, tableVars, overlapped>>
        BY <1>4, Zenon DEF Read, Update
    <2>4. handler[o].pc \in Reading \ {"write"} /\ Settled
        BY <1>0, <2>1, Zenon DEF Progress, Before, Reading
    <2>5. Progress(o)'
        BY <1>0, <2>1, <2>2, <2>3, <2>4, ZenonT(60)
        DEF Progress, Before, After, Reading, Settled, Thinks
    <2> QED BY <2>2, <2>3, <2>4, <2>5, Zenon DEF Before, Reading
<1>5. CASE Write(o)
    <2>1. PICK pc \in {"save", "select"} : Goto(o, pc)
        BY <1>5, Zenon DEF Write
    <2>2. DOMAIN handler' = {o} /\ handler'[o].pc = pc
        BY <1>2, <2>1, Zenon DEF Before, Reading
    <2>3. /\ Settled /\ handler[o].pc = "write" /\ handler[o].Q = table
          /\ prev_state_id.tti < o.tti /\ handler[o].state = prev_state_id
          /\ handler[o].action = prev_state_id /\ handler[o].buffer = prev_state_id
        BY <1>0, <1>5, Zenon DEF Write, Progress, Before, Reading
    <2>4. Progress(o)'
        BY <1>5, <2>1, <2>2, <2>3, Zenon DEF Write, Progress, Before, After, Reading, Settled
    <2>5. Whole(Learned(o))
        BY <2>3, Zenon DEF Whole, Learned
    <2>6. table' = table \cup {Learned(o)}
        BY <1>5, <2>3, Zenon DEF Write
    <2> QED BY <1>5, <2>2, <2>3, <2>4, <2>5, <2>6, Zenon DEF Write, Before, Reading
<1>6. CASE Save(o)
    <2>1. PICK pc \in {"saved", "select"} : Goto(o, pc)
        BY <1>6, Zenon DEF Save
    <2>2. DOMAIN handler' = {o} /\ handler'[o].pc = pc
        BY <1>2, <2>1, Zenon DEF Before, Reading
    <2>3. Settled /\ handler[o].pc \in {"save", "saved"}
        BY <1>0, <1>6, Zenon DEF Save, Progress, Before
    <2>4. Progress(o)'
        BY <1>6, <2>1, <2>2, <2>3, Zenon DEF Save, Progress, Before, After, Reading, Settled
    <2> QED BY <1>6, <2>2, <2>3, <2>4, Zenon DEF Save, Before
<1>7. CASE Select(o)
    <2>1. DOMAIN handler' = {o} /\ handler'[o].pc = "state_id"
        BY <1>2, <1>7, Zenon DEF Select, After
    <2>2. Progress(o)'
        BY <1>7, <2>1, Zenon DEF Select, Progress, Before, After, Reading
    <2> QED BY <1>7, <2>1, <2>2, Zenon DEF Select, Before, Reading
<1>8. CASE Keep(o)
    <2>1. PICK pc \in {"action_id", "tti_counter", "return"} : Goto(o, pc)
        BY <1>8, Zenon DEF Keep
    <2>2. /\ DOMAIN handler' = {o} /\ handler'[o].pc = pc /\ handler'[o] = At(pc)
          /\ handler[o].pc \in {"state_id", "action_id", "tti_counter"}
        BY <1>2, <1>8, <2>1, Zenon DEF Keep, After
    <2>3. handler'[o].pc = IF handler[o].pc = "state_id" THEN "action_id"
                           ELSE IF handler[o].pc = "action_id" THEN "tti_counter" ELSE "return"
        BY <1>2, <1>8, Zenon DEF Keep, After
    <2>4. Progress(o)'
        BY <1>0, <1>8, <2>2, <2>3, Zenon DEF Keep, Kept, Progress, Before, After, Reading
    <2> QED BY <1>8, <2>1, <2>2, <2>4, Zenon DEF Keep, Before, Reading
<1> QED BY <1>3, <1>4, <1>5, <1>6, <1>7, <1>8, Zenon DEF Thread

\* WholeInv is inductive.
LEMMA WholeStep == TypeInv /\ WholeInv /\ [Next]_vars => WholeInv'
<1> SUFFICES ASSUME TypeInv, WholeInv, [Next]_vars, ~overlapped'
             PROVE  /\ Serial'
                    /\ alive' /\ handler' = EmptyMap => Settled'
                    /\ \A o \in DOMAIN handler' : Progress(o)'
                    /\ \A t \in table' : Whole(t)
                    /\ file' # None => \A t \in file' : Whole(t)
    BY Zenon DEF WholeInv
<1> USE DEF lmVars, prevVars, tableVars
<1>0. ~overlapped => /\ Serial
                     /\ alive /\ handler = EmptyMap => Settled
                     /\ \A o \in DOMAIN handler : Progress(o)
                     /\ \A t \in table : Whole(t)
                     /\ file # None => \A t \in file : Whole(t)
    BY Zenon DEF WholeInv
<1>1. CASE Lm \/ UNCHANGED vars
    <2>1. UNCHANGED <<alive, handler, prevVars, tableVars, overlapped>>
        BY <1>1, Zenon DEF Lm, PushObservation, Answered, Failed, Simulate, vars
    <2> QED BY <1>0, <2>1, Zenon DEF Serial, Settled, Progress
<1>2. CASE Stop
    <2>1. DOMAIN handler' = {} /\ ~alive' /\ UNCHANGED <<tableVars, overlapped>>
        BY <1>2, Zenon DEF Stop, EmptyMap
    <2> QED BY <1>0, <2>1, Zenon DEF Serial
<1>3. CASE Boot
    <2>1. /\ handler = EmptyMap /\ handler' = handler /\ UNCHANGED <<file, overlapped>>
          /\ table' = Loaded
        BY <1>3, Zenon DEF Boot, Servicer, TypeInv, TypeOK
    <2>2. DOMAIN handler' = {}
        BY <2>1, Zenon DEF EmptyMap
    <2>3. Settled'
        BY <1>3, Zenon DEF Boot, Servicer, Settled
    <2> QED BY <1>0, <2>1, <2>2, <2>3, Zenon DEF Loaded, Serial
<1>4. ASSUME NEW o \in Obs, Start(o)
      PROVE  /\ Serial'
             /\ alive' /\ handler' = EmptyMap => Settled'
             /\ \A p \in DOMAIN handler' : Progress(p)'
             /\ UNCHANGED tableVars /\ ~overlapped
    <2>1. UNCHANGED <<alive, prevVars, tableVars>>
        BY <1>4, Zenon DEF Start
    <2>2. CASE UNCHANGED <<handler, overlapped>>
        BY <1>0, <2>1, <2>2, Zenon DEF Serial, Settled, Progress
    <2>3. CASE /\ handler' = Put(handler, o, At("check"))
               /\ overlapped' = (overlapped \/ handler # EmptyMap)
        <3>1. handler = EmptyMap /\ ~overlapped
            BY <2>3, Zenon
        <3>2. DOMAIN handler' = {o} /\ handler'[o] = At("check")
            BY <2>3, <3>1, Zenon DEF Put, EmptyMap
        <3>3. handler'[o].pc = "check"
            BY <3>2 DEF At
        <3>4. alive
            BY <1>4, Zenon DEF Start, TypeInv, TypeOK
        <3>5. Settled /\ Settled'
            BY <1>0, <2>1, <3>1, <3>4, Zenon DEF Settled
        <3>6. Progress(o)'
            BY <3>3, <3>5, Zenon DEF Progress, Before, After, Reading
        <3> QED BY <2>1, <3>1, <3>2, <3>5, <3>6, Zenon DEF Serial
    <2> QED BY <1>4, <2>2, <2>3, Zenon DEF Start
<1>5. ASSUME NEW o \in DOMAIN handler, Thread(o), ~Return(o)
      PROVE  /\ Serial'
             /\ alive' /\ handler' = EmptyMap => Settled'
             /\ \A p \in DOMAIN handler' : Progress(p)'
             /\ \A t \in table' : Whole(t)
             /\ file' # None => \A t \in file' : Whole(t)
    <2>1. ~overlapped
        BY <1>5, Zenon DEF Thread, Check, Read, Update, Write, Save, Select, Keep
    <2>2. /\ DOMAIN handler' = {o} /\ Progress(o)'
          /\ \A t \in table' : t \in table \/ (handler[o].pc = "write" /\ t = Learned(o))
          /\ handler[o].pc = "write" => Whole(Learned(o))
          /\ file' \in {file, table, None}
        BY <1>5, <2>1, AloneStep, Zenon
    <2>3. handler' # EmptyMap
        BY <2>2, Zenon DEF EmptyMap
    <2> QED BY <1>0, <2>1, <2>2, <2>3, Zenon DEF Serial
<1>6. ASSUME NEW o \in DOMAIN handler, Return(o)
      PROVE  DOMAIN handler' = {} /\ Settled' /\ UNCHANGED tableVars /\ ~overlapped
    <2>1. ~overlapped /\ UNCHANGED <<alive, prevVars, tableVars>>
        BY <1>6, Zenon DEF Return
    <2>2. DOMAIN handler' = {}
        BY <1>0, <1>6, <2>1, Zenon DEF Return, Freed, Serial
    <2>3. Settled'
        BY <1>0, <1>6, <2>1, Zenon DEF Return, Progress, After, Settled
    <2> QED BY <2>1, <2>2, <2>3, Zenon
<1>7. ASSUME NEW o \in DOMAIN handler, Return(o)
      PROVE  /\ Serial'
             /\ alive' /\ handler' = EmptyMap => Settled'
             /\ \A p \in DOMAIN handler' : Progress(p)'
             /\ \A t \in table' : Whole(t)
             /\ file' # None => \A t \in file' : Whole(t)
    BY <1>0, <1>6, <1>7, Zenon DEF Serial
<1> QED BY <1>0, <1>1, <1>2, <1>3, <1>4, <1>5, <1>7, Zenon DEF Next, Agent, Thread

\* Until two threads of the pool have run together, the Q-table has only
\* learned transitions whose state, action and buffers are of one observation,
\* one with a smaller counter than the next: over any number of expired
\* deadlines, calls that were dropped, simulations, and restarts of the agent,
\* whose servicer forgets its fields and loads what it has saved.
THEOREM TransitionsStayWhole == Spec => []TransitionsWhole
<1>1. Init => TypeInv /\ WholeInv
    <2> SUFFICES ASSUME Init PROVE TypeInv /\ WholeInv
        BY Zenon
    <2>1. DOMAIN handler = {}
        BY Zenon DEF Init, EmptyMap
    <2>2. WholeInv
        BY <2>1, Zenon DEF Init, WholeInv, Serial, Settled
    <2> QED BY <2>2, InitTyped, Zenon
<1>2. TypeInv /\ WholeInv /\ [Next]_vars => TypeInv' /\ WholeInv'
    BY TypeStep, WholeStep, Zenon
<1>3. WholeInv => TransitionsWhole
    BY Zenon DEF WholeInv, TransitionsWhole, Whole
<1> QED BY <1>1, <1>2, <1>3, PTL DEF Spec

-----------------------------------------------------------------------------
(* What is learned has happened.                                           *)

\* Nothing that Run() does makes an answer that it has received undone.
LEMMA HappenedKept ==
    ASSUME TypeInv,
           \/ UNCHANGED <<epoch, ttiCounter, call>>
           \/ UNCHANGED <<epoch, ttiCounter>> /\ call' = None
           \/ UNCHANGED epoch /\ call' = [epoch |-> epoch, tti |-> ttiCounter]
              /\ ttiCounter' = ttiCounter + 1
           \/ epoch' = epoch + 1 /\ call' = None,
           NEW t \in Transition, Happened(t)
    PROVE  Happened(t)'
<1>1. t.state \in [epoch : Nat, tti : Nat] /\ t.state # None
    BY ObsTyped, Zenon DEF Transition
<1>2. epoch \in Nat /\ ttiCounter \in Nat
    BY RlAssumption DEF TypeInv, TypeOK
<1> PICK x \in [epoch : Nat, tti : Nat] : x = t.state
    BY <1>1, Zenon
<1>3. Received(x)
    BY Zenon DEF Happened
<1>4. Received(x)'
    <2>1. CASE UNCHANGED <<epoch, ttiCounter, call>>
        BY <1>3, <2>1, Zenon DEF Received
    <2>2. CASE UNCHANGED <<epoch, ttiCounter>> /\ call' = None
        BY <1>1, <1>2, <1>3, <2>2, Zenon DEF Received
    <2>3. CASE UNCHANGED epoch /\ call' = [epoch |-> epoch, tti |-> ttiCounter]
               /\ ttiCounter' = ttiCounter + 1
        BY <1>1, <1>2, <1>3, <2>3 DEF Received
    <2>4. CASE epoch' = epoch + 1 /\ call' = None
        BY <1>1, <1>2, <1>3, <2>4 DEF Received
    <2> QED BY <2>1, <2>2, <2>3, <2>4, Zenon
<1> QED BY <1>4, Zenon DEF Happened

\* The steps of Run() keep calls, threads and answers in order.
LEMMA LmOrderly ==
    ASSUME TypeInv, WholeInv, Orderly, ~gaveUp', Lm
    PROVE  Orderly'
<1> USE DEF lmVars, prevVars, tableVars
<1>0. /\ epoch \in Nat /\ ttiCounter \in Nat /\ call \in Obs \cup {None}
      /\ requests \cup replies \cup DOMAIN handler \subseteq Obs
      /\ prev_state_id \in Obs \cup {None}
      /\ table \subseteq Transition /\ (file # None => file \subseteq Transition)
    BY RlAssumption DEF TypeInv, TypeOK
<1>a. /\ None \notin Obs
      /\ \A o \in Obs : o.epoch \in Nat /\ o.tti \in Nat
    BY ObsTyped, Zenon
<1>1. /\ \A t \in table' : Happened(t)'
      /\ file' # None => \A t \in file' : Happened(t)'
    <2>1. /\ UNCHANGED <<table, file>>
          /\ \/ UNCHANGED <<epoch, ttiCounter>> /\ call' = None
             \/ UNCHANGED epoch /\ call' = [epoch |-> epoch, tti |-> ttiCounter]
                /\ ttiCounter' = ttiCounter + 1
             \/ epoch' = epoch + 1 /\ call' = None
        BY <1>0, Zenon DEF Lm, PushObservation, Answered, Failed, Simulate
    <2>2. \A t \in table : Happened(t)'
        BY <1>0, <2>1, HappenedKept, Zenon DEF Orderly
    <2>3. file # None => \A t \in file : Happened(t)'
        BY <1>0, <2>1, HappenedKept, Zenon DEF Orderly
    <2> QED BY <2>1, <2>2, <2>3, Zenon
<1>2. CASE PushObservation
    <2>1. /\ call = None /\ UNCHANGED <<epoch, replies, alive, handler, prevVars, overlapped>>
          /\ call' = [epoch |-> epoch, tti |-> ttiCounter] /\ ttiCounter' = ttiCounter + 1
          /\ requests' \subseteq requests \cup {call'}
        BY <1>2, Zenon DEF PushObservation, Idle
    <2>2. requests = {} /\ replies = {} /\ DOMAIN handler = {}
        BY <1>0, <1>a, <2>1, Zenon DEF Orderly
    <2>3. handler = EmptyMap
        <3>1. handler = [o \in {} |-> handler[o]]
            BY <2>2, Zenon DEF TypeInv
        <3> QED BY <3>1, Zenon DEF EmptyMap
    <2>4. Done = ttiCounter /\ Done' = ttiCounter
        BY <1>0, <2>1, RlAssumption DEF Done
    <2>5. ttiCounter' > 0 /\ ttiCounter' - 1 = ttiCounter
        BY <1>0, <2>1
    <2>6. alive => prev_state_id = None \/ Precedes(prev_state_id, Done)
        BY <2>2, Zenon DEF Orderly
    <2>7. alive' => prev_state_id' = None \/ Precedes(prev_state_id, Done)'
        BY <2>1, <2>4, <2>6, Zenon DEF Precedes
    <2> QED BY <1>1, <2>1, <2>2, <2>3, <2>5, <2>7, Zenon DEF Orderly
<1>3. CASE Answered
    <2>1. /\ call \in replies /\ replies' = replies \ {call} /\ call' = None
          /\ UNCHANGED <<epoch, ttiCounter, requests, alive, handler, prevVars, overlapped>>
        BY <1>3, Zenon DEF Answered
    <2>2. /\ requests = {} /\ replies' = {} /\ handler = EmptyMap /\ call # None
          /\ prev_state_id = call
        BY <1>0, <1>a, <2>1, Zenon DEF Orderly
    <2>3. DOMAIN handler = {}
        BY <2>2, Zenon DEF EmptyMap
    <2>4. /\ ttiCounter > 0 /\ Done' = ttiCounter
          /\ prev_state_id = [epoch |-> epoch, tti |-> ttiCounter - 1]
        BY <2>1, <2>2, Zenon DEF Orderly, Done
    <2>5. Precedes(prev_state_id, Done)'
        BY <1>0, <2>1, <2>4 DEF Precedes
    <2> QED BY <1>1, <2>1, <2>2, <2>3, <2>5, Zenon DEF Orderly
<1>4. CASE Simulate
    <2>1. /\ call = None /\ call' = None /\ epoch' = epoch + 1 /\ ttiCounter' = 0
          /\ replies' = {} /\ UNCHANGED <<requests, alive, handler, prevVars, overlapped>>
        BY <1>4, Zenon DEF Simulate
    <2>2. requests = {} /\ replies = {} /\ DOMAIN handler = {}
        BY <1>0, <1>a, <2>1, Zenon DEF Orderly
    <2>3. alive => prev_state_id = None \/ Precedes(prev_state_id, Done)
        BY <2>2, Zenon DEF Orderly
    <2>4. ASSUME prev_state_id # None, Precedes(prev_state_id, Done)
          PROVE  prev_state_id.epoch < epoch + 1
        BY <1>0, <1>a, <2>4 DEF Precedes
    <2>5. Done' = 0
        BY <2>1, Zenon DEF Done
    <2>6. alive' => prev_state_id' = None \/ Precedes(prev_state_id, Done)'
        BY <2>1, <2>3, <2>4, <2>5, Zenon DEF Precedes
    <2> QED BY <1>1, <2>1, <2>2, <2>6, Zenon DEF Orderly
<1>5. CASE Failed
    BY <1>5, Zenon DEF Failed
<1> QED BY <1>2, <1>3, <1>4, <1>5, Zenon DEF Lm

\* The steps of the agent keep calls, threads and answers in order.
LEMMA AgentOrderly ==
    ASSUME TypeInv, WholeInv, Orderly, Agent
    PROVE  Orderly'
<1> USE DEF lmVars, prevVars, tableVars
<1>0. /\ epoch \in Nat /\ ttiCounter \in Nat /\ call \in Obs \cup {None}
      /\ requests \cup replies \cup DOMAIN handler \subseteq Obs
      /\ prev_state_id \in Obs \cup {None}
      /\ table \subseteq Transition /\ (file # None => file \subseteq Transition)
    BY RlAssumption DEF TypeInv, TypeOK
<1>a. /\ None \notin Obs
      /\ \A o \in Obs : o.epoch \in Nat /\ o.tti \in Nat
    BY ObsTyped, Zenon
<1>1. /\ UNCHANGED <<epoch, ttiCounter, call>>
      /\ \A t : Happened(t)' <=> Happened(t)
      /\ \A x : Precedes(x, Done)' <=> Precedes(x, Done)
    <2>1. UNCHANGED <<epoch, ttiCounter, call>>
        BY Zenon DEF Agent, Stop, Boot, Start, Thread, Check, Read, Update, Write, Save, Select,
               Keep, Return
    <2> QED BY <2>1, Zenon DEF Happened, Received, Precedes, Done
<1>2. CASE Stop
    <2>1. DOMAIN handler' = {} /\ requests' = {} /\ replies' = {} /\ ~alive'
          /\ UNCHANGED <<table, file, overlapped>>
        BY <1>2, Zenon DEF Stop, EmptyMap
    <2> QED BY <1>1, <2>1, Zenon DEF Orderly
<1>3. CASE Boot
    <2>1. /\ prev_state_id' = None /\ table' = Loaded
          /\ UNCHANGED <<requests, replies, handler, file, overlapped>>
          /\ ~alive /\ alive'
        BY <1>3, Zenon DEF Boot, Servicer
    <2>2. replies = {}
        BY <2>1, Zenon DEF Orderly
    <2>3. \A t \in table' : Happened(t)
        BY <2>1, Zenon DEF Loaded, Orderly
    <2> QED BY <1>1, <2>1, <2>2, <2>3, Zenon DEF Orderly
<1>4. ASSUME NEW o \in Obs, Start(o) PROVE Orderly'
    <2>1. /\ o \in requests /\ o = call /\ requests = {o} /\ replies = {} /\ handler = EmptyMap
          /\ alive
        BY <1>4, Zenon DEF Start, Orderly, TypeInv, TypeOK
    <2>2. /\ handler' = Put(handler, o, At("check")) /\ ~overlapped'
          /\ requests' = {} /\ UNCHANGED <<replies, alive, prev_state_id, table, file>>
        BY <1>4, <2>1, Zenon DEF Start, Orderly
    <2>3. DOMAIN handler' = {o}
        BY <2>1, <2>2, Zenon DEF Put, EmptyMap
    <2>4. DOMAIN handler = {}
        BY <2>1, Zenon DEF EmptyMap
    <2>5. prev_state_id = None \/ Precedes(prev_state_id, Done)
        BY <2>1, <2>4, Zenon DEF Orderly
    <2> QED BY <1>1, <2>1, <2>2, <2>3, <2>5, Zenon DEF Orderly
<1>5. ASSUME NEW o \in DOMAIN handler, Thread(o), ~Return(o) PROVE Orderly'
    <2>1. /\ DOMAIN handler' = {o} /\ UNCHANGED <<alive, overlapped>>
          /\ \A t \in table' : t \in table \/ (handler[o].pc = "write" /\ t = Learned(o))
          /\ file' \in {file, table, None}
          /\ handler'[o].pc \in Before => handler[o].pc \in Before /\ UNCHANGED prev_state_id
        BY <1>5, AloneStep, Zenon DEF Orderly
    <2>2. UNCHANGED <<requests, replies>>
        BY <1>5, Zenon DEF Thread, Check, Read, Update, Write, Save, Select, Keep
    <2>3. /\ o = call /\ o # None /\ requests = {} /\ replies = {} /\ alive
          /\ \A p \in DOMAIN handler : p = o
        BY <1>0, <1>5, <1>a, Zenon DEF Orderly, EmptyMap, TypeInv, TypeOK
    <2>4. handler[o].pc \in Before => prev_state_id = None \/ Precedes(prev_state_id, Done)
        BY <2>3, Zenon DEF Orderly
    <2>5. ASSUME handler[o].pc = "write" PROVE Happened(Learned(o))
        <3>1. /\ handler[o].state = prev_state_id /\ prev_state_id # None
              /\ prev_state_id.tti < o.tti
            BY <2>5, Zenon DEF Orderly, WholeInv, Progress, Reading
        <3>2. /\ ttiCounter > 0 /\ o = [epoch |-> epoch, tti |-> ttiCounter - 1]
              /\ Done = ttiCounter - 1
            BY <2>3, Zenon DEF Orderly, Done
        <3>3. Precedes(prev_state_id, Done)
            BY <2>4, <2>5, <3>1, Zenon DEF Before, Reading
        <3>4. Done # 0
            BY <1>0, <1>a, <3>1, <3>2
        <3>5. prev_state_id = [epoch |-> epoch, tti |-> ttiCounter - 2]
            BY <1>0, <3>2, <3>3, <3>4 DEF Precedes
        <3>6. Received(prev_state_id)
            BY <1>0, <2>3, <3>2, <3>5 DEF Received
        <3>7. o.epoch = prev_state_id.epoch /\ o.tti = prev_state_id.tti + 1
            BY <1>0, <3>2, <3>5
        <3> QED BY <3>1, <3>6, <3>7, Zenon DEF Happened, Learned
    <2>6. \A t \in table' : Happened(t)
        BY <2>1, <2>5, Zenon DEF Orderly
    <2>7. file' # None => \A t \in file' : Happened(t)
        BY <2>1, Zenon DEF Orderly
    <2> QED BY <1>1, <2>1, <2>2, <2>3, <2>4, <2>6, <2>7, Zenon DEF Orderly
<1>6. ASSUME NEW o \in DOMAIN handler, Return(o) PROVE Orderly'
    <2>1. /\ o = call /\ requests = {} /\ replies = {} /\ alive /\ DOMAIN handler = {o}
        BY <1>0, <1>6, <1>a, Zenon DEF Orderly, EmptyMap, TypeInv, TypeOK
    <2>2. /\ replies' = {call} /\ handler' = [x \in {} |-> handler[x]]
          /\ UNCHANGED <<requests, alive, prev_state_id, table, file, overlapped>>
        BY <1>6, <2>1, Zenon DEF Return, Freed
    <2>3. handler' = EmptyMap /\ DOMAIN handler' = {}
        BY <2>2, Zenon DEF EmptyMap
    <2>4. prev_state_id = call
        BY <1>6, <2>1, Zenon DEF Return, Orderly, WholeInv, Progress, After
    <2> QED BY <1>1, <2>1, <2>2, <2>3, <2>4, Zenon DEF Orderly
<1> QED BY <1>2, <1>3, <1>4, <1>5, <1>6, Zenon DEF Agent, Thread

\* As long as Run() has had an answer to each of its calls, threads have not
\* run together, and every transition of the Q-table is one of the simulation:
\* from an observation whose action Run() has received to the next one of the
\* same simulation. This goes for any number of simulations and for an agent
\* that is stopped and started between two calls.
THEOREM WhatIsLearnedHappened == Spec => []LearnsWhatHappened
<1>1. Init => TypeInv /\ WholeInv /\ HappenedInv
    <2> SUFFICES ASSUME Init PROVE TypeInv /\ WholeInv /\ HappenedInv
        BY Zenon
    <2>1. DOMAIN handler = {}
        BY Zenon DEF Init, EmptyMap
    <2>2. WholeInv
        BY <2>1, Zenon DEF Init, WholeInv, Serial, Settled
    <2>3. HappenedInv
        BY <2>1, Zenon DEF Init, HappenedInv, Orderly
    <2> QED BY <2>2, <2>3, InitTyped, Zenon
<1>2. TypeInv /\ WholeInv /\ HappenedInv /\ [Next]_vars => TypeInv' /\ WholeInv' /\ HappenedInv'
    <2> SUFFICES ASSUME TypeInv, WholeInv, HappenedInv, [Next]_vars, ~gaveUp'
                 PROVE  Orderly'
        BY TypeStep, WholeStep, Zenon DEF HappenedInv
    <2>1. Orderly
        BY Zenon DEF HappenedInv, Next, Lm, PushObservation, Answered, Failed, Simulate, Agent, Stop,
               Boot, Start, Thread, Check, Read, Update, Write, Save, Select, Keep, Return,
               vars, lmVars
    <2>2. CASE UNCHANGED vars
        BY <2>1, <2>2, Zenon DEF vars, lmVars, prevVars, tableVars, Orderly, Happened, Received,
                          Precedes, Done
    <2> QED BY <2>1, <2>2, LmOrderly, AgentOrderly, Zenon DEF Next
<1>3. TypeInv /\ WholeInv /\ HappenedInv => LearnsWhatHappened
    <2> SUFFICES ASSUME WholeInv, HappenedInv, ~gaveUp
                 PROVE  /\ ~overlapped
                        /\ \A t \in table :
                             /\ t.state = t.action /\ t.state = t.buffer
                             /\ t.next.epoch = t.state.epoch
                             /\ t.next.tti = t.state.tti + 1
                             /\ t.action # call
        BY Zenon DEF LearnsWhatHappened
    <2>1. ~overlapped /\ \A t \in table : Happened(t) /\ Whole(t)
        BY Zenon DEF HappenedInv, Orderly, WholeInv
    <2> QED BY <2>1, Zenon DEF Happened, Received, Whole
<1> QED BY <1>1, <1>2, <1>3, PTL DEF Spec

-----------------------------------------------------------------------------
(* The checkpoint is recent.                                               *)

\* The count of updates since the last multiple of _save_every goes up by one,
\* or has come to _save_every.
LEMMA ModSucc ==
    ASSUME NEW n \in Nat, NEW k \in Nat \ {0}
    PROVE  /\ n % k \in 0..k - 1
           /\ (n + 1) % k = 0 => (n % k) + 1 = k
           /\ (n + 1) % k # 0 => (n + 1) % k = (n % k) + 1
<1> DEFINE q == n \div k
           r == n % k
           p == (n + 1) \div k
           s == (n + 1) % k
<1>1. /\ q \in Int /\ r \in 0..k - 1 /\ n = k * q + r
      /\ p \in Int /\ s \in 0..k - 1 /\ n + 1 = k * p + s
    OBVIOUS
<1> HIDE DEF q, r, p, s
<1>2. k * (p - q) = r + 1 - s
    BY <1>1
<1>3. p - q < 2
    <2>1. ASSUME p - q >= 2 PROVE FALSE
        <3>1. k * (p - q) >= k * 2
            BY <1>1, <2>1
        <3> QED BY <1>1, <1>2, <3>1
    <2> QED BY <1>1, <2>1
<1>4. p - q > -1
    <2>1. ASSUME p - q <= -1 PROVE FALSE
        <3>1. k * (p - q) <= k * (-1)
            BY <1>1, <2>1
        <3> QED BY <1>1, <1>2, <3>1
    <2> QED BY <1>1, <2>1
<1>5. p - q = 0 \/ p - q = 1
    BY <1>1, <1>3, <1>4
<1>6. s = r + 1 \/ s = r + 1 - k
    BY <1>1, <1>2, <1>5
<1>7. r \in 0..k - 1 /\ (s = 0 => r + 1 = k) /\ (s # 0 => s = r + 1)
    BY <1>1, <1>6
<1> QED BY <1>7, Zenon DEF r, s

\* One more transition makes the difference one larger at most.
LEMMA OneMore ==
    ASSUME NEW T, NEW F, NEW x, IsFiniteSet(T)
    PROVE  /\ Cardinality(T \ F) \in Nat
           /\ Cardinality((T \cup {x}) \ F) <= Cardinality(T \ F) + 1
<1>1. IsFiniteSet(T \ F) /\ Cardinality(T \ F) \in Nat
    BY FS_Difference, FS_CardinalityType, Zenon
<1>2. /\ IsFiniteSet((T \ F) \cup {x})
      /\ Cardinality((T \ F) \cup {x}) <= Cardinality(T \ F) + 1
      /\ Cardinality((T \ F) \cup {x}) \in Nat
    <2>1. /\ IsFiniteSet((T \ F) \cup {x})
          /\ Cardinality((T \ F) \cup {x}) =
               IF x \in T \ F THEN Cardinality(T \ F) ELSE Cardinality(T \ F) + 1
        BY <1>1, FS_AddElement, Zenon
    <2> QED BY <1>1, <2>1
<1>3. (T \cup {x}) \ F \subseteq (T \ F) \cup {x}
    BY Zenon
<1>4. /\ Cardinality((T \cup {x}) \ F) <= Cardinality((T \ F) \cup {x})
      /\ Cardinality((T \cup {x}) \ F) \in Nat
    BY <1>2, <1>3, FS_Subset, FS_CardinalityType, Zenon
<1> QED BY <1>1, <1>2, <1>4

\* The table, the checkpoint and what threads have read stay finite.
LEMMA FiniteStep ==
    ASSUME TypeInv, Finite, [Next]_vars
    PROVE  Finite'
<1> USE DEF lmVars, prevVars, tableVars
<1>1. CASE Lm \/ UNCHANGED vars
    BY <1>1, Zenon DEF Lm, PushObservation, Answered, Failed, Simulate, vars, Finite
<1>2. CASE Stop
    <2>1. DOMAIN handler' = {} /\ UNCHANGED <<table, file>>
        BY <1>2, Zenon DEF Stop, EmptyMap
    <2> QED BY <2>1, Zenon DEF Finite
<1>3. CASE Boot
    BY <1>3, FS_EmptySet, Zenon DEF Boot, Servicer, Loaded, Finite
<1>4. IsFiniteSet({}) /\ \A pc : At(pc).Q = {}
    BY FS_EmptySet, Zenon DEF At
<1>5. ASSUME NEW o \in Obs, Start(o) PROVE Finite'
    BY <1>4, <1>5, Zenon DEF Start, Put, Finite
<1>6. ASSUME NEW o \in DOMAIN handler, Thread(o) PROVE Finite'
    <2>1. ASSUME NEW pc \in Before \cup After, Goto(o, pc)
          PROVE  \A p \in DOMAIN handler' : IsFiniteSet(handler'[p].Q)
        BY <1>4, <2>1, Zenon DEF Goto, Finite
    <2>2. CASE Read(o) \/ Update(o)
        <3>1. PICK h \in Thinks :
              /\ handler' = [handler EXCEPT ![o] = h]
              /\ \/ h = [handler[o] EXCEPT !.pc = "state", !.buffer = prev_txbuffer]
                 \/ h = [handler[o] EXCEPT !.pc = "action", !.state = prev_state_id]
                 \/ h = [handler[o] EXCEPT !.pc = "update", !.action = prev_action_id]
                 \/ h = [handler[o] EXCEPT !.pc = "write", !.Q = table]
            BY <2>2, ReadTyped, Zenon
        <3>2. /\ DOMAIN handler' = DOMAIN handler /\ handler'[o] = h
              /\ \A p \in DOMAIN handler : p # o => handler'[p] = handler[p]
            BY <3>1, OthersStay, Zenon
        <3>3. handler[o] \in Thinks
            BY Zenon DEF TypeInv
        <3>4. h.Q = handler[o].Q \/ h.Q = table
            BY <3>1, <3>3, Zenon DEF Thinks
        <3>5. UNCHANGED <<table, file>>
            BY <2>2, Zenon DEF Read, Update
        <3> QED BY <3>2, <3>4, <3>5, Zenon DEF Finite
    <2>3. CASE Write(o)
        <3>1. PICK kept \in {table, handler[o].Q} : table' = kept \cup {Learned(o)}
            BY <2>3, Zenon DEF Write
        <3>2. IsFiniteSet(kept)
            BY Zenon DEF Finite
        <3>3. IsFiniteSet(table')
            BY <3>1, <3>2, FS_AddElement, Zenon
        <3>4. UNCHANGED file /\ \E pc \in Before : Goto(o, pc)
            BY <2>3, Zenon DEF Write, Before
        <3> QED BY <2>1, <3>3, <3>4, Zenon DEF Finite
    <2>4. CASE Check(o) \/ Save(o) \/ Select(o) \/ Keep(o)
        <3>1. \E pc \in Before \cup After : Goto(o, pc)
            BY <2>4, Zenon DEF Check, Save, Select, Keep, Before, After, Reading
        <3>2. UNCHANGED table /\ file' \in {file, table, None}
            BY <2>4, Zenon DEF Check, Save, Select, Keep
        <3> QED BY <2>1, <3>1, <3>2, Zenon DEF Finite
    <2>5. CASE Return(o)
        BY <2>5, Zenon DEF Return, Freed, Finite
    <2> QED BY <1>6, <2>2, <2>3, <2>4, <2>5, Zenon DEF Thread
<1> QED BY <1>1, <1>2, <1>3, <1>5, <1>6, Zenon DEF Next, Agent, Thread

\* RecentInv is inductive.
LEMMA RecentStep ==
    ASSUME TypeInv, WholeInv, Finite, RecentInv, [Next]_vars
    PROVE  RecentInv'
<1> SUFFICES ASSUME ~overlapped', alive', file' # None
             PROVE  Recent'
    BY Zenon DEF RecentInv
<1> USE DEF lmVars, prevVars, tableVars
<1>0. /\ SaveEvery \in Nat \ {0} /\ _updates \in Nat
      /\ Cardinality({}) = 0 /\ \A n \in Nat : 0 <= n % SaveEvery
    <2>1. SaveEvery \in Nat \ {0} /\ _updates \in Nat
        BY RlAssumption, Zenon DEF TypeInv, TypeOK
    <2> QED BY <2>1, ModSucc, FS_EmptySet
<1>1. CASE Lm \/ UNCHANGED vars
    <2>1. UNCHANGED <<alive, handler, tableVars, overlapped>>
        BY <1>1, Zenon DEF Lm, PushObservation, Answered, Failed, Simulate, vars
    <2> QED BY <2>1, Zenon DEF RecentInv, Recent
<1>2. CASE Boot
    <2>1. table' = file' /\ _updates' = 0
        BY <1>2, Zenon DEF Boot, Servicer, Loaded
    <2>2. table' \ file' = {}
        BY <2>1, Zenon
    <2> QED BY <1>0, <2>1, <2>2 DEF Recent
<1>3. ASSUME NEW o \in Obs, Start(o) PROVE Recent'
    <2>1. UNCHANGED <<alive, table, file, _updates>> /\ ~overlapped
        <3>1. UNCHANGED <<alive, table, file, _updates>>
            BY <1>3, Zenon DEF Start
        <3>2. ~overlapped
            BY <1>3, Zenon DEF Start
        <3> QED BY <3>1, <3>2, Zenon
    <2>2. UNCHANGED handler \/ handler = EmptyMap
        BY <1>3, Zenon DEF Start
    <2>3. CASE UNCHANGED handler
        BY <2>1, <2>3, Zenon DEF RecentInv, Recent
    <2>4. CASE handler = EmptyMap
        BY <2>1, <2>4, Zenon DEF RecentInv, Recent, EmptyMap
    <2> QED BY <2>2, <2>3, <2>4, Zenon
<1>4. ASSUME NEW o \in DOMAIN handler, Thread(o) PROVE Recent'
    <2>1. ~overlapped /\ alive /\ \A p \in DOMAIN handler : p = o
        <3>1. ~overlapped
            BY <1>4, Zenon DEF Thread, Check, Read, Update, Write, Save, Select, Keep, Return
        <3> QED BY <3>1, Zenon DEF WholeInv, Serial, TypeInv, TypeOK, EmptyMap
    <2>2. CASE Check(o) \/ Read(o) \/ Update(o) \/ Select(o) \/ Keep(o) \/ Return(o)
        <3>1. UNCHANGED <<table, file, _updates>> /\ handler[o].pc # "save"
            BY <2>2, Zenon DEF Check, Read, Update, Select, Keep, Return
        <3>2. /\ file \subseteq table
              /\ Cardinality(table \ file) <= _updates % SaveEvery
            BY <2>1, <3>1, Zenon DEF RecentInv, Recent
        <3> QED BY <3>1, <3>2, Zenon DEF Recent
    <2>3. CASE Write(o)
        <3>1. /\ UNCHANGED file /\ _updates' = _updates + 1
              /\ handler[o].pc = "write"
              /\ Goto(o, IF SaveNow(_updates') THEN "save" ELSE "select")
            BY <2>3, Zenon DEF Write
        <3>2. table' = table \cup {Learned(o)}
            BY <2>1, <2>3, <3>1, Zenon DEF Write, WholeInv, Progress
        <3>3. /\ file \subseteq table
              /\ Cardinality(table \ file) <= _updates % SaveEvery
            BY <2>1, <3>1, Zenon DEF RecentInv, Recent
        <3> PICK c, n, m : /\ c = Cardinality(table \ file) /\ n = _updates % SaveEvery
                           /\ m = Cardinality(table' \ file)
            BY Zenon
        <3>4. c \in Nat /\ m \in Nat /\ m <= c + 1
            <4>1. c \in Nat /\ m <= c + 1
                BY <3>2, OneMore, Zenon DEF Finite
            <4>2. IsFiniteSet(table')
                BY <3>2, FS_AddElement, Zenon DEF Finite
            <4>3. m \in Nat
                BY <4>2, FS_Difference, FS_CardinalityType, Zenon
            <4> QED BY <4>1, <4>3, Zenon
        <3>5. /\ n \in 0..SaveEvery - 1
              /\ _updates' % SaveEvery = 0 => n + 1 = SaveEvery
              /\ _updates' % SaveEvery # 0 => _updates' % SaveEvery = n + 1
            BY <1>0, <3>1, ModSucc, Zenon
        <3>6. CASE _updates' % SaveEvery = 0
            <4>1. m <= SaveEvery
                BY <1>0, <3>3, <3>4, <3>5, <3>6
            <4>2. o \in DOMAIN handler' /\ handler'[o].pc = "save"
                BY <3>1, <3>6, Zenon DEF SaveNow, Goto, At
            <4> QED BY <3>1, <3>2, <3>3, <4>1, <4>2, Zenon DEF Recent
        <3>7. CASE _updates' % SaveEvery # 0
            <4>1. m <= _updates' % SaveEvery
                BY <1>0, <3>3, <3>4, <3>5, <3>7
            <4> QED BY <3>1, <3>2, <3>3, <4>1, Zenon DEF Recent
        <3> QED BY <3>6, <3>7, Zenon
    <2>4. CASE Save(o)
        <3>1. table' = file' /\ UNCHANGED _updates
            BY <2>4, Zenon DEF Save
        <3>2. table' \ file' = {}
            BY <3>1, Zenon
        <3> QED BY <1>0, <3>1, <3>2, Zenon DEF Recent
    <2> QED BY <1>4, <2>2, <2>3, <2>4, Zenon DEF Thread
<1>5. ~Stop
    BY Zenon DEF Stop
<1> QED BY <1>1, <1>2, <1>3, <1>4, <1>5, Zenon DEF Next, Agent, Thread

\* An agent that is stopped at any moment but while save() is writing has lost
\* _save_every updates at most, however often it was stopped before and however
\* many of its saves failed.
THEOREM CheckpointStaysRecent == Spec => []CheckpointRecent
<1> DEFINE Inv == TypeInv /\ WholeInv /\ Finite /\ RecentInv
<1>1. Init => Inv
    <2> SUFFICES ASSUME Init PROVE Inv
        BY Zenon
    <2>1. DOMAIN handler = {} /\ IsFiniteSet({}) /\ {} \ {} = {} /\ Cardinality({}) = 0
        BY FS_EmptySet, Zenon DEF Init, EmptyMap
    <2>2. WholeInv
        BY <2>1, Zenon DEF Init, WholeInv, Serial, Settled
    <2>3. Finite
        BY <2>1, Zenon DEF Init, Finite
    <2>4. 0 <= 0 % SaveEvery
        <3>1. SaveEvery \in Nat \ {0}
            BY RlAssumption, Zenon
        <3>2. 0 % SaveEvery \in 0..SaveEvery - 1
            BY <3>1, ModSucc, Zenon
        <3> QED BY <3>1, <3>2
    <2>5. RecentInv
        BY <2>1, <2>4, Zenon DEF Init, RecentInv, Recent
    <2> QED BY <2>2, <2>3, <2>5, InitTyped, Zenon
<1>2. Inv /\ [Next]_vars => Inv'
    BY TypeStep, WholeStep, FiniteStep, RecentStep, Zenon
<1>3. Inv => CheckpointRecent
    <2> SUFFICES ASSUME TypeInv, RecentInv, Finite, ~overlapped, alive, file # None
                 PROVE  file \subseteq table /\ Cardinality(table \ file) <= SaveEvery
        BY Zenon DEF CheckpointRecent
    <2>1. Recent
        BY Zenon DEF RecentInv
    <2>2. /\ SaveEvery \in Nat \ {0} /\ _updates \in Nat
          /\ _updates % SaveEvery \in 0..SaveEvery - 1
        BY ModSucc, RlAssumption, Zenon DEF TypeInv, TypeOK
    <2>3. Cardinality(table \ file) \in Nat
        BY FS_Difference, FS_CardinalityType, Zenon DEF Finite
    <2> QED BY <2>1, <2>2, <2>3 DEF Recent
<1> QED BY <1>1, <1>2, <1>3, PTL DEF Spec
=============================================================================
