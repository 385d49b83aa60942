----------------------------- MODULE EventQueue -----------------------------
(***************************************************************************)
(* The pending events of the ns-3 simulator, as the O-RAN models use them. *)
(*                                                                         *)
(* A pending event is a record [ts, uid, id, held]: the time it is due,    *)
(* the stamp of the Schedule call that inserted it, the EventId member     *)
(* that the call assigned, and whether that member still refers to it.     *)
(* An EventId member that is assigned again without a Cancel lets go of    *)
(* its event: the event stays in the queue and runs, but nothing can       *)
(* cancel it any more and IsPending() no longer sees it.                   *)
(***************************************************************************)
EXTENDS Naturals

LOCAL INSTANCE FiniteSetsExt

\* The event that a call of Schedule(ts - now, ...) inserts.
Event(ts, uid, id) == [ts |-> ts, uid |-> uid, id |-> id, held |-> TRUE]

\* The order of Scheduler::EventKey: by time, then by order of insertion.
Before(e, f) == e.ts < f.ts \/ (e.ts = f.ts /\ e.uid < f.uid)

\* RemoveNext() may return e.
IsNext(e, E) == \A f \in E : ~Before(f, e)

\* The event that the EventId member id refers to, as a set.
Held(E, id) == {e \in E : e.id = id /\ e.held}

\* EventId::IsPending(): false for a member whose event is running.
IsPending(E, id) == Held(E, id) # {}

\* EventId::Cancel().
Cancel(E, id) == E \ Held(E, id)

\* What is left of E once the member id has been assigned another event.
LetGo(E, id) == {e \in E : ~(e.id = id /\ e.held)}
                  \cup {[e EXCEPT !.held = FALSE] : e \in Held(E, id)}

\* A stamp for a new event due at ts. The simulator's stamps only order the
\* events of one time, so the least one above those pending at ts will do.
Stamped(E, ts) ==
    LET pending == {e.uid : e \in {f \in E : f.ts = ts}}
    IN  IF pending = {} THEN 0 ELSE 1 + Max(pending)

\* What Simulator::Schedule(ts - now, ...) makes of E.
Post(E, ts, id) == E \cup {Event(ts, Stamped(E, ts), id)}

\* The same for several events whose order does not matter, given as pairs of
\* their time and their id.
PostAll(E, due) == E \cup {Event(p[1], Stamped(E, p[1]), p[2]) : p \in due}

\* What "member = Simulator::Schedule(ts - now, ...)" makes of E.
Assign(E, ts, id) == Post(LetGo(E, id), ts, id)
=============================================================================
