--------------------------- MODULE DataRepository ---------------------------
(***************************************************************************)
(* The node tables of OranNrDataRepositorySqlite, as operators on a value  *)
(* db of the whole database:                                               *)
(*                                                                         *)
(*   db.seq   the greatest nodeid that AUTOINCREMENT has seen              *)
(*   db.reg   per nodeid, what its rows of noderegistration amount to: the *)
(*            greatest simulationtime, the values of "registered" in the   *)
(*            rows of that time, and the value in the last of them         *)
(*   db.ue    the rows of nrue,  [id, imsi]: both columns are unique       *)
(*   db.gnb   the rows of nrgnb, [id, cell]: only the first is             *)
(***************************************************************************)
EXTENDS Naturals, Maps

EmptyDb == [seq |-> 0, reg |-> EmptyMap, ue |-> {}, gnb |-> {}]

\* INSERT_NODE_REGISTRATION: a row (id, flag, t). A row that is older than
\* the greatest time of its node has no effect on any query.
Logged(reg, id, flag, t) ==
    IF id \notin DOMAIN reg \/ t > reg[id].time
    THEN Put(reg, id, [time |-> t, flags |-> {flag}, last |-> flag])
    ELSE IF t = reg[id].time
         THEN Put(reg, id, [time |-> t, flags |-> reg[id].flags \cup {flag},
                            last |-> flag])
         ELSE reg

\* Mutants: the nodeid of the request is returned; every request gets a new one.
Assigned_Request(db, id) == id
Assigned_New(db, id) == db.seq + 1

\* The nodeid that RegisterNode() returns: id 0 asks for a new one.
Assigned(db, id) == IF id = 0 THEN db.seq + 1 ELSE id

\* Mutant: without AUTOINCREMENT, and no row of node that takes the number.
RegisterNode_NoIncrement(db, id, t) ==
    [db EXCEPT !.reg = Logged(@, Assigned(db, id), TRUE, t)]

\* Mutant: only the first registration of a node leaves a row.
RegisterNode_FirstOnly(db, id, t) ==
    IF id = 0 THEN [db EXCEPT !.seq = @ + 1, !.reg = Logged(@, db.seq + 1, TRUE, t)]
    ELSE db

\* RegisterNode(): INSERT_NODE_ADD or INSERT_NODE_UPDATE, and the row.
RegisterNode(db, id, t) ==
    LET new == Assigned(db, id) IN
    [db EXCEPT !.seq = IF new > @ THEN new ELSE @,
               !.reg = Logged(@, new, TRUE, t)]

\* RegisterNodeNrUe() inserts or replaces the row of nrue under the nodeid of
\* the request, not under the one it returns.
RegisterNodeNrUe(db, id, imsi, t) ==
    [RegisterNode(db, id, t) EXCEPT
        !.ue = {r \in @ : r.id # id /\ r.imsi # imsi} \cup {[id |-> id, imsi |-> imsi]}]

\* RegisterNodeNrGnb(), the same with nrgnb.
RegisterNodeNrGnb(db, id, cell, t) ==
    [RegisterNode(db, id, t) EXCEPT
        !.gnb = {r \in @ : r.id # id} \cup {[id |-> id, cell |-> cell]}]

\* DeregisterNode() inserts its row whether or not the node is registered.
DeregisterNode(db, id, t) == [db EXCEPT !.reg = Logged(@, id, FALSE, t)]

\* DeregisterNode() for each of the registered nodes ids.
DeregisterNodes(db, ids, t) ==
    [db EXCEPT !.reg = [id \in DOMAIN @ |->
        IF id \in ids THEN Logged(@, id, FALSE, t)[id] ELSE @[id]]]

\* Mutant: the result of the query is not looked at.
IsNodeRegistered_Any(db, id) == TRUE

\* CHECK_NODE_REGISTERED: the row that is last by simulationtime and entryid.
IsNodeRegistered(db, id) == id \in DOMAIN db.reg /\ db.reg[id].last

\* Mutant: "HAVING registered = 0".
Grouped_Deregistered(db) ==
    {S \in SUBSET DOMAIN db.reg :
        \A id \in DOMAIN db.reg : (id \notin S) \in db.reg[id].flags}

\* "GROUP BY nodeid HAVING registered = 1" reads "registered" in a row of
\* the greatest simulationtime; which one of them SQLite leaves open.
Grouped(db) ==
    {S \in SUBSET DOMAIN db.reg :
        \A id \in DOMAIN db.reg :
            (id \in S) \in db.reg[id].flags}

\* The results that GetLastRegistrationRequests() may have, without the times.
GetLastRegistrationRequests(db) == Grouped(db)

\* Mutant: the rows of nrgnb alone.
GetNrGnbE2NodeIds_All(db) == {{r.id : r \in db.gnb}}

\* The results that GetNrUeE2NodeIds() and GetNrGnbE2NodeIds() may have.
GetNrUeE2NodeIds(db) == {S \cap {r.id : r \in db.ue} : S \in Grouped(db)}
GetNrGnbE2NodeIds(db) == {S \cap {r.id : r \in db.gnb} : S \in Grouped(db)}
=============================================================================
