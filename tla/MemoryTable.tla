----------------------------- MODULE MemoryTable -----------------------------
(***************************************************************************)
(* The in-memory stores of load balancers, routers and scheduling rules    *)
(* (internal/store/lb, router and scheduling, memory.go): the same two     *)
(* maps under one mutex, so every operation is one step.  It is the        *)
(* contract the etcd stores are held to: RuleStore and RouterControl       *)
(* instantiate it over what etcd holds.                                    *)
(*                                                                         *)
(* A row is its (project, name) pair, what is written once (kept) and what *)
(* SetBackends or UpdateStatus overwrites (value).  List and Get only      *)
(* read; an operation that answers an error changes nothing.               *)
(***************************************************************************)
CONSTANTS
    UUIDs,   \* row UUIDs
    Names,   \* (project, name) pairs
    Kept,    \* the immutable part of a row
    Values,  \* the part SetBackends and UpdateStatus write
    None     \* an absent map entry

Row == [name : Names, kept : Kept, value : Values]

VARIABLES
    byUUID,    \* UUID to row
    byPjName,  \* (project, name) to UUID
    gone       \* history: the UUIDs Delete removed

vars == <<byUUID, byPjName, gone>>

Init == /\ byUUID = [u \in UUIDs |-> None]
        /\ byPjName = [n \in Names |-> None]
        /\ gone = {}

(* The handlers draw a fresh UUID for every row: never one stored before. *)
Create(u, r) ==
    /\ byUUID[u] = None /\ u \notin gone
    /\ byPjName[r.name] = None
    /\ byUUID' = [byUUID EXCEPT ![u] = r]
    /\ byPjName' = [byPjName EXCEPT ![r.name] = u]
    /\ UNCHANGED gone

Delete(u) ==
    /\ byUUID[u] # None
    /\ byUUID' = [byUUID EXCEPT ![u] = None]
    /\ byPjName' = [byPjName EXCEPT ![byUUID[u].name] = None]
    /\ gone' = gone \union {u}

(* SetBackends, UpdateStatus *)
Update(u, v) ==
    /\ byUUID[u] # None
    /\ byUUID' = [byUUID EXCEPT ![u].value = v]
    /\ UNCHANGED <<byPjName, gone>>

Next == \E u \in UUIDs :
            \/ \E r \in Row : Create(u, r)
            \/ Delete(u)
            \/ \E v \in Values : Update(u, v)

Spec == Init /\ [][Next]_vars
=============================================================================
