----------------------------- MODULE LBRegister -----------------------------
(***************************************************************************)
(* What the load-balancer store promises its callers (internal/store/lb/   *)
(* lb.go, Store): a table whose rows are inserted once, removed for good,  *)
(* and between the two only ever have their backend list replaced, each in *)
(* one indivisible step.                                                   *)
(***************************************************************************)
CONSTANTS LBs, Names, BackendLists, NoLB

VARIABLES table,  \* uuid -> [name, backends], or NoLB
          gone    \* uuids whose row was removed

Insert(u) == /\ table[u] = NoLB /\ u \notin gone
             /\ \E nm \in Names, b \in BackendLists :
                  table' = [table EXCEPT ![u] = [name |-> nm, backends |-> b]]
             /\ UNCHANGED gone

Replace(u) == /\ table[u] # NoLB
              /\ \E b \in BackendLists :
                   table' = [table EXCEPT ![u] = [name |-> table[u].name, backends |-> b]]
              /\ UNCHANGED gone

Remove(u) == /\ table[u] # NoLB
             /\ table' = [table EXCEPT ![u] = NoLB]
             /\ gone' = gone \union {u}

Init == table = [u \in LBs |-> NoLB] /\ gone = {}

Next == \E u \in LBs : Insert(u) \/ Replace(u) \/ Remove(u)

Spec == Init /\ [][Next]_<<table, gone>>
=============================================================================
