------------------------------- MODULE LBStore -------------------------------
(***************************************************************************)
(* The etcd-backed load-balancer store (internal/store/lb/etcd.go) under   *)
(* the handlers of internal/server/lb.go.  Any number of gRPC handlers, in *)
(* any number of weft-network instances, share one etcd; each request to   *)
(* etcd is one step, so the handlers interleave between them.              *)
(*                                                                         *)
(* etcd (external) is a linearizable key-value store with one revision     *)
(* counter: every write increments it and stamps the key with it           *)
(* (ModRevision).  A request may fail, before or after it took effect.     *)
(*                                                                         *)
(* A row's name stands for (project, name); the fields no operation        *)
(* changes (mode, port, AZ, ...) go with it.  Validation of the request    *)
(* happens before any state is read and is left out, and so are List and   *)
(* Get, which change nothing.                                              *)
(***************************************************************************)
EXTENDS Naturals

CONSTANTS
    LBs,           \* load-balancer UUIDs
    Names,         \* (project, name) pairs
    BackendLists,  \* backend lists
    Handlers,      \* concurrent request handlers
    NoLB,          \* an absent key
    maxAttempts,   \* SetBackends' attempts
    MaxCalls       \* bound on the requests clients make

ASSUME AttemptsAssumption == maxAttempts \in Nat \ {0} /\ MaxCalls \in Nat

Row == [name : Names, backends : BackendLists, rev : Nat]

ASSUME NoLBAssumption == /\ NoLB \notin Row
                         /\ NoLB \notin [name : Names, backends : BackendLists]

VARIABLES
    rows,     \* etcd: the prefix /weft/network/loadbalancers/
    rev,      \* etcd: the store revision
    minted,   \* UUIDs newUUID has returned
    deleted,  \* UUIDs whose key a Delete removed
    calls,    \* requests made so far
    pc,       \* per handler: the request to etcd it is about to send
    req,      \* per handler: the arguments of the call
    seen,     \* per handler: the row SetBackends read
    attempt,  \* per handler: SetBackends' failed attempts
    began,    \* per handler: the store revision when the call arrived
    readAt,   \* per handler: the store revision when SetBackends read
    result    \* per handler: how its last call ended

etcdVars    == <<rows, rev, deleted>>
handlerVars == <<minted, calls, req, began>>
vars == <<rows, rev, deleted, minted, calls, pc, req, seen, attempt, began, readAt, result>>

Request == [lb : LBs, name : Names, backends : BackendLists]

Init ==
    /\ rows = [u \in LBs |-> NoLB]
    /\ rev = 0
    /\ minted = {} /\ deleted = {}
    /\ calls = 0
    /\ pc = [h \in Handlers |-> "idle"]
    /\ req \in [Handlers -> Request]
    /\ \A g, h \in Handlers : req[g] = req[h]
    /\ seen = [h \in Handlers |-> NoLB]
    /\ attempt = [h \in Handlers |-> 0]
    /\ began = [h \in Handlers |-> 0]
    /\ readAt = [h \in Handlers |-> 0]
    /\ result = [h \in Handlers |-> "none"]

-----------------------------------------------------------------------------
(* A call arrives. *)
Call(h, r, first) ==
    /\ pc[h] = "idle" /\ calls < MaxCalls
    /\ calls' = calls + 1
    /\ pc' = [pc EXCEPT ![h] = first]
    /\ req' = [req EXCEPT ![h] = r]
    /\ attempt' = [attempt EXCEPT ![h] = 0]
    /\ began' = [began EXCEPT ![h] = rev]
    /\ result' = [result EXCEPT ![h] = "none"]
    /\ UNCHANGED <<etcdVars, seen, readAt>>

(* CreateLoadBalancer mints the UUID. *)
CallCreate(h) ==
    \E r \in Request : /\ r.lb \notin minted
                       /\ minted' = minted \union {r.lb}
                       /\ Call(h, r, "scan")

(* The UUID of the two other calls comes from a client that has seen it.   *)
CallDelete(h) ==
    \E r \in Request : r.lb \in minted /\ Call(h, r, "delete") /\ UNCHANGED minted

CallSetBackends(h) ==
    \E r \in Request : r.lb \in minted /\ Call(h, r, "get") /\ UNCHANGED minted

-----------------------------------------------------------------------------
Return(h, outcome) ==
    /\ pc' = [pc EXCEPT ![h] = "idle"]
    /\ result' = [result EXCEPT ![h] = outcome]

(* A write took effect; its reply may be lost, and then the call fails.    *)
ReturnWritten(h) == Return(h, "ok") \/ Return(h, "error")

(* Create: scan the prefix for the name ... *)
CreateScan(h) ==
    /\ pc[h] = "scan"
    /\ IF \E u \in LBs : rows[u] # NoLB /\ rows[u].name = req[h].name
       THEN Return(h, "exists")
       ELSE pc' = [pc EXCEPT ![h] = "put"] /\ UNCHANGED result
    /\ UNCHANGED <<etcdVars, handlerVars, seen, attempt, readAt>>

(* ... then put the key if it was never created. *)
CreateTxn(h) ==
    LET u == req[h].lb
    IN /\ pc[h] = "put"
       /\ IF rows[u] = NoLB
          THEN /\ rows' = [rows EXCEPT ![u] = [name |-> req[h].name,
                                               backends |-> req[h].backends, rev |-> rev + 1]]
               /\ rev' = rev + 1
               /\ ReturnWritten(h)
          ELSE UNCHANGED <<rows, rev>> /\ Return(h, "error")
       /\ UNCHANGED <<deleted, handlerVars, seen, attempt, readAt>>

(* Mutant: the row is emptied instead of removed. *)
DeleteSoftly(h) ==
    LET u == req[h].lb
    IN /\ pc[h] = "delete" /\ rows[u] # NoLB
       /\ rows' = [rows EXCEPT ![u].backends = NoLB]
       /\ rev' = rev + 1
       /\ ReturnWritten(h)
       /\ UNCHANGED <<deleted, handlerVars, seen, attempt, readAt>>

(* Mutant: every row of the name is removed, not the one of the UUID. *)
DeleteByName(h) ==
    LET u == req[h].lb
        same == {t \in LBs : rows[t] # NoLB /\ rows[t].name = req[h].name}
    IN /\ pc[h] = "delete" /\ rows[u] # NoLB
       /\ rows' = [t \in LBs |-> IF t \in same THEN NoLB ELSE rows[t]]
       /\ rev' = rev + 1
       /\ deleted' = deleted \union same
       /\ ReturnWritten(h)
       /\ UNCHANGED <<handlerVars, seen, attempt, readAt>>

Delete(h) ==
    LET u == req[h].lb
    IN /\ pc[h] = "delete"
       /\ IF rows[u] # NoLB
          THEN /\ rows' = [rows EXCEPT ![u] = NoLB]
               /\ rev' = rev + 1
               /\ deleted' = deleted \union {u}
               /\ ReturnWritten(h)
          ELSE UNCHANGED etcdVars /\ Return(h, "notfound")
       /\ UNCHANGED <<handlerVars, seen, attempt, readAt>>

(* SetBackends, one attempt: read the row ... *)
SetBackendsGet(h) ==
    LET u == req[h].lb
    IN /\ pc[h] = "get"
       /\ IF rows[u] = NoLB
          THEN Return(h, "notfound") /\ UNCHANGED <<seen, readAt>>
          ELSE /\ seen' = [seen EXCEPT ![h] = rows[u]]
               /\ readAt' = [readAt EXCEPT ![h] = rev]
               /\ pc' = [pc EXCEPT ![h] = "cas"]
               /\ UNCHANGED result
       /\ UNCHANGED <<etcdVars, handlerVars, attempt>>

(* Mutant: the put is not guarded by the revision read. *)
ModRevisionIgnored(h) == pc[h] = "cas"

(* Compare(ModRevision(key), "=", the revision read). *)
ModRevisionMatches(h) ==
    LET u == req[h].lb IN rows[u] # NoLB /\ rows[u].rev = seen[h].rev

(* Mutant: a failed attempt is repeated without reading the row again. *)
SetBackendsCasNoReread(h) ==
    LET u == req[h].lb
    IN /\ pc[h] = "cas"
       /\ IF ModRevisionMatches(h)
          THEN /\ rows' = [rows EXCEPT ![u] = [name |-> seen[h].name,
                                               backends |-> req[h].backends, rev |-> rev + 1]]
               /\ rev' = rev + 1
               /\ ReturnWritten(h)
               /\ UNCHANGED attempt
          ELSE /\ UNCHANGED <<rows, rev>>
               /\ attempt' = [attempt EXCEPT ![h] = @ + 1]
               /\ IF attempt[h] + 1 < maxAttempts
                  THEN UNCHANGED <<pc, result>>
                  ELSE Return(h, "conflict")
       /\ UNCHANGED <<deleted, handlerVars, seen, readAt>>

(* ... and write the whole row back unless its ModRevision has moved.      *)
SetBackendsCas(h) ==
    LET u == req[h].lb
    IN /\ pc[h] = "cas"
       /\ IF ModRevisionMatches(h)
          THEN /\ rows' = [rows EXCEPT ![u] = [name |-> seen[h].name,
                                               backends |-> req[h].backends, rev |-> rev + 1]]
               /\ rev' = rev + 1
               /\ ReturnWritten(h)
               /\ UNCHANGED attempt
          ELSE /\ UNCHANGED <<rows, rev>>
               /\ attempt' = [attempt EXCEPT ![h] = @ + 1]
               /\ IF attempt[h] + 1 < maxAttempts
                  THEN pc' = [pc EXCEPT ![h] = "get"] /\ UNCHANGED result
                  ELSE Return(h, "conflict")
       /\ UNCHANGED <<deleted, handlerVars, seen, readAt>>

(* A request to etcd fails without effect, or the instance stops. *)
EtcdError(h) ==
    /\ pc[h] # "idle"
    /\ Return(h, "error")
    /\ UNCHANGED <<etcdVars, handlerVars, seen, attempt, readAt>>

-----------------------------------------------------------------------------
Next == \E h \in Handlers :
          \/ CallCreate(h) \/ CallDelete(h) \/ CallSetBackends(h)
          \/ CreateScan(h) \/ CreateTxn(h)
          \/ Delete(h)
          \/ SetBackendsGet(h) \/ SetBackendsCas(h)
          \/ EtcdError(h)

Spec == Init /\ [][Next]_vars

-----------------------------------------------------------------------------
(* Properties *)

(* The types of the store's and the handlers' state. *)
TypeOK ==
    /\ rows \in [LBs -> Row \union {NoLB}]
    /\ rev \in Nat
    /\ minted \subseteq LBs /\ deleted \subseteq LBs
    /\ calls \in 0..MaxCalls
    /\ pc \in [Handlers -> {"idle", "scan", "put", "delete", "get", "cas"}]
    /\ req \in [Handlers -> Request]
    /\ seen \in [Handlers -> Row \union {NoLB}]
    /\ attempt \in [Handlers -> 0..maxAttempts]
    /\ began \in [Handlers -> Nat] /\ readAt \in [Handlers -> Nat]
    /\ result \in [Handlers -> {"none", "ok", "error", "exists", "notfound", "conflict"}]

(* A load balancer that was deleted never comes back, although SetBackends *)
(* writes whole rows it read earlier and Create puts without having looked *)
(* at its own key.                                                         *)
DeletedStaysDeleted == \A u \in deleted : rows[u] = NoLB

(* SetBackends reports a conflict only to a caller that was overtaken by   *)
(* maxAttempts writes while it ran: two or three concurrent calls never    *)
(* get the error ("the loser retries automatically", etcd.go:105-106).     *)
ConflictMeansOvertaken ==
    \A h \in Handlers : result[h] = "conflict" => rev >= began[h] + maxAttempts

(* The table of the abstract store: the rows without their revisions. *)
tableOf == [u \in LBs |-> IF rows[u] = NoLB THEN NoLB
                          ELSE [name |-> rows[u].name, backends |-> rows[u].backends]]

Register == INSTANCE LBRegister WITH table <- tableOf, gone <- deleted

(* Every step of the etcd store is one indivisible insertion, replacement  *)
(* of a backend list or removal, or changes nothing (lb.go:61-65: "two     *)
(* concurrent SetBackends calls can't interleave").                        *)
ImplementsRegister == Register!Spec
=============================================================================
