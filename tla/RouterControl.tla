---------------------------- MODULE RouterControl ----------------------------
(***************************************************************************)
(* The life of a router: CreateRouter, DeleteRouter, ResyncRouters, the    *)
(* status receiver and the callback of the floating-IP loops, over the     *)
(* etcd router store, the NATS publisher and the WeftClient lifecycle      *)
(* (internal/server/router.go, server.go, internal/store/router,           *)
(* publisher, lifecycle, statusreceiver; cmd/weft-network/main.go).        *)
(*                                                                         *)
(* Each instance of weft-network runs one of these calls at a time here:   *)
(* two calls of one process share nothing but etcd, NATS and weft, so they *)
(* interleave exactly as calls of two processes do.  A step is one request *)
(* to etcd, NATS or weft; any of them may fail, with or without effect,    *)
(* and a process may stop between two of them and boot again, which runs   *)
(* ResyncRouters before it serves.                                         *)
(*                                                                         *)
(* External: etcd (rows), NATS (config: the last message on a router's     *)
(* subject), weft (vms, running).  A router's kind and backend are its     *)
(* class: "bgp" (egress, gobgp, an external peer that parses), "mute"      *)
(* (egress, gobgp, one that does not) or "peer" (everything else).  Its    *)
(* remaining fields are never changed and go with its name.  The lookup of *)
(* floating IPs adds prefixes to a published state and never decides       *)
(* whether there is one, so it is left out.                                *)
(***************************************************************************)
EXTENDS Naturals, Sequences, FiniteSets, RouterStatus

CONSTANTS
    Routers,      \* router UUIDs
    Names,        \* (project, name) pairs
    Classes,      \* the classes clients create
    Reports,      \* the sets of peer states micro-VMs report
    Instances,    \* weft-network processes
    NoRouter,     \* no UUID, or an absent key
    maxReplicas,  \* the cap on a router's micro-VMs (10 in the code)
    MaxCalls,     \* bound on the calls and status messages that arrive
    MaxFailures   \* bound on failed requests and crashes

ASSUME BoundsAssumption ==
    maxReplicas \in Nat \ {0} /\ MaxCalls \in Nat /\ MaxFailures \in Nat

Row == [name     : Names,
        class    : {"bgp", "mute", "peer"},
        replicas : 1..maxReplicas,
        status   : Statuses]

ASSUME NoRouterAssumption ==
    /\ NoRouter \notin Routers /\ NoRouter \notin Row
    /\ NoRouter \notin [name : Names, kept : {"bgp", "mute", "peer"} \X (1..maxReplicas),
                        value : Statuses]

ASSUME ClassesAssumption == Classes \subseteq {"bgp", "mute", "peer"}

ASSUME ReportsAssumption == Reports \subseteq SUBSET PeerStates

(* A micro-VM's name: the bare one (0) or the one with an index suffix. *)
VMs == Routers \X (0..maxReplicas)

VARIABLES
    rows,      \* etcd: the prefix /weft/network/routers/
    config,    \* NATS: per router, the last message on its config subject
    vms,       \* weft: micro-VMs in the inventory
    running,   \* weft: micro-VMs that run
    minted,    \* UUIDs CreateRouter has drawn
    calls,     \* calls and messages that arrived
    failures,  \* failed requests and crashes
    job,       \* per instance: where it is, and its local variables
    deleted,   \* history: routers whose key a DeleteRouter removed
    ensured,   \* history: routers for which an Ensure ended without an error
    disturbed  \* history: deleted routers whose removal overlapped another
               \* call on them or did not run to its end

etcdNats == <<rows, config>>
weft     == <<vms, running>>
history  == <<deleted, ensured, disturbed>>
vars == <<rows, config, vms, running, minted, calls, failures, job, deleted, ensured, disturbed>>

(* What an instance is doing: the next request (pc), the router it is      *)
(* about, the row in hand, the status to write, the micro-VM names Ensure  *)
(* or Destroy has left, and the routers ResyncRouters or the floating-IP   *)
(* callback has left.                                                      *)
At(pc) == [pc |-> pc, uuid |-> NoRouter, row |-> NoRouter, report |-> "configuring",
           names |-> <<>>, todo |-> <<>>]

Init ==
    /\ rows = [u \in Routers |-> NoRouter]
    /\ config = [u \in Routers |-> "none"]
    /\ vms = {} /\ running = {}
    /\ minted = {}
    /\ calls = 0 /\ failures = 0
    /\ job = [i \in Instances |-> At("boot")]
    /\ deleted = {} /\ ensured = {} /\ disturbed = {}

-----------------------------------------------------------------------------
(* Pure helpers *)

replicaNames(u, n) == [k \in 1..n |-> <<u, k>>]

vmBareName(u) == <<u, 0>>

vmNamesFor(u, replicas) ==
    IF replicas <= 1 THEN <<vmBareName(u)>>
    ELSE replicaNames(u, IF replicas > maxReplicas THEN maxReplicas ELSE replicas)

(* Mutant: the probe stops one suffix short of the cap. *)
probedNamesShort(u) == <<vmBareName(u)>> \o replicaNames(u, maxReplicas - 1)

(* Destroy does not know the replica count and probes every name. *)
probedNames(u) == <<vmBareName(u)>> \o replicaNames(u, maxReplicas)

(* A gobgp egress router has micro-VMs, and a state to publish if its      *)
(* external peer parses.                                                   *)
HasVMs(r)   == r.class \in {"bgp", "mute"}
HasState(r) == r.class = "bgp"

Step(i, pc) == job' = [job EXCEPT ![i].pc = pc]

Return(i) == job' = [job EXCEPT ![i] = At("idle")]

(* Another instance holds a row of u that it will write, publish or        *)
(* ensure, or has one in a listing that it has not come to the end of: of  *)
(* ResyncRouters or of the floating-IP callback.                           *)
Overlapped(i, u) ==
    \E j \in Instances \ {i} :
        \/ job[j].uuid = u /\ job[j].pc \in {"publish", "register", "start", "statusPut"}
        \/ \E k \in DOMAIN job[j].todo : job[j].todo[k].uuid = u

-----------------------------------------------------------------------------
(* Calls arrive at a booted instance *)

Arrive(i) == /\ job[i].pc = "idle" /\ calls < MaxCalls
             /\ calls' = calls + 1
             /\ UNCHANGED <<etcdNats, weft, failures, history>>

(* CreateRouter: the request passed validation, the UUID is fresh. *)
CallCreateRouter(i) ==
    /\ Arrive(i)
    /\ \E u \in Routers \ minted, nm \in Names, c \in Classes, n \in 1..maxReplicas :
         /\ minted' = minted \union {u}
         /\ job' = [job EXCEPT ![i].pc = "scan", ![i].uuid = u,
                               ![i].row = [name |-> nm, class |-> c, replicas |-> n,
                                           status |-> "configuring"]]

CallDeleteRouter(i) ==
    /\ Arrive(i)
    /\ \E u \in minted : job' = [job EXCEPT ![i].pc = "delete", ![i].uuid = u]
    /\ UNCHANGED minted

(* A status message is delivered, perhaps long after a micro-VM sent it:   *)
(* handle derives the status and calls UpdateStatus.                       *)
StatusArrives(i) ==
    /\ Arrive(i)
    /\ \E u \in minted, peers \in Reports :
         job' = [job EXCEPT ![i].pc = "statusGet", ![i].uuid = u,
                            ![i].report = rollupStatus(peers)]
    /\ UNCHANGED minted

(* A floating IP changed (any instance may be the leader): the callback    *)
(* republishRoutersOnNetworkChange is about to list the routers.           *)
FIPChanged(i) ==
    /\ Arrive(i)
    /\ Step(i, "list")
    /\ UNCHANGED minted

-----------------------------------------------------------------------------
(* The router store in etcd *)

(* Create: scan the prefix for the name ... *)
CreateScan(i) ==
    /\ job[i].pc = "scan"
    /\ IF \E u \in Routers : rows[u] # NoRouter /\ rows[u].name = job[i].row.name
       THEN Return(i)
       ELSE Step(i, "put")
    /\ UNCHANGED <<etcdNats, weft, minted, calls, failures, history>>

(* Mutant: a put whose reply is lost is sent again. *)
CreatePutRetried(i) ==
    LET u == job[i].uuid
    IN /\ job[i].pc = "put" /\ rows[u] = NoRouter
       /\ rows' = [rows EXCEPT ![u] = job[i].row]
       /\ Step(i, "publish") \/ UNCHANGED job
       /\ UNCHANGED <<config, weft, minted, calls, failures, history>>

(* ... then put the key if it was never created; the UUID is fresh. *)
CreatePut(i) ==
    LET u == job[i].uuid
    IN /\ job[i].pc = "put" /\ rows[u] = NoRouter
       /\ rows' = [rows EXCEPT ![u] = job[i].row]
       /\ Step(i, "publish")
       /\ UNCHANGED <<config, weft, minted, calls, failures, history>>

DeleteRow(i) ==
    LET u == job[i].uuid
    IN /\ rows[u] # NoRouter
       /\ rows' = [rows EXCEPT ![u] = NoRouter]
       /\ deleted' = deleted \union {u}
       /\ UNCHANGED <<config, weft, minted, calls, ensured>>

StoreDelete(i) ==
    /\ job[i].pc = "delete"
    /\ DeleteRow(i)
    /\ disturbed' = disturbed \union {u \in {job[i].uuid} : Overlapped(i, u)}
    /\ Step(i, "withdraw")
    /\ UNCHANGED failures

(* Delete and Get of an absent key: ErrNotFound. *)
NotFound(i) ==
    /\ job[i].pc \in {"delete", "statusGet"} /\ rows[job[i].uuid] = NoRouter
    /\ Return(i)
    /\ UNCHANGED <<etcdNats, weft, minted, calls, failures, history>>

(* UpdateStatus: read the row ... *)
StatusGet(i) ==
    LET u == job[i].uuid
    IN /\ job[i].pc = "statusGet" /\ rows[u] # NoRouter
       /\ job' = [job EXCEPT ![i].pc = "statusPut",
                             ![i].row = [rows[u] EXCEPT !.status = job[i].report]]
       /\ UNCHANGED <<etcdNats, weft, minted, calls, failures, history>>

(* ... and put it back with the new status, without a guard. *)
StatusPut(i) ==
    /\ job[i].pc = "statusPut"
    /\ rows' = [rows EXCEPT ![job[i].uuid] = job[i].row]
    /\ Return(i)
    /\ UNCHANGED <<config, weft, minted, calls, failures, history>>

-----------------------------------------------------------------------------
(* The publisher.  CreateRouter and ResyncRouters go on to Ensure, and     *)
(* DeleteRouter to Destroy, whether or not the message got through.        *)

ToEnsure(i) ==
    LET r == job[i].row
    IN job' = [job EXCEPT ![i].pc = "register",
                          ![i].names = IF HasVMs(r) THEN vmNamesFor(job[i].uuid, r.replicas)
                                       ELSE <<>>]

ToDestroy(i) == job' = [job EXCEPT ![i].pc = "stop", ![i].names = probedNames(job[i].uuid)]

(* A router without peers and prefixes is not published. *)
Publish(i) ==
    /\ job[i].pc = "publish"
    /\ config' = IF HasState(job[i].row) THEN [config EXCEPT ![job[i].uuid] = "state"]
                 ELSE config
    /\ ToEnsure(i)
    /\ UNCHANGED <<rows, weft, minted, calls, failures, history>>

Withdraw(i) ==
    /\ job[i].pc = "withdraw"
    /\ config' = [config EXCEPT ![job[i].uuid] = "empty"]
    /\ ToDestroy(i)
    /\ UNCHANGED <<rows, weft, minted, calls, failures, history>>

-----------------------------------------------------------------------------
(* The lifecycle *)

(* Ensure is over, well or badly: back to the resync sweep, or return. *)
LeaveEnsure(i) ==
    job' = [job EXCEPT ![i] = IF job[i].todo = <<>> THEN At("idle")
                              ELSE [At("resync") EXCEPT !.todo = job[i].todo]]

(* Mutant: the micro-VM is registered and never started. *)
EnsureRegisterOnly(i) ==
    /\ job[i].pc = "register" /\ job[i].names # <<>>
    /\ vms' = vms \union {Head(job[i].names)}
    /\ job' = [job EXCEPT ![i].names = Tail(@)]
    /\ UNCHANGED <<etcdNats, running, minted, calls, failures, history>>

(* Ensure registers and starts each micro-VM in turn.  *)
EnsureRegister(i) ==
    /\ job[i].pc = "register" /\ job[i].names # <<>>
    /\ vms' = vms \union {Head(job[i].names)}
    /\ Step(i, "start")
    /\ UNCHANGED <<etcdNats, running, minted, calls, failures, history>>

EnsureStart(i) ==
    LET vm == Head(job[i].names)
    IN /\ job[i].pc = "start" /\ vm \in vms
       /\ running' = running \union {vm}
       /\ job' = [job EXCEPT ![i].pc = "register", ![i].names = Tail(@)]
       /\ UNCHANGED <<etcdNats, vms, minted, calls, failures, history>>

(* StartVM of a micro-VM that is gone fails, and Ensure gives up. *)
EnsureGone(i) ==
    /\ job[i].pc = "start" /\ Head(job[i].names) \notin vms
    /\ LeaveEnsure(i)
    /\ UNCHANGED <<etcdNats, weft, minted, calls, failures, history>>

EnsureDone(i) ==
    /\ job[i].pc = "register" /\ job[i].names = <<>>
    /\ ensured' = ensured \union {job[i].uuid}
    /\ LeaveEnsure(i)
    /\ UNCHANGED <<etcdNats, weft, minted, calls, failures, deleted, disturbed>>

(* Destroy stops and deletes each name it probes; NotFound is fine. *)
DestroyStop(i) ==
    /\ job[i].pc = "stop" /\ job[i].names # <<>>
    /\ running' = running \ {Head(job[i].names)}
    /\ Step(i, "remove")
    /\ UNCHANGED <<etcdNats, vms, minted, calls, failures, history>>

(* Mutant: deleting a micro-VM that would not stop leaves it running. *)
DestroyRemoveRunning(i) ==
    LET vm == Head(job[i].names)
    IN /\ job[i].pc = "remove"
       /\ vms' = vms \ {vm}
       /\ job' = [job EXCEPT ![i].pc = "stop", ![i].names = Tail(@)]
       /\ UNCHANGED <<etcdNats, running, minted, calls, failures, history>>

DestroyRemove(i) ==
    LET vm == Head(job[i].names)
    IN /\ job[i].pc = "remove"
       /\ vms' = vms \ {vm} /\ running' = running \ {vm}
       /\ job' = [job EXCEPT ![i].pc = "stop", ![i].names = Tail(@)]
       /\ UNCHANGED <<etcdNats, minted, calls, failures, history>>

DestroyDone(i) ==
    /\ job[i].pc = "stop" /\ job[i].names = <<>>
    /\ Return(i)
    /\ UNCHANGED <<etcdNats, weft, minted, calls, failures, history>>

-----------------------------------------------------------------------------
(* ResyncRouters, on boot: list, then Publish and Ensure each router *)

stored == {u \in Routers : rows[u] # NoRouter}

(* The rows of some stored routers, in some order. *)
Listings(us) ==
    {[k \in DOMAIN order |-> [uuid |-> order[k], row |-> rows[order[k]]]] :
       order \in {o \in [1..Cardinality(us) -> us] :
                    \A k, l \in DOMAIN o : o[k] = o[l] => k = l}}

(* Mutant: a booting instance lists the routers and does nothing for them. *)
ResyncListOnly(i) ==
    /\ job[i].pc = "boot"
    /\ Step(i, "idle")
    /\ UNCHANGED <<etcdNats, weft, minted, calls, failures, history>>

ResyncList(i) ==
    /\ job[i].pc = "boot"
    /\ \E s \in Listings(stored) :
         job' = [job EXCEPT ![i].pc = IF s = <<>> THEN "idle" ELSE "resync", ![i].todo = s]
    /\ UNCHANGED <<etcdNats, weft, minted, calls, failures, history>>

ResyncNext(i) ==
    /\ job[i].pc = "resync"
    /\ job' = [job EXCEPT ![i].pc = "publish",
                          ![i].uuid = Head(job[i].todo).uuid,
                          ![i].row = Head(job[i].todo).row,
                          ![i].todo = Tail(@)]
    /\ UNCHANGED <<etcdNats, weft, minted, calls, failures, history>>

-----------------------------------------------------------------------------
(* The floating-IP callback: list, then Publish each router of the network *)

(* Which routers stitch the network is theirs to say, and never changes:   *)
(* here it is any of the stored ones.                                      *)
CallbackList(i) ==
    /\ job[i].pc = "list"
    /\ \E us \in SUBSET stored : \E s \in Listings(us) :
         job' = [job EXCEPT ![i].pc = IF s = <<>> THEN "idle" ELSE "callback", ![i].todo = s]
    /\ UNCHANGED <<etcdNats, weft, minted, calls, failures, history>>

(* The row is published as it was listed, and the loop goes on. *)
CallbackNext(i) ==
    LET rest == Tail(job[i].todo)
    IN job' = [job EXCEPT ![i].pc = IF rest = <<>> THEN "idle" ELSE "callback",
                          ![i].todo = rest]

CallbackPublish(i) ==
    LET entry == Head(job[i].todo)
    IN /\ job[i].pc = "callback"
       /\ config' = IF HasState(entry.row) THEN [config EXCEPT ![entry.uuid] = "state"]
                    ELSE config
       /\ CallbackNext(i)
       /\ UNCHANGED <<rows, weft, minted, calls, failures, history>>

-----------------------------------------------------------------------------
(* Failures *)

Fail == failures < MaxFailures /\ failures' = failures + 1

(* A request to etcd fails without effect: the call returns the error, the *)
(* callback returns, and a boot goes on without its resync.                *)
EtcdFails(i) ==
    /\ Fail
    /\ job[i].pc \in {"boot", "scan", "put", "delete", "statusGet", "statusPut", "list"}
    /\ Return(i)
    /\ UNCHANGED <<etcdNats, weft, minted, calls, history>>

(* Create's put, or UpdateStatus's, takes effect and its reply is lost. *)
PutReplyLost(i) ==
    LET u == job[i].uuid
    IN /\ Fail
       /\ \/ job[i].pc = "put" /\ rows[u] = NoRouter
          \/ job[i].pc = "statusPut"
       /\ rows' = [rows EXCEPT ![u] = job[i].row]
       /\ Return(i)
       /\ UNCHANGED <<config, weft, minted, calls, history>>

(* Delete's too: the handler returns without withdrawing or destroying. *)
DeleteReplyLost(i) ==
    /\ Fail
    /\ job[i].pc = "delete"
    /\ DeleteRow(i)
    /\ disturbed' = disturbed \union {job[i].uuid}
    /\ Return(i)

(* The message is not sent; the failure is logged. *)
PublishFails(i) ==
    /\ Fail
    /\ job[i].pc = "publish"
    /\ ToEnsure(i)
    /\ UNCHANGED <<etcdNats, weft, minted, calls, history>>

(* Nor is the callback's: it goes on to the next router. *)
CallbackPublishFails(i) ==
    /\ Fail
    /\ job[i].pc = "callback"
    /\ CallbackNext(i)
    /\ UNCHANGED <<etcdNats, weft, minted, calls, history>>

WithdrawFails(i) ==
    /\ Fail
    /\ job[i].pc = "withdraw"
    /\ ToDestroy(i)
    /\ disturbed' = disturbed \union {job[i].uuid}
    /\ UNCHANGED <<etcdNats, weft, minted, calls, deleted, ensured>>

(* RegisterMicroVM or StartVM fails, with or without effect. *)
EnsureFails(i) ==
    /\ Fail
    /\ \/ /\ job[i].pc = "register" /\ job[i].names # <<>>
          /\ vms' \in {vms, vms \union {Head(job[i].names)}}
          /\ UNCHANGED running
       \/ /\ job[i].pc = "start"
          /\ running' \in {running, running \union ({Head(job[i].names)} \intersect vms)}
          /\ UNCHANGED vms
    /\ LeaveEnsure(i)
    /\ UNCHANGED <<etcdNats, minted, calls, history>>

(* StopVM fails: Destroy goes on to DeleteVM. *)
StopFails(i) ==
    /\ Fail
    /\ job[i].pc = "stop" /\ job[i].names # <<>>
    /\ Step(i, "remove")
    /\ UNCHANGED <<etcdNats, weft, minted, calls, history>>

(* DeleteVM fails: Destroy gives up on the names it has left. *)
RemoveFails(i) ==
    /\ Fail
    /\ job[i].pc = "remove"
    /\ disturbed' = disturbed \union {job[i].uuid}
    /\ Return(i)
    /\ UNCHANGED <<etcdNats, weft, minted, calls, deleted, ensured>>

(* The process stops and is started again. *)
Crash(i) ==
    /\ Fail
    /\ job' = [job EXCEPT ![i] = At("boot")]
    /\ disturbed' = disturbed \union
                       {u \in {job[i].uuid} : job[i].pc \in {"withdraw", "stop", "remove"}}
    /\ UNCHANGED <<etcdNats, weft, minted, calls, deleted, ensured>>

-----------------------------------------------------------------------------
Calls(i) == \/ CallCreateRouter(i) \/ CallDeleteRouter(i) \/ StatusArrives(i)
            \/ FIPChanged(i)

Store(i) == \/ CreateScan(i) \/ CreatePut(i) \/ StoreDelete(i)
            \/ NotFound(i) \/ StatusGet(i) \/ StatusPut(i)

Lifecycle(i) == \/ EnsureRegister(i) \/ EnsureStart(i) \/ EnsureGone(i) \/ EnsureDone(i)
                \/ DestroyStop(i) \/ DestroyRemove(i) \/ DestroyDone(i)

(* The next request of the call in progress goes through. *)
Proceed(i) == \/ Store(i) \/ Publish(i) \/ Withdraw(i) \/ Lifecycle(i)
              \/ ResyncList(i) \/ ResyncNext(i)
              \/ CallbackList(i) \/ CallbackPublish(i)

Failure(i) == \/ EtcdFails(i) \/ PutReplyLost(i) \/ DeleteReplyLost(i) \/ PublishFails(i)
              \/ CallbackPublishFails(i) \/ WithdrawFails(i) \/ EnsureFails(i)
              \/ StopFails(i) \/ RemoveFails(i) \/ Crash(i)

Next == \E i \in Instances : Calls(i) \/ Proceed(i) \/ Failure(i)

Spec == Init /\ [][Next]_vars

(* A request in progress is answered: etcd, NATS and weft are up. *)
FairSpec == Spec /\ \A i \in Instances : WF_vars(Proceed(i))

-----------------------------------------------------------------------------
(* Properties *)

Labels == {"boot", "idle", "scan", "put", "delete", "statusGet", "statusPut", "publish",
           "withdraw", "register", "start", "stop", "remove", "resync", "list", "callback"}

(* The types of the stores' and the instances' state. *)
TypeOK ==
    /\ rows \in [Routers -> Row \union {NoRouter}]
    /\ config \in [Routers -> {"none", "state", "empty"}]
    /\ vms \subseteq VMs /\ running \subseteq vms
    /\ minted \subseteq Routers
    /\ calls \in 0..MaxCalls /\ failures \in 0..MaxFailures
    /\ job \in [Instances -> [pc     : Labels,
                              uuid   : Routers \union {NoRouter},
                              row    : Row \union {NoRouter},
                              report : Statuses,
                              names  : Seq(VMs),
                              todo   : Seq([uuid : Routers, row : Row])]]
    /\ deleted \subseteq minted /\ ensured \subseteq minted /\ disturbed \subseteq deleted

vmsOf(u) == {vm \in vms : vm[1] = u}

(* Some instance is still tearing u down. *)
TearingDown(u) ==
    \E i \in Instances : job[i].uuid = u /\ job[i].pc \in {"withdraw", "stop", "remove"}

(* DeleteRouter leaves neither a micro-VM nor a desired state behind,      *)
(* although Destroy has to guess the names Ensure used, unless it          *)
(* overlapped a call that still held the router's row (a callback of the   *)
(* floating-IP loops that listed it before counts), or did not run to its  *)
(* end.                                                                    *)
LeaksAreExplained ==
    \A u \in deleted \ disturbed :
        TearingDown(u) \/ (vmsOf(u) = {} /\ config[u] # "state")

allRunning(u) ==
    /\ rows[u] # NoRouter
    /\ LET expected == vmNamesFor(u, rows[u].replicas)
       IN \A k \in DOMAIN expected : expected[k] \in running

(* A router that was never deleted, and for which an Ensure returned       *)
(* without an error, has all its micro-VMs running, whatever else failed,  *)
(* was retried by a resync or ran beside it (weftclient.go:117-121).       *)
EnsuredRuns ==
    \A u \in ensured \ deleted : rows[u] # NoRouter /\ (HasVMs(rows[u]) => allRunning(u))

(* server/router.go:121-123: what a failed Ensure or a crash left undone   *)
(* is made up for by the next boot: unless something fails again, or the   *)
(* router is deleted, its micro-VMs end up running.                        *)
RestartRestores ==
    \A u \in Routers, k \in 0..MaxFailures :
        (/\ rows[u] # NoRouter /\ HasVMs(rows[u])
         /\ failures = k /\ \E i \in Instances : job[i].pc = "boot")
            ~> (u \in deleted \/ failures > k \/ allRunning(u))

-----------------------------------------------------------------------------
(* The memory store's two maps, read off etcd. *)
rowOf(u) == IF rows[u] = NoRouter THEN NoRouter
            ELSE [name |-> rows[u].name, kept |-> <<rows[u].class, rows[u].replicas>>,
                  value |-> rows[u].status]

namedRouters(n) == {u \in Routers : rows[u] # NoRouter /\ rows[u].name = n}

ownerOf(n) == IF namedRouters(n) = {} THEN NoRouter
              ELSE CHOOSE u \in namedRouters(n) : TRUE

Table == INSTANCE MemoryTable WITH
           UUIDs <- Routers,
           None <- NoRouter,
           Kept <- Classes \X (1..maxReplicas),
           Values <- Statuses,
           byUUID <- [u \in Routers |-> rowOf(u)],
           byPjName <- [n \in Names |-> ownerOf(n)],
           gone <- deleted

(* An UpdateStatus puts back the row it read before the router's removal. *)
PutsBackDeleted ==
    \E i \in Instances : job[i].pc = "statusPut" /\ job[i].uuid \in deleted

(* Router u is stored under name n, or a Create has scanned n for it.      *)
Claims(u, n) ==
    \/ rows[u] # NoRouter /\ rows[u].name = n
    \/ \E i \in Instances : job[i].pc = "put" /\ job[i].uuid = u /\ job[i].row.name = n

(* Two routers have, or are about to have, one name: Creates raced for it, *)
(* or a router came back after its name was given away.                    *)
NamesClash == \E n \in Names : \E t, u \in Routers : t # u /\ Claims(t, n) /\ Claims(u, n)

(* The etcd store honours the memory store's contract: whatever fails,     *)
(* crashes or overlaps, every change of the prefix is one Create, Delete   *)
(* or UpdateStatus of the maps, so no status report overwrites another     *)
(* field and no deleted router comes back (etcd.go:106-107, ErrNotFound).  *)
(* The exceptions: an UpdateStatus that read the row before its removal,   *)
(* since its put has no guard, and two routers after one name.             *)
ImplementsTable ==
    /\ Table!Init
    /\ [][PutsBackDeleted \/ NamesClash \/ Table!Next \/ UNCHANGED rows]_vars
=============================================================================
