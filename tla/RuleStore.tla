------------------------------ MODULE RuleStore ------------------------------
(***************************************************************************)
(* The etcd-backed scheduling-rule store (internal/store/scheduling/       *)
(* etcd.go) under the handlers of internal/server/scheduling.go: Create    *)
(* scans the prefix for the (project, name) pair and then puts the key in  *)
(* a transaction of its own.  The load-balancer, router and DNS-zone       *)
(* stores create their rows the same way.                                  *)
(*                                                                         *)
(* etcd (external) is linearizable; a request may fail, before or after it *)
(* took effect.  A rule is its name, which stands for (project, name).     *)
(***************************************************************************)
EXTENDS Naturals

CONSTANTS
    Rules,     \* rule UUIDs
    Names,     \* (project, name) pairs
    Handlers,  \* concurrent request handlers
    None       \* no rule, no name

ASSUME NoneAssumption ==
    /\ None \notin Rules /\ None \notin Names
    /\ None \notin [name : Names, kept : {"rule"}, value : {"none"}]

VARIABLES
    rules,     \* etcd: /weft/network/scheduling-rules/, each rule's name
    minted,    \* UUIDs drawn
    job,       \* per handler: where it is, the rule and the name it is about
    deleted,   \* history: rules that were deleted
    contested  \* history: names two Creates were past their scan for at once

vars == <<rules, minted, job, deleted, contested>>

Idle == [pc |-> "idle", rule |-> None, name |-> None]

Init == /\ rules = [u \in Rules |-> None]
        /\ minted = {}
        /\ job = [h \in Handlers |-> Idle]
        /\ deleted = {} /\ contested = {}

-----------------------------------------------------------------------------
Return(h) == job' = [job EXCEPT ![h] = Idle]

(* CreateSchedulingRule: a valid request; the UUID is fresh. *)
CallCreate(h) ==
    /\ job[h].pc = "idle"
    /\ \E u \in Rules \ minted, n \in Names :
         /\ minted' = minted \union {u}
         /\ job' = [job EXCEPT ![h] = [pc |-> "scan", rule |-> u, name |-> n]]
    /\ UNCHANGED <<rules, deleted, contested>>

(* Mutant: the scan finds nothing. *)
TakenNever(n) == \E u \in Rules : rules[u] = n /\ rules[u] = None

Taken(n) == \E u \in Rules : rules[u] = n

(* Another Create of the name has scanned and not yet put. *)
PastScan(h, n) == \E g \in Handlers \ {h} : job[g].pc = "put" /\ job[g].name = n

CreateScan(h) ==
    LET n == job[h].name
    IN /\ job[h].pc = "scan"
       /\ IF Taken(n)
          THEN Return(h) /\ UNCHANGED contested
          ELSE /\ job' = [job EXCEPT ![h].pc = "put"]
               /\ contested' = contested \union {m \in {n} : PastScan(h, m)}
       /\ UNCHANGED <<rules, minted, deleted>>

(* Mutant: the UUID is stored as the name. *)
CreateTxnUUID(h) ==
    LET u == job[h].rule
    IN /\ job[h].pc = "put" /\ rules[u] = None
       /\ rules' = [rules EXCEPT ![u] = u]
       /\ Return(h)
       /\ UNCHANGED <<minted, deleted, contested>>

(* Mutant: a put whose reply is lost is sent again. *)
CreateTxnRetried(h) ==
    LET u == job[h].rule
    IN /\ job[h].pc = "put" /\ rules[u] = None
       /\ rules' = [rules EXCEPT ![u] = job[h].name]
       /\ Return(h) \/ UNCHANGED job
       /\ UNCHANGED <<minted, deleted, contested>>

(* The key was never created; the reply may be lost, which changes nothing. *)
CreateTxn(h) ==
    LET u == job[h].rule
    IN /\ job[h].pc = "put" /\ rules[u] = None
       /\ rules' = [rules EXCEPT ![u] = job[h].name]
       /\ Return(h)
       /\ UNCHANGED <<minted, deleted, contested>>

(* DeleteSchedulingRule: one request. *)
Delete(u) ==
    /\ u \in minted /\ rules[u] # None
    /\ rules' = [rules EXCEPT ![u] = None]
    /\ deleted' = deleted \union {u}
    /\ UNCHANGED <<minted, job, contested>>

(* A request of Create fails without effect, or the instance stops. *)
EtcdFails(h) ==
    /\ job[h].pc # "idle"
    /\ Return(h)
    /\ UNCHANGED <<rules, minted, deleted, contested>>

Next == \/ \E h \in Handlers : CallCreate(h) \/ CreateScan(h) \/ CreateTxn(h) \/ EtcdFails(h)
        \/ \E u \in Rules : Delete(u)

Spec == Init /\ [][Next]_vars

-----------------------------------------------------------------------------
(* Properties *)

(* The types of the store's and the handlers' state. *)
TypeOK ==
    /\ rules \in [Rules -> Names \union {None}]
    /\ minted \subseteq Rules
    /\ job \in [Handlers -> [pc : {"idle", "scan", "put"}, rule : Rules \union {None},
                             name : Names \union {None}]]
    /\ deleted \subseteq minted /\ contested \subseteq Names

Unique(n) == \A t, u \in Rules : rules[t] = n /\ rules[u] = n => t = u

(* scheduling.go:69-70, "The agent + UI assume rule names are unique       *)
(* within a project": two rules share a name only if two Creates of it     *)
(* were between scan and put at the same time; Creates that merely follow   *)
(* each other, Deletes and failed requests never produce a duplicate.      *)
DuplicatesAreContested == \A n \in Names \ contested : Unique(n)

-----------------------------------------------------------------------------
(* The memory store's two maps, read off etcd. *)
rowOf(u) == IF rules[u] = None THEN None
            ELSE [name |-> rules[u], kept |-> "rule", value |-> "none"]

ownerOf(n) == IF Taken(n) THEN CHOOSE u \in Rules : rules[u] = n ELSE None

Table == INSTANCE MemoryTable WITH
           UUIDs <- Rules,
           Kept <- {"rule"},
           Values <- {"none"},
           byUUID <- [u \in Rules |-> rowOf(u)],
           byPjName <- [n \in Names |-> ownerOf(n)],
           gone <- deleted

(* The etcd store honours the memory store's contract with the Creates and *)
(* Deletes of several handlers overlapping and any request failing: every  *)
(* change of the prefix is one indivisible Create or Delete of the maps,   *)
(* and no deleted rule comes back, until two Creates were past their scan  *)
(* for one name together.                                                  *)
ImplementsTable ==
    /\ Table!Init
    /\ [][contested' = {} => (Table!Next \/ UNCHANGED rules)]_vars
=============================================================================
