------------------------------- MODULE DNSStore -------------------------------
(***************************************************************************)
(* The etcd-backed DNS store (internal/store/dns/etcd.go) under the        *)
(* handlers of internal/server/dns.go.  Handlers of any number of          *)
(* instances share one etcd; each request to etcd is one step.             *)
(*                                                                         *)
(* etcd (external) is linearizable, stamps each key it writes with a fresh *)
(* revision, and refuses a transaction of more than maxTxnOps operations.  *)
(* Names, records and the fields left out are as in DNSMemory.  The        *)
(* handler's own read of the zone, for a default TTL, decides nothing.     *)
(***************************************************************************)
EXTENDS Naturals, FiniteSets

CONSTANTS
    Zones, Records, Names, NoZone, NoRecord,
    Handlers,     \* concurrent request handlers
    maxAttempts,  \* DeleteRecord's attempts at the zone's count (8)
    maxTxnOps,    \* etcd's limit on a transaction (128)
    MaxCalls,     \* bound on the calls
    MaxFailures   \* bound on the requests that fail

ASSUME StoreAssumption ==
    /\ maxAttempts \in Nat \ {0} /\ maxTxnOps \in Nat
    /\ MaxCalls \in Nat /\ MaxFailures \in Nat
    /\ IsFiniteSet(Records) /\ NoZone \notin Zones /\ NoRecord \notin Records

ZoneRow == [name : Names, records : Nat, rev : Nat]

ASSUME ZoneRowAssumption ==
    NoZone \notin ZoneRow /\ NoZone \notin [name : Names, records : Nat]

VARIABLES
    zones,     \* etcd: /weft/network/dns-zones/
    records,   \* etcd: /weft/network/dns-records/, each record's zone
    rev,       \* etcd: the store revision
    minted,    \* zone and record UUIDs drawn so far
    deleted,   \* history: zones a DeleteZone removed
    calls,     \* calls made
    failures,  \* requests that failed
    job,       \* per handler: where it is, and its local variables
    raced,     \* history: zones on which a CreateRecord overlapped another
               \* call, or a call stopped or gave up short of the count
    contested  \* history: names two CreateZones were about to put at once

vars == <<zones, records, rev, minted, deleted, calls, failures, job, raced, contested>>

Idle == [pc |-> "idle", zone |-> NoZone, rec |-> NoRecord, row |-> NoZone,
         listed |-> {}, attempt |-> 0]

Init ==
    /\ zones = [z \in Zones |-> NoZone]
    /\ records = [r \in Records |-> NoZone]
    /\ rev = 0
    /\ minted = {} /\ deleted = {}
    /\ calls = 0 /\ failures = 0
    /\ job = [h \in Handlers |-> Idle]
    /\ raced = {} /\ contested = {}

-----------------------------------------------------------------------------
(* What the histories remember.  Every action ends with Watch. *)

(* The writes each call still has to make to zone z or to its records. *)
Creating(h, z) == job[h].zone = z /\ job[h].pc \in {"recordPut", "bump"}
Writing(h, z)  == \/ Creating(h, z)
                  \/ /\ job[h].zone = z
                     /\ job[h].pc \in {"cascade", "recordDelete", "countGet", "countCas"}

(* A CreateRecord and another writing call meet on z. *)
Meeting(z) == \E g, h \in Handlers : g # h /\ Creating(g, z) /\ Writing(h, z)

(* A failure cuts a call short while it writes. *)
CutShort(z) == failures' # failures /\ \E h \in Handlers : Writing(h, z) /\ ~Writing(h, z)'

(* A DeleteRecord is out of attempts and leaves the count as it is. *)
GivenUp(z) == /\ zones[z] # NoZone /\ zones'[z] = zones[z]
              /\ \E h \in Handlers : job[h].zone = z /\ job[h].pc = "countCas"
                                    /\ job'[h].pc = "idle"

(* Two CreateZones of name n have scanned and not yet put. *)
Twins(n) == \E g, h \in Handlers : g # h /\ \A k \in {g, h} :
                job[k].pc = "zonePut" /\ job[k].row.name = n

Watch == /\ raced' = raced \union {z \in Zones : Meeting(z)' \/ CutShort(z) \/ GivenUp(z)}
         /\ contested' = contested \union {n \in Names : Twins(n)'}

-----------------------------------------------------------------------------
(* Calls arrive *)

Call(h, j) == /\ job[h].pc = "idle" /\ calls < MaxCalls
              /\ calls' = calls + 1
              /\ job' = [job EXCEPT ![h] = j]
              /\ UNCHANGED <<zones, records, rev, deleted, failures>>
              /\ Watch

CallCreateZone(h) ==
    \E z \in Zones \ minted, n \in Names :
        /\ minted' = minted \union {z}
        /\ Call(h, [Idle EXCEPT !.pc = "zoneScan", !.zone = z,
                                !.row = [name |-> n, records |-> 0, rev |-> 0]])

CallDeleteZone(h) ==
    \E z \in Zones \intersect minted :
        Call(h, [Idle EXCEPT !.pc = "cascadeList", !.zone = z]) /\ UNCHANGED minted

CallCreateRecord(h) ==
    \E r \in Records \ minted, z \in Zones \intersect minted :
        /\ minted' = minted \union {r}
        /\ Call(h, [Idle EXCEPT !.pc = "recordZone", !.zone = z, !.rec = r])

CallDeleteRecord(h) ==
    \E r \in Records \intersect minted :
        Call(h, [Idle EXCEPT !.pc = "recordGet", !.rec = r]) /\ UNCHANGED minted

-----------------------------------------------------------------------------
Step(h, pc) == job' = [job EXCEPT ![h].pc = pc]
Return(h)   == job' = [job EXCEPT ![h] = Idle]

(* No call arrives and no request fails. *)
NoCall == UNCHANGED <<minted, calls, failures>> /\ Watch

PutZone(z, n, count) ==
    /\ zones' = [zones EXCEPT ![z] = [name |-> n, records |-> count, rev |-> rev + 1]]
    /\ rev' = rev + 1

(* Mutant: the scan finds nothing. *)
ZoneScanBlind(h) ==
    /\ job[h].pc = "zoneScan"
    /\ Step(h, "zonePut")
    /\ UNCHANGED <<zones, records, rev, deleted>> /\ NoCall

(* CreateZone: scan for the name, then put the key. *)
ZoneScan(h) ==
    /\ job[h].pc = "zoneScan"
    /\ IF \E z \in Zones : zones[z] # NoZone /\ zones[z].name = job[h].row.name
       THEN Return(h) ELSE Step(h, "zonePut")
    /\ UNCHANGED <<zones, records, rev, deleted>> /\ NoCall

ZonePut(h) ==
    /\ job[h].pc = "zonePut" /\ zones[job[h].zone] = NoZone
    /\ PutZone(job[h].zone, job[h].row.name, 0)
    /\ Return(h)
    /\ UNCHANGED <<records, deleted>> /\ NoCall

(* Mutant: no record is listed. *)
CascadeListNothing(h) ==
    /\ job[h].pc = "cascadeList"
    /\ Step(h, "cascade")
    /\ UNCHANGED <<zones, records, rev, deleted>> /\ NoCall

(* DeleteZone: list the zone's records ... *)
CascadeList(h) ==
    /\ job[h].pc = "cascadeList"
    /\ job' = [job EXCEPT ![h].pc = "cascade",
                          ![h].listed = {r \in Records : records[r] = job[h].zone}]
    /\ UNCHANGED <<zones, records, rev, deleted>> /\ NoCall

CascadeFits(h) == 1 + Cardinality(job[h].listed) <= maxTxnOps

(* ... and delete the zone and the records listed, in one transaction. *)
Cascade(h) ==
    LET z == job[h].zone
    IN /\ job[h].pc = "cascade" /\ CascadeFits(h) /\ zones[z] # NoZone
       /\ zones' = [zones EXCEPT ![z] = NoZone]
       /\ records' = [r \in Records |-> IF r \in job[h].listed THEN NoZone ELSE records[r]]
       /\ rev' = rev + 1
       /\ deleted' = deleted \union {z}
       /\ Return(h)
       /\ NoCall

(* The zone is gone, or the transaction has too many operations. *)
CascadeRefused(h) ==
    /\ job[h].pc = "cascade" /\ (~CascadeFits(h) \/ zones[job[h].zone] = NoZone)
    /\ Return(h)
    /\ UNCHANGED <<zones, records, rev, deleted>> /\ NoCall

(* CreateRecord: read the zone, ... *)
RecordZone(h) ==
    LET z == job[h].zone
    IN /\ job[h].pc = "recordZone"
       /\ IF zones[z] = NoZone THEN Return(h)
          ELSE job' = [job EXCEPT ![h].pc = "recordPut", ![h].row = zones[z]]
       /\ UNCHANGED <<zones, records, rev, deleted>> /\ NoCall

WriteRecord(h) ==
    /\ job[h].pc = "recordPut" /\ records[job[h].rec] = NoZone
    /\ records' = [records EXCEPT ![job[h].rec] = job[h].zone]
    /\ rev' = rev + 1
    /\ UNCHANGED <<zones, deleted, minted, calls>>

(* ... put the record if its key was never created, ... *)
RecordPut(h) ==
    WriteRecord(h) /\ Step(h, "bump") /\ UNCHANGED failures /\ Watch

(* ... and put the zone as it was read, with one record more, unguarded.   *)
Bump(h) ==
    /\ job[h].pc = "bump"
    /\ PutZone(job[h].zone, job[h].row.name, job[h].row.records + 1)
    /\ Return(h)
    /\ UNCHANGED <<records, deleted>> /\ NoCall

(* DeleteRecord: read the record for its zone, ... *)
RecordGet(h) ==
    LET z == records[job[h].rec]
    IN /\ job[h].pc = "recordGet"
       /\ IF z = NoZone THEN Return(h)
          ELSE job' = [job EXCEPT ![h].pc = "recordDelete", ![h].zone = z]
       /\ UNCHANGED <<zones, records, rev, deleted>> /\ NoCall

EraseRecord(h) ==
    /\ job[h].pc = "recordDelete" /\ records[job[h].rec] # NoZone
    /\ records' = [records EXCEPT ![job[h].rec] = NoZone]
    /\ rev' = rev + 1
    /\ UNCHANGED <<zones, deleted, minted, calls>>

(* ... delete it, ... *)
RecordDelete(h) ==
    EraseRecord(h) /\ Step(h, "countGet") /\ UNCHANGED failures /\ Watch

RecordGone(h) ==
    /\ job[h].pc = "recordDelete" /\ records[job[h].rec] = NoZone
    /\ Return(h)
    /\ UNCHANGED <<zones, records, rev, deleted>> /\ NoCall

(* Mutant: a count of zero is decremented too. *)
CountGetAny(h) ==
    LET z == job[h].zone
    IN /\ job[h].pc = "countGet"
       /\ IF zones[z] = NoZone THEN Return(h)
          ELSE job' = [job EXCEPT ![h].pc = "countCas", ![h].row = zones[z]]
       /\ UNCHANGED <<zones, records, rev, deleted>> /\ NoCall

(* ... and take one off the zone's count, in up to maxAttempts attempts: a *)
(* zone that is gone or counts no record is left alone.                    *)
CountGet(h) ==
    LET z == job[h].zone
    IN /\ job[h].pc = "countGet"
       /\ IF zones[z] = NoZone THEN Return(h)
          ELSE IF zones[z].records = 0 THEN Return(h)
          ELSE job' = [job EXCEPT ![h].pc = "countCas", ![h].row = zones[z]]
       /\ UNCHANGED <<zones, records, rev, deleted>> /\ NoCall

(* Mutant: the zone only has to exist. *)
ZoneExists(h) == zones[job[h].zone] # NoZone

(* Compare(ModRevision(zone), "=", the revision read). *)
ZoneUnmoved(h) ==
    zones[job[h].zone] # NoZone /\ zones[job[h].zone].rev = job[h].row.rev

CountCas(h) ==
    /\ job[h].pc = "countCas"
    /\ IF ZoneUnmoved(h)
       THEN PutZone(job[h].zone, job[h].row.name, job[h].row.records - 1) /\ Return(h)
       ELSE /\ UNCHANGED <<zones, rev>>
            /\ IF job[h].attempt + 1 < maxAttempts
               THEN job' = [job EXCEPT ![h].pc = "countGet", ![h].attempt = @ + 1]
               ELSE Return(h)
    /\ UNCHANGED <<records, deleted>> /\ NoCall

-----------------------------------------------------------------------------
(* Failures.  A call that fails before its first write changes nothing;    *)
(* after the record is written or deleted, only the count is missed.       *)

Fail == failures < MaxFailures /\ failures' = failures + 1

(* A request fails without effect, or the instance stops. *)
EtcdFails(h) ==
    /\ Fail
    /\ job[h].pc # "idle"
    /\ Return(h)
    /\ UNCHANGED <<zones, records, rev, deleted, minted, calls>>
    /\ Watch

(* A record is written or deleted and the reply is lost. *)
ReplyLost(h) ==
    /\ Fail
    /\ WriteRecord(h) \/ EraseRecord(h)
    /\ Return(h)
    /\ Watch

-----------------------------------------------------------------------------
Proceed(h) == \/ ZoneScan(h) \/ ZonePut(h)
              \/ CascadeList(h) \/ Cascade(h) \/ CascadeRefused(h)
              \/ RecordZone(h) \/ RecordPut(h) \/ Bump(h)
              \/ RecordGet(h) \/ RecordDelete(h) \/ RecordGone(h)
              \/ CountGet(h) \/ CountCas(h)

Calls(h) == CallCreateZone(h) \/ CallDeleteZone(h) \/ CallCreateRecord(h) \/ CallDeleteRecord(h)

Next == \E h \in Handlers : Calls(h) \/ Proceed(h) \/ EtcdFails(h) \/ ReplyLost(h)

Spec == Init /\ [][Next]_vars

-----------------------------------------------------------------------------
(* Properties *)

Labels == {"idle", "zoneScan", "zonePut", "cascadeList", "cascade", "recordZone",
           "recordPut", "bump", "recordGet", "recordDelete", "countGet", "countCas"}

(* The types of the store's and the handlers' state; a record count never  *)
(* goes negative although it is decremented from a row read earlier.       *)
TypeOK ==
    /\ zones \in [Zones -> ZoneRow \union {NoZone}]
    /\ records \in [Records -> Zones \union {NoZone}]
    /\ rev \in Nat
    /\ minted \subseteq Zones \union Records
    /\ deleted \subseteq Zones /\ raced \subseteq Zones /\ contested \subseteq Names
    /\ calls \in 0..MaxCalls /\ failures \in 0..MaxFailures
    /\ job \in [Handlers -> [pc : Labels, zone : Zones \union {NoZone},
                             rec : Records \union {NoRecord}, row : ZoneRow \union {NoZone},
                             listed : SUBSET Records, attempt : 0..maxAttempts]]

recordsOf(z) == {r \in Records : records[r] = z}

(* Concurrent DeleteRecords and DeleteZones leave a zone's count equal to  *)
(* the number of its records once they return: the compare-and-swap loop   *)
(* loses no decrement.  Only a CreateRecord that met another writer, a     *)
(* failure, or a decrement overtaken at every one of its attempts can make *)
(* it drift.                                                               *)
CountDriftIsExplained ==
    \A z \in Zones \ raced :
        (zones[z] # NoZone /\ \A h \in Handlers : ~Writing(h, z))
            => zones[z].records = Cardinality(recordsOf(z))

(* Unless a CreateRecord met it, a DeleteZone is complete and final:       *)
(* deleted zones stay deleted and leave no record behind.                  *)
OrphansAreExplained ==
    \A z \in deleted \ raced : zones[z] = NoZone /\ recordsOf(z) = {}

-----------------------------------------------------------------------------
(* The memory store's state, read off etcd.  A count still to be written   *)
(* by the call in progress counts as written.                              *)
pending(z, labels) == Cardinality({h \in Handlers : job[h].zone = z /\ job[h].pc \in labels})

countOf(z) == zones[z].records + pending(z, {"bump"}) - pending(z, {"countGet", "countCas"})

zoneOf(z) == IF zones[z] = NoZone THEN NoZone
             ELSE [name |-> zones[z].name, records |-> countOf(z)]

nameOwners(n) == {z \in Zones : zones[z] # NoZone /\ zones[z].name = n}
ownerOf(n)    == IF nameOwners(n) = {} THEN NoZone ELSE CHOOSE z \in nameOwners(n) : TRUE

Memory == INSTANCE DNSMemory WITH
            zones <- [z \in Zones |-> zoneOf(z)],
            zoneByName <- [n \in Names |-> ownerOf(n)],
            recordsByZ <- [z \in Zones |-> recordsOf(z)]

(* The etcd store honours the memory store's contract (memory.go:12-14),   *)
(* with the calls of several handlers overlapping: every step is one of    *)
(* its indivisible operations or changes nothing of it, cascade, counts    *)
(* and name index included, as long as no CreateRecord met another writer, *)
(* no call was cut short or gave up and no two CreateZones were past their *)
(* scan for one name together.                                             *)
ImplementsMemory ==
    /\ Memory!Init
    /\ [][raced' = {} /\ contested' = {} => (UNCHANGED Memory!vars \/ Memory!Next)]_vars
=============================================================================
