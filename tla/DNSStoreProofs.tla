---------------------------- MODULE DNSStoreProofs ----------------------------
(***************************************************************************)
(* Proofs about DNSStore, for any sets of zones, names and handlers, any   *)
(* finite set of records, and any number of attempts, calls and failures.  *)
(***************************************************************************)
EXTENDS DNSStore, FiniteSetTheorems, TLAPS

JobRecord == [pc : Labels, zone : Zones \union {NoZone},
              rec : Records \union {NoRecord}, row : ZoneRow \union {NoZone},
              listed : SUBSET Records, attempt : 0..maxAttempts]

(* Where a handler's zone, record and row mean something. *)
OnZone   == Labels \ {"idle", "recordGet"}
OnRecord == {"recordZone", "recordPut", "bump", "recordGet", "recordDelete", "countGet", "countCas"}
WithRow  == {"zoneScan", "zonePut", "recordPut", "bump", "countCas"}

(* A call on its way to create its zone or its record, and the places no   *)
(* other call can be in about that zone or record.                         *)
NewZone   == {"zoneScan", "zonePut"}
NewRecord == {"recordZone", "recordPut"}
InZone    == {"zoneScan", "zonePut", "recordPut", "bump", "recordDelete", "countGet", "countCas"}
InRecord  == OnRecord \ {"recordGet"}

Shape(h) ==
    /\ job[h].pc \in OnZone => job[h].zone \in Zones \intersect minted
    /\ job[h].pc \in OnRecord => job[h].rec \in Records \intersect minted
    /\ job[h].pc \in WithRow => job[h].row \in ZoneRow
    /\ job[h].pc = "countCas" => job[h].row.records # 0
    /\ job[h].listed \subseteq minted

(* A zone that is being created is new to everybody. *)
ZoneIsNew(h) ==
    job[h].pc \in NewZone =>
        /\ zones[job[h].zone] = NoZone /\ job[h].zone \notin deleted
        /\ \A r \in Records : records[r] # job[h].zone
        /\ \A g \in Handlers \ {h} : job[g].zone = job[h].zone => job[g].pc \notin InZone

(* So is a record. *)
RecordIsNew(h) ==
    job[h].pc \in NewRecord =>
        /\ records[job[h].rec] = NoZone
        /\ \A g \in Handlers \ {h} : /\ job[g].rec = job[h].rec => job[g].pc \notin InRecord
                                     /\ job[h].rec \notin job[g].listed

(* A record that was read or listed does not move to another zone. *)
RecordsStay(h) ==
    /\ job[h].pc = "recordDelete" => records[job[h].rec] \in {NoZone, job[h].zone}
    /\ \A r \in job[h].listed : /\ job[h].pc = "cascade"
                                /\ records[r] \in {NoZone, job[h].zone}

(* A zone that still has the revision read is the zone that was read. *)
RevisionTells(h) ==
    job[h].pc = "countCas" =>
        LET z == job[h].zone
        IN /\ job[h].row.rev <= rev
           /\ (zones[z] # NoZone /\ zones[z].rev = job[h].row.rev) => zones[z] = job[h].row

HandlerOK(h) == Shape(h) /\ ZoneIsNew(h) /\ RecordIsNew(h) /\ RecordsStay(h) /\ RevisionTells(h)

(* What is stored was minted, and revisions only grow. *)
StoreOK ==
    /\ \A z \in Zones : zones[z] # NoZone => z \in minted /\ zones[z].rev <= rev
    /\ \A r \in Records : records[r] # NoZone => r \in minted /\ records[r] \in minted
    /\ deleted \subseteq minted
    /\ IsFiniteSet({h \in Handlers : job[h].pc # "idle"})

(* The calls that still owe z's count one more, or one less. *)
Bumping(z)  == {h \in Handlers : job[h].zone = z /\ job[h].pc = "bump"}
Counting(z) == {h \in Handlers : job[h].zone = z /\ job[h].pc \in {"countGet", "countCas"}}

(* A zone on which nothing raced: what is owed makes up the difference     *)
(* between its count and its records, a CreateRecord holds it as it is,    *)
(* and a listing for the cascade is complete.                              *)
Sound(z) ==
    /\ ~Meeting(z)
    /\ zones[z] = NoZone => recordsOf(z) = {}
    /\ zones[z] # NoZone =>
         /\ z \notin deleted
         /\ zones[z].records + Cardinality(Bumping(z))
              = Cardinality(recordsOf(z)) + Cardinality(Counting(z))
    /\ \A h \in Handlers : Creating(h, z) => zones[z] # NoZone /\ zones[z] = job[h].row
    /\ \A h \in Handlers : (job[h].zone = z /\ job[h].pc = "cascade")
                              => recordsOf(z) \subseteq job[h].listed

(* Where nothing raced, no two zones have one name, and a name that was    *)
(* scanned is still free.                                                  *)
NamesOK ==
    (raced = {} /\ contested = {}) =>
        /\ \A y, z \in Zones :
             (zones[y] # NoZone /\ zones[z] # NoZone /\ zones[y].name = zones[z].name) => y = z
        /\ \A h \in Handlers, z \in Zones :
             (job[h].pc = "zonePut" /\ zones[z] # NoZone) => zones[z].name # job[h].row.name
        /\ \A n \in Names : ~Twins(n)

IInv == /\ TypeOK
        /\ StoreOK
        /\ \A h \in Handlers : HandlerOK(h)
        /\ \A z \in Zones \ raced : Sound(z)
        /\ NamesOK

-----------------------------------------------------------------------------
(* What a step of h may do to the others *)

Others(h) == \A g \in Handlers \ {h} : job'[g] = job[g]

(* A step writes a zone only if it is there or h is in it, gives it a new  *)
(* revision, and creates no record but h's own.                            *)
KeepsStore(h) ==
    /\ minted \subseteq minted' /\ deleted \subseteq deleted'
    /\ rev' \in Nat /\ rev <= rev'
    /\ \A z \in Zones :
         (zones'[z] # zones[z] \/ (z \in deleted' /\ z \notin deleted)) =>
           zones[z] # NoZone \/ (job[h].zone = z /\ job[h].pc \in InZone)
    /\ \A z \in Zones : \/ zones'[z] = zones[z] \/ zones'[z] = NoZone
                        \/ rev < zones'[z].rev
    /\ \A r \in Records :
         \/ records'[r] = records[r] \/ records'[r] = NoZone
         \/ job[h].rec = r /\ job[h].pc = "recordPut" /\ records'[r] = job[h].zone

(* h takes up a zone or a record that is there or new, or goes on with it. *)
Enters(h) ==
    /\ job'[h].pc \in InZone =>
         \/ job[h].pc \in InZone /\ job[h].zone = job'[h].zone
         \/ job'[h].zone \notin minted
         \/ zones[job'[h].zone] # NoZone
         \/ \E r \in Records : records[r] = job'[h].zone
    /\ job'[h].pc \in InRecord =>
         \/ job[h].pc \in InRecord /\ job[h].rec = job'[h].rec
         \/ job'[h].rec \notin minted
         \/ records[job'[h].rec] # NoZone
    /\ \A r \in job'[h].listed : r \in job[h].listed \/ records[r] # NoZone

(* A handler that is left alone stays well formed. *)
LEMMA OtherHandlerOK ==
    ASSUME IInv, NEW h \in Handlers, Others(h), KeepsStore(h), Enters(h),
           NEW g \in Handlers \ {h}
    PROVE  HandlerOK(g)'
  <1>1. HandlerOK(g) /\ job'[g] = job[g] /\ HandlerOK(h) /\ TypeOK /\ StoreOK
    BY DEF IInv, Others
  <1>2. Shape(g)'
    BY <1>1 DEF HandlerOK, Shape, KeepsStore
  <1>3. ZoneIsNew(g)'
    <2> SUFFICES ASSUME job[g].pc \in NewZone
                 PROVE  /\ zones'[job[g].zone] = NoZone /\ job[g].zone \notin deleted'
                        /\ \A r \in Records : records'[r] # job[g].zone
                        /\ \A k \in Handlers \ {g} : job'[k].zone = job[g].zone
                                                       => job'[k].pc \notin InZone
      BY <1>1 DEF ZoneIsNew
    <2> DEFINE z == job[g].zone
    <2>1. z \in Zones /\ z \in minted
      BY <1>1 DEF HandlerOK, Shape, NewZone, OnZone, Labels
    <2>2. /\ zones[z] = NoZone /\ z \notin deleted /\ \A r \in Records : records[r] # z
          /\ \A k \in Handlers \ {g} : job[k].zone = z => job[k].pc \notin InZone
      BY <1>1 DEF HandlerOK, ZoneIsNew
    <2> HIDE DEF z
    <2>3. ~(job[h].zone = z /\ job[h].pc \in InZone)
      BY <2>2
    <2>4. zones'[z] = NoZone /\ z \notin deleted'
      BY <2>1, <2>2, <2>3 DEF KeepsStore
    <2>5. \A r \in Records : records'[r] # z
      <3>1. z # NoZone
        BY <2>1, StoreAssumption
      <3> QED BY <2>2, <2>3, <3>1 DEF KeepsStore, InZone
    <2>6. job'[h].zone = z => job'[h].pc \notin InZone
      BY <2>1, <2>2, <2>3 DEF Enters
    <2>7. \A k \in Handlers \ {g} : job'[k].zone = z => job'[k].pc \notin InZone
      BY <2>2, <2>6 DEF Others
    <2> QED BY <2>4, <2>5, <2>7 DEF z
  <1>4. RecordIsNew(g)'
    <2> SUFFICES ASSUME job[g].pc \in NewRecord
                 PROVE  /\ records'[job[g].rec] = NoZone
                        /\ \A k \in Handlers \ {g} :
                             /\ job'[k].rec = job[g].rec => job'[k].pc \notin InRecord
                             /\ job[g].rec \notin job'[k].listed
      BY <1>1 DEF RecordIsNew
    <2> DEFINE r == job[g].rec
    <2>1. r \in Records /\ r \in minted
      BY <1>1 DEF HandlerOK, Shape, NewRecord, OnRecord
    <2>2. /\ records[r] = NoZone
          /\ \A k \in Handlers \ {g} : /\ job[k].rec = r => job[k].pc \notin InRecord
                                       /\ r \notin job[k].listed
      BY <1>1 DEF HandlerOK, RecordIsNew
    <2> HIDE DEF r
    <2>3. records'[r] = NoZone
      BY <2>1, <2>2 DEF KeepsStore, InRecord, OnRecord
    <2>4. (job'[h].rec = r => job'[h].pc \notin InRecord) /\ r \notin job'[h].listed
      BY <2>1, <2>2 DEF Enters
    <2>5. \A k \in Handlers \ {g} : /\ job'[k].rec = r => job'[k].pc \notin InRecord
                                    /\ r \notin job'[k].listed
      BY <2>2, <2>4 DEF Others
    <2> QED BY <2>3, <2>5 DEF r
  <1>5. RecordsStay(g)'
    <2>1. ASSUME job[g].pc = "recordDelete" PROVE records'[job[g].rec] \in {NoZone, job[g].zone}
      <3>1. job[g].rec \in Records /\ records[job[g].rec] \in {NoZone, job[g].zone}
        BY <1>1, <2>1 DEF HandlerOK, Shape, RecordsStay, OnRecord
      <3>2. ~(job[h].rec = job[g].rec /\ job[h].pc = "recordPut")
        BY <1>1, <2>1 DEF HandlerOK, RecordIsNew, NewRecord, InRecord, OnRecord
      <3> QED BY <3>1, <3>2 DEF KeepsStore
    <2>2. ASSUME NEW r \in job[g].listed
          PROVE  job[g].pc = "cascade" /\ records'[r] \in {NoZone, job[g].zone}
      <3>1. r \in Records /\ job[g].pc = "cascade" /\ records[r] \in {NoZone, job[g].zone}
        BY <1>1, <2>2 DEF HandlerOK, RecordsStay, TypeOK
      <3>2. ~(job[h].rec = r /\ job[h].pc = "recordPut")
        BY <1>1, <2>2 DEF HandlerOK, RecordIsNew, NewRecord
      <3> QED BY <3>1, <3>2 DEF KeepsStore
    <2> QED BY <1>1, <2>1, <2>2 DEF RecordsStay
  <1>6. RevisionTells(g)'
    <2> SUFFICES ASSUME job[g].pc = "countCas"
                 PROVE  /\ job[g].row.rev <= rev'
                        /\ (/\ zones'[job[g].zone] # NoZone
                            /\ zones'[job[g].zone].rev = job[g].row.rev)
                              => zones'[job[g].zone] = job[g].row
      BY <1>1 DEF RevisionTells
    <2> DEFINE z == job[g].zone  row == job[g].row
    <2>1. z \in Zones /\ row \in ZoneRow /\ row.rev \in Nat
      BY <1>1 DEF HandlerOK, Shape, OnZone, WithRow, Labels, ZoneRow
    <2>2. row.rev <= rev /\ ((zones[z] # NoZone /\ zones[z].rev = row.rev) => zones[z] = row)
      BY <1>1 DEF HandlerOK, RevisionTells
    <2> HIDE DEF z, row
    <2>3. rev \in Nat /\ rev' \in Nat /\ rev <= rev'
      BY <1>1 DEF TypeOK, KeepsStore
    <2>4. row.rev <= rev'
      BY <2>1, <2>2, <2>3
    <2>5. rev < zones'[z].rev => zones'[z].rev # row.rev
      BY <2>1, <2>2, <2>3
    <2>6. (zones'[z] # NoZone /\ zones'[z].rev = row.rev) => zones'[z] = row
      BY <2>1, <2>2, <2>5 DEF KeepsStore
    <2> QED BY <2>4, <2>6 DEF z, row
  <1> QED BY <1>2, <1>3, <1>4, <1>5, <1>6 DEF HandlerOK

(* What the histories say of a step. *)
LEMMA Watched ==
    ASSUME Watch
    PROVE  /\ raced \subseteq raced' /\ contested \subseteq contested'
           /\ \A z \in Zones \ raced' : ~Meeting(z)' /\ ~CutShort(z) /\ ~GivenUp(z)
           /\ \A n \in Names \ contested' : ~Twins(n)'
           /\ raced \subseteq Zones => raced' \subseteq Zones
           /\ contested \subseteq Names => contested' \subseteq Names
  BY DEF Watch

(* One handler's record is replaced. *)
LEMMA JobUpdate ==
    ASSUME IInv, NEW h \in Handlers, NEW j \in JobRecord, job' = [job EXCEPT ![h] = j]
    PROVE  /\ job[h] \in JobRecord /\ job \in [Handlers -> JobRecord]
           /\ job' \in [Handlers -> JobRecord] /\ job'[h] = j /\ Others(h)
  <1>1. job \in [Handlers -> JobRecord]
    BY DEF IInv, TypeOK, JobRecord
  <1> QED BY <1>1 DEF Others

(* At most one more handler is busy. *)
LEMMA BusyFinite ==
    ASSUME IInv, NEW h \in Handlers, Others(h)
    PROVE  IsFiniteSet({g \in Handlers : job'[g].pc # "idle"})
  <1> DEFINE B == {g \in Handlers : job[g].pc # "idle"}
  <1>1. IsFiniteSet(B)
    BY DEF IInv, StoreOK
  <1>2. IsFiniteSet(B \union {h})
    BY <1>1, FS_AddElement
  <1>3. {g \in Handlers : job'[g].pc # "idle"} \subseteq B \union {h}
    BY DEF Others
  <1> QED BY <1>2, <1>3, FS_Subset

(* The calls that owe a zone's count are finitely many. *)
LEMMA OwedFinite ==
    ASSUME IInv, NEW z
    PROVE  /\ IsFiniteSet(Bumping(z)) /\ IsFiniteSet(Counting(z)) /\ IsFiniteSet(recordsOf(z))
           /\ Cardinality(Bumping(z)) \in Nat /\ Cardinality(Counting(z)) \in Nat
           /\ Cardinality(recordsOf(z)) \in Nat
  <1> DEFINE B == {g \in Handlers : job[g].pc # "idle"}
  <1>1. IsFiniteSet(B) /\ Bumping(z) \subseteq B /\ Counting(z) \subseteq B
    BY DEF IInv, StoreOK, Bumping, Counting
  <1>2. IsFiniteSet(Records) /\ recordsOf(z) \subseteq Records
    BY StoreAssumption DEF recordsOf
  <1>3. IsFiniteSet(Bumping(z)) /\ IsFiniteSet(Counting(z)) /\ IsFiniteSet(recordsOf(z))
    BY <1>1, <1>2, FS_Subset
  <1> QED BY <1>3, FS_CardinalityType

(* A zone that a step leaves alone. *)
SameZone(h, z) ==
    /\ zones'[z] = zones[z] /\ recordsOf(z)' = recordsOf(z) /\ (z \in deleted' => z \in deleted)
    /\ zones[z] # NoZone => /\ h \in Bumping(z)' <=> h \in Bumping(z)
                            /\ h \in Counting(z)' <=> h \in Counting(z)
    /\ Creating(h, z)' => zones[z] # NoZone /\ zones[z] = job'[h].row
    /\ (job'[h].zone = z /\ job'[h].pc = "cascade") => recordsOf(z) \subseteq job'[h].listed

LEMMA SoundKept ==
    ASSUME IInv, NEW h \in Handlers, NEW z \in Zones \ raced, Others(h), ~Meeting(z)',
           SameZone(h, z)
    PROVE  Sound(z)'
  <1>1. Sound(z)
    BY DEF IInv
  <1>2. zones[z] # NoZone => Bumping(z)' = Bumping(z) /\ Counting(z)' = Counting(z)
    BY DEF SameZone, Others, Bumping, Counting
  <1>3. \A g \in Handlers : Creating(g, z)' => zones[z] # NoZone /\ zones[z] = job'[g].row
    BY <1>1 DEF SameZone, Others, Sound, Creating
  <1>4. \A g \in Handlers : (job'[g].zone = z /\ job'[g].pc = "cascade")
                              => recordsOf(z) \subseteq job'[g].listed
    BY <1>1 DEF SameZone, Others, Sound
  <1> QED BY <1>1, <1>2, <1>3, <1>4 DEF Sound, SameZone

(* Names: no zone appears under another name, and a name about to be put   *)
(* was free.                                                               *)
LEMMA NamesKept ==
    ASSUME IInv, NEW h \in Handlers, Others(h), Watch,
           (raced' = {} /\ contested' = {}) =>
             /\ \A z \in Zones : zones'[z] # NoZone =>
                                   zones[z] # NoZone /\ zones'[z].name = zones[z].name
             /\ job'[h].pc = "zonePut" =>
                  \A z \in Zones : zones[z] # NoZone => zones[z].name # job'[h].row.name
    PROVE  NamesOK'
  <1> SUFFICES ASSUME raced' = {}, contested' = {}
               PROVE  /\ \A y, z \in Zones : (/\ zones'[y] # NoZone /\ zones'[z] # NoZone
                                              /\ zones'[y].name = zones'[z].name) => y = z
                      /\ \A g \in Handlers, z \in Zones :
                           (job'[g].pc = "zonePut" /\ zones'[z] # NoZone)
                              => zones'[z].name # job'[g].row.name
                      /\ \A n \in Names : ~Twins(n)'
    BY DEF NamesOK
  <1>1. raced = {} /\ contested = {} /\ \A n \in Names : ~Twins(n)'
    BY Watched
  <1>2. /\ \A y, z \in Zones :
             (zones[y] # NoZone /\ zones[z] # NoZone /\ zones[y].name = zones[z].name) => y = z
        /\ \A g \in Handlers, z \in Zones :
             (job[g].pc = "zonePut" /\ zones[z] # NoZone) => zones[z].name # job[g].row.name
    BY <1>1 DEF IInv, NamesOK
  <1>3. \A g \in Handlers, z \in Zones :
          (job'[g].pc = "zonePut" /\ zones'[z] # NoZone) => zones'[z].name # job'[g].row.name
    BY <1>2 DEF Others
  <1> QED BY <1>1, <1>2, <1>3

(* A step of one handler that writes nothing. *)
LEMMA QuietStep ==
    ASSUME IInv, NEW h \in Handlers, NEW j \in JobRecord, job' = [job EXCEPT ![h] = j], Watch,
           UNCHANGED <<zones, records, rev, deleted>>,
           minted \subseteq minted', minted' \subseteq Zones \union Records,
           calls' \in 0..MaxCalls, failures' \in 0..MaxFailures,
           HandlerOK(h)', Enters(h),
           \A z \in Zones \ raced' :
             /\ zones[z] # NoZone => /\ h \in Bumping(z)' <=> h \in Bumping(z)
                                     /\ h \in Counting(z)' <=> h \in Counting(z)
             /\ Creating(h, z)' => zones[z] # NoZone /\ zones[z] = j.row
             /\ (j.zone = z /\ j.pc = "cascade") => recordsOf(z) \subseteq j.listed,
           j.pc = "zonePut" => \A z \in Zones : zones[z] # NoZone => zones[z].name # j.row.name
    PROVE  IInv'
  <1>1. job' \in [Handlers -> JobRecord] /\ job'[h] = j /\ Others(h)
    BY JobUpdate
  <1>2. TypeOK'
    BY <1>1, Watched DEF IInv, TypeOK, JobRecord
  <1>3. StoreOK'
    BY <1>1, BusyFinite DEF IInv, StoreOK
  <1>4. KeepsStore(h)
    BY DEF KeepsStore, IInv, TypeOK
  <1>5. \A g \in Handlers : HandlerOK(g)'
    BY <1>1, <1>4, OtherHandlerOK
  <1>6. ASSUME NEW z \in Zones \ raced' PROVE Sound(z)'
    <2>1. z \notin raced /\ ~Meeting(z)'
      BY Watched
    <2>2. recordsOf(z)' = recordsOf(z)
      BY DEF recordsOf
    <2>3. SameZone(h, z)
      BY <1>1, <2>2 DEF SameZone
    <2> QED BY <1>1, <2>1, <2>3, SoundKept
  <1>7. NamesOK'
    BY <1>1, NamesKept
  <1> QED BY <1>2, <1>3, <1>5, <1>6, <1>7 DEF IInv

-----------------------------------------------------------------------------
(* Returns *)

LEMMA Counters ==
    ASSUME IInv
    PROVE  /\ calls \in 0..MaxCalls /\ failures \in 0..MaxFailures
           /\ (calls < MaxCalls /\ calls' = calls + 1) => calls' \in 0..MaxCalls
           /\ Fail => failures' \in 0..MaxFailures /\ failures' # failures
  BY StoreAssumption DEF IInv, TypeOK, Fail

(* The fields of an idle handler, and of a call that starts from one. *)
LEMMA IdleFields ==
    /\ Idle \in JobRecord
    /\ Idle.pc = "idle" /\ Idle.zone = NoZone /\ Idle.rec = NoRecord /\ Idle.listed = {}
  BY StoreAssumption DEF Idle, JobRecord, Labels

(* A handler that has nothing in hand. *)
LEMMA IdleOK ==
    ASSUME IInv, NEW h \in Handlers, Return(h)
    PROVE  /\ job' = [job EXCEPT ![h] = Idle] /\ job'[h] = Idle /\ Others(h)
           /\ HandlerOK(h)' /\ Enters(h)
           /\ \A z : ~Creating(h, z)' /\ h \notin Bumping(z)' /\ h \notin Counting(z)'
  <1>1. job' = [job EXCEPT ![h] = Idle]
    BY DEF Return
  <1>2. job'[h] = Idle /\ Others(h)
    BY <1>1, IdleFields, JobUpdate
  <1>3. job'[h].pc = "idle" /\ job'[h].listed = {}
    BY <1>2, IdleFields
  <1>4. HandlerOK(h)'
    BY <1>3 DEF HandlerOK, Shape, OnZone, OnRecord, WithRow, ZoneIsNew, NewZone, RecordIsNew,
                NewRecord, RecordsStay, RevisionTells
  <1>5. Enters(h)
    BY <1>3 DEF Enters, InZone, InRecord, OnRecord
  <1>6. \A z : ~Creating(h, z)' /\ h \notin Bumping(z)' /\ h \notin Counting(z)'
    BY <1>3 DEF Creating, Bumping, Counting
  <1> QED BY <1>1, <1>2, <1>4, <1>5, <1>6

(* A call that owes no count returns and writes nothing. *)
LEMMA ReturnQuietly ==
    ASSUME IInv, NEW h \in Handlers, Return(h), Watch,
           UNCHANGED <<zones, records, rev, deleted, minted>>,
           calls' \in 0..MaxCalls, failures' \in 0..MaxFailures,
           \A z \in Zones \ raced' :
             zones[z] # NoZone => h \notin Bumping(z) /\ h \notin Counting(z)
    PROVE  IInv'
  <1>1. minted' \subseteq Zones \union Records
    BY DEF IInv, TypeOK
  <1>2. Idle.pc # "cascade" /\ Idle.pc # "zonePut" /\ Idle \in JobRecord
    BY IdleFields
  <1> QED BY <1>1, <1>2, IdleOK, QuietStep

(* Where a handler that is not counting stands. *)
LEMMA OwesNothing ==
    ASSUME NEW h \in Handlers, job[h].pc \notin {"bump", "countGet", "countCas"}
    PROVE  \A z : h \notin Bumping(z) /\ h \notin Counting(z)
  BY DEF Bumping, Counting

LEMMA PlainReturnOK ==
    ASSUME IInv, NEW h \in Handlers, Return(h), UNCHANGED <<zones, records, rev, deleted>>,
           NoCall, job[h].pc \notin {"bump", "countGet", "countCas"}
    PROVE  IInv'
  <1>1. Watch /\ UNCHANGED minted /\ calls' \in 0..MaxCalls /\ failures' \in 0..MaxFailures
    BY Counters DEF NoCall
  <1> QED BY <1>1, OwesNothing, ReturnQuietly

(* A failure cuts the call short, on record if it was writing. *)
LEMMA EtcdFailsOK ==
    ASSUME IInv, NEW h \in Handlers, EtcdFails(h)
    PROVE  IInv'
  <1>1. /\ Return(h) /\ Watch /\ UNCHANGED <<zones, records, rev, deleted, minted>>
        /\ calls' \in 0..MaxCalls /\ failures' \in 0..MaxFailures /\ failures' # failures
    BY Counters DEF EtcdFails
  <1>2. job'[h].pc = "idle"
    BY <1>1, IdleOK, IdleFields
  <1>3. ASSUME NEW z \in Zones \ raced' PROVE h \notin Bumping(z) /\ h \notin Counting(z)
    <2>1. ~CutShort(z)
      BY <1>1, Watched
    <2>2. ~Writing(h, z)'
      BY <1>2 DEF Writing, Creating
    <2>3. ~Writing(h, z)
      BY <1>1, <2>1, <2>2 DEF CutShort
    <2> QED BY <2>3 DEF Writing, Creating, Bumping, Counting
  <1> QED BY <1>1, <1>3, ReturnQuietly

-----------------------------------------------------------------------------
(* Calls *)

LEMMA CallFields ==
    ASSUME IInv, NEW h \in Handlers, NEW j \in JobRecord, Call(h, j)
    PROVE  /\ job[h].pc = "idle" /\ job' = [job EXCEPT ![h] = j] /\ job'[h] = j
           /\ Watch /\ UNCHANGED <<zones, records, rev, deleted>>
           /\ calls' \in 0..MaxCalls /\ failures' \in 0..MaxFailures
           /\ \A z : h \notin Bumping(z) /\ h \notin Counting(z)
  <1>1. /\ job[h].pc = "idle" /\ job' = [job EXCEPT ![h] = j]
        /\ Watch /\ UNCHANGED <<zones, records, rev, deleted>>
        /\ calls' \in 0..MaxCalls /\ failures' \in 0..MaxFailures
    BY Counters DEF Call
  <1> QED BY <1>1, JobUpdate, OwesNothing

LEMMA CallCreateZoneOK ==
    ASSUME IInv, NEW h \in Handlers, CallCreateZone(h)
    PROVE  IInv'
  <1> DEFINE new(z, n) == [Idle EXCEPT !.pc = "zoneScan", !.zone = z,
                                       !.row = [name |-> n, records |-> 0, rev |-> 0]]
  <1>1. PICK z \in Zones \ minted, n \in Names : minted' = minted \union {z} /\ Call(h, new(z, n))
    BY DEF CallCreateZone
  <1> DEFINE j == new(z, n)
  <1>2. /\ j \in JobRecord /\ j.pc = "zoneScan" /\ j.zone = z /\ j.row \in ZoneRow /\ j.listed = {}
    <2>1. [name |-> n, records |-> 0, rev |-> 0] \in ZoneRow
      BY DEF ZoneRow
    <2> QED BY <2>1, IdleFields DEF JobRecord, Labels
  <1> HIDE DEF j
  <1>3. /\ job[h].pc = "idle" /\ job' = [job EXCEPT ![h] = j] /\ job'[h] = j
        /\ Watch /\ UNCHANGED <<zones, records, rev, deleted>>
        /\ calls' \in 0..MaxCalls /\ failures' \in 0..MaxFailures
        /\ \A y : h \notin Bumping(y) /\ h \notin Counting(y)
    <2>1. Call(h, j)
      BY <1>1 DEF j
    <2> QED BY <1>2, <2>1, CallFields
  <1>4. minted \subseteq minted' /\ minted' \subseteq Zones \union Records /\ z \in minted'
    BY <1>1 DEF IInv, TypeOK
  <1>5. Shape(h)'
    BY <1>2, <1>3, <1>4 DEF Shape, OnRecord
  <1>6. ZoneIsNew(h)'
    <2>1. zones[z] = NoZone /\ z \notin deleted /\ \A r \in Records : records[r] # z
      BY StoreAssumption DEF IInv, StoreOK
    <2>2. \A g \in Handlers : job[g].zone = z => job[g].pc \notin InZone
      BY DEF IInv, HandlerOK, Shape, InZone, OnZone, Labels
    <2>3. Others(h)
      BY <1>2, <1>3, JobUpdate
    <2>4. \A g \in Handlers \ {h} : job'[g].zone = z => job'[g].pc \notin InZone
      BY <2>2, <2>3 DEF Others
    <2> QED BY <1>2, <1>3, <2>1, <2>4 DEF ZoneIsNew
  <1>7. HandlerOK(h)'
    BY <1>2, <1>3, <1>5, <1>6 DEF HandlerOK, RecordIsNew, NewRecord, RecordsStay, RevisionTells
  <1>8. Enters(h)
    BY <1>2, <1>3 DEF Enters, InRecord, OnRecord
  <1>9. \A y : h \notin Bumping(y)' /\ h \notin Counting(y)' /\ ~Creating(h, y)'
    BY <1>2, <1>3 DEF Bumping, Counting, Creating
  <1> QED BY <1>2, <1>3, <1>4, <1>7, <1>8, <1>9, QuietStep

LEMMA CallDeleteZoneOK ==
    ASSUME IInv, NEW h \in Handlers, CallDeleteZone(h)
    PROVE  IInv'
  <1>1. PICK z \in Zones \intersect minted :
          Call(h, [Idle EXCEPT !.pc = "cascadeList", !.zone = z]) /\ UNCHANGED minted
    BY DEF CallDeleteZone
  <1> DEFINE j == [Idle EXCEPT !.pc = "cascadeList", !.zone = z]
  <1>2. j \in JobRecord /\ j.pc = "cascadeList" /\ j.zone = z /\ j.listed = {}
    BY IdleFields DEF JobRecord, Labels
  <1> HIDE DEF j
  <1>3. /\ job[h].pc = "idle" /\ job' = [job EXCEPT ![h] = j] /\ job'[h] = j
        /\ Watch /\ UNCHANGED <<zones, records, rev, deleted>>
        /\ calls' \in 0..MaxCalls /\ failures' \in 0..MaxFailures
        /\ \A y : h \notin Bumping(y) /\ h \notin Counting(y)
    <2>1. Call(h, j)
      BY <1>1 DEF j
    <2> QED BY <1>2, <2>1, CallFields
  <1>4. minted \subseteq minted' /\ minted' \subseteq Zones \union Records
    BY <1>1 DEF IInv, TypeOK
  <1>5. HandlerOK(h)'
    BY <1>1, <1>2, <1>3 DEF HandlerOK, Shape, OnRecord, WithRow, ZoneIsNew, NewZone,
                            RecordIsNew, NewRecord, RecordsStay, RevisionTells
  <1>6. Enters(h)
    BY <1>2, <1>3 DEF Enters, InZone, InRecord, OnRecord
  <1>7. \A y : h \notin Bumping(y)' /\ h \notin Counting(y)' /\ ~Creating(h, y)'
    BY <1>2, <1>3 DEF Bumping, Counting, Creating
  <1> QED BY <1>2, <1>3, <1>4, <1>5, <1>6, <1>7, QuietStep

LEMMA CallCreateRecordOK ==
    ASSUME IInv, NEW h \in Handlers, CallCreateRecord(h)
    PROVE  IInv'
  <1>1. PICK r \in Records \ minted, z \in Zones \intersect minted :
          /\ minted' = minted \union {r}
          /\ Call(h, [Idle EXCEPT !.pc = "recordZone", !.zone = z, !.rec = r])
    BY DEF CallCreateRecord
  <1> DEFINE j == [Idle EXCEPT !.pc = "recordZone", !.zone = z, !.rec = r]
  <1>2. j \in JobRecord /\ j.pc = "recordZone" /\ j.zone = z /\ j.rec = r /\ j.listed = {}
    BY IdleFields DEF JobRecord, Labels
  <1> HIDE DEF j
  <1>3. /\ job[h].pc = "idle" /\ job' = [job EXCEPT ![h] = j] /\ job'[h] = j
        /\ Watch /\ UNCHANGED <<zones, records, rev, deleted>>
        /\ calls' \in 0..MaxCalls /\ failures' \in 0..MaxFailures
        /\ \A y : h \notin Bumping(y) /\ h \notin Counting(y)
    <2>1. Call(h, j)
      BY <1>1 DEF j
    <2> QED BY <1>2, <2>1, CallFields
  <1>4. /\ minted \subseteq minted' /\ minted' \subseteq Zones \union Records
        /\ r \in minted' /\ z \in minted'
    BY <1>1 DEF IInv, TypeOK
  <1>5. Shape(h)'
    BY <1>2, <1>3, <1>4 DEF Shape, WithRow
  <1>6. RecordIsNew(h)'
    <2>1. records[r] = NoZone
      BY DEF IInv, StoreOK
    <2>2. \A g \in Handlers : (job[g].rec = r => job[g].pc \notin InRecord) /\ r \notin job[g].listed
      BY DEF IInv, HandlerOK, Shape, InRecord
    <2>3. Others(h)
      BY <1>2, <1>3, JobUpdate
    <2>4. \A g \in Handlers \ {h} : /\ job'[g].rec = r => job'[g].pc \notin InRecord
                                    /\ r \notin job'[g].listed
      BY <2>2, <2>3 DEF Others
    <2> QED BY <1>2, <1>3, <2>1, <2>4 DEF RecordIsNew
  <1>7. HandlerOK(h)'
    BY <1>2, <1>3, <1>5, <1>6 DEF HandlerOK, ZoneIsNew, NewZone, RecordsStay, RevisionTells
  <1>8. Enters(h)
    BY <1>1, <1>2, <1>3 DEF Enters, InZone
  <1>9. \A y : h \notin Bumping(y)' /\ h \notin Counting(y)' /\ ~Creating(h, y)'
    BY <1>2, <1>3 DEF Bumping, Counting, Creating
  <1> QED BY <1>2, <1>3, <1>4, <1>7, <1>8, <1>9, QuietStep

LEMMA CallDeleteRecordOK ==
    ASSUME IInv, NEW h \in Handlers, CallDeleteRecord(h)
    PROVE  IInv'
  <1>1. PICK r \in Records \intersect minted :
          Call(h, [Idle EXCEPT !.pc = "recordGet", !.rec = r]) /\ UNCHANGED minted
    BY DEF CallDeleteRecord
  <1> DEFINE j == [Idle EXCEPT !.pc = "recordGet", !.rec = r]
  <1>2. j \in JobRecord /\ j.pc = "recordGet" /\ j.rec = r /\ j.listed = {}
    BY IdleFields DEF JobRecord, Labels
  <1> HIDE DEF j
  <1>3. /\ job[h].pc = "idle" /\ job' = [job EXCEPT ![h] = j] /\ job'[h] = j
        /\ Watch /\ UNCHANGED <<zones, records, rev, deleted>>
        /\ calls' \in 0..MaxCalls /\ failures' \in 0..MaxFailures
        /\ \A y : h \notin Bumping(y) /\ h \notin Counting(y)
    <2>1. Call(h, j)
      BY <1>1 DEF j
    <2> QED BY <1>2, <2>1, CallFields
  <1>4. minted \subseteq minted' /\ minted' \subseteq Zones \union Records
    BY <1>1 DEF IInv, TypeOK
  <1>5. HandlerOK(h)'
    BY <1>1, <1>2, <1>3 DEF HandlerOK, Shape, OnZone, WithRow, ZoneIsNew, NewZone,
                            RecordIsNew, NewRecord, RecordsStay, RevisionTells
  <1>6. Enters(h)
    BY <1>2, <1>3 DEF Enters, InZone, InRecord
  <1>7. \A y : h \notin Bumping(y)' /\ h \notin Counting(y)' /\ ~Creating(h, y)'
    BY <1>2, <1>3 DEF Bumping, Counting, Creating
  <1> QED BY <1>2, <1>3, <1>4, <1>5, <1>6, <1>7, QuietStep

-----------------------------------------------------------------------------
(* Steps that read *)

(* A call goes on to its next request. *)
LEMMA StepFields ==
    ASSUME IInv, NEW h \in Handlers, NEW pc \in Labels, Step(h, pc)
    PROVE  \E j \in JobRecord :
             /\ job' = [job EXCEPT ![h] = j] /\ j.pc = pc /\ j.zone = job[h].zone
             /\ j.rec = job[h].rec /\ j.row = job[h].row /\ j.listed = job[h].listed
  <1> DEFINE j == [job[h] EXCEPT !.pc = pc]
  <1>1. job[h] \in JobRecord
    BY DEF IInv, TypeOK, JobRecord
  <1>2. /\ j \in JobRecord /\ j.pc = pc /\ j.zone = job[h].zone
        /\ j.rec = job[h].rec /\ j.row = job[h].row /\ j.listed = job[h].listed
    BY <1>1 DEF JobRecord
  <1>3. job' = [job EXCEPT ![h] = j]
    BY DEF Step
  <1> QED BY <1>2, <1>3

LEMMA NoCallFields ==
    ASSUME IInv, NoCall
    PROVE  /\ Watch /\ minted' = minted /\ minted \subseteq Zones \union Records
           /\ calls' \in 0..MaxCalls /\ failures' \in 0..MaxFailures
  BY DEF NoCall, IInv, TypeOK

(* Only a DeleteZone has records listed. *)
LEMMA ListedByCascade ==
    ASSUME IInv, NEW h \in Handlers, job[h].pc # "cascade"
    PROVE  job[h].listed = {}
  BY DEF IInv, HandlerOK, RecordsStay

LEMMA ZoneScanOK ==
    ASSUME IInv, NEW h \in Handlers, ZoneScan(h)
    PROVE  IInv'
  <1>1. job[h].pc = "zoneScan" /\ UNCHANGED <<zones, records, rev, deleted>> /\ NoCall
    BY DEF ZoneScan
  <1>2. CASE Return(h)
    BY <1>1, <1>2, PlainReturnOK
  <1>3. CASE /\ Step(h, "zonePut")
             /\ \A z \in Zones : zones[z] # NoZone => zones[z].name # job[h].row.name
    <2>1. "zonePut" \in Labels
      BY DEF Labels
    <2>2. PICK j \in JobRecord :
             /\ job' = [job EXCEPT ![h] = j] /\ j.pc = "zonePut" /\ j.zone = job[h].zone
             /\ j.rec = job[h].rec /\ j.row = job[h].row /\ j.listed = job[h].listed
      BY <1>3, <2>1, StepFields
    <2>3. job'[h] = j /\ Others(h)
      BY <2>2, JobUpdate
    <2>4. HandlerOK(h) /\ job[h].listed = {}
      BY <1>1, ListedByCascade DEF IInv
    <2>5. Shape(h)'
      <3>1. minted' = minted
        BY <1>1 DEF NoCall
      <3> QED BY <1>1, <2>2, <2>3, <2>4, <3>1 DEF HandlerOK, Shape, OnZone, OnRecord, WithRow, Labels
    <2>6. ZoneIsNew(h)'
      BY <1>1, <2>2, <2>3, <2>4 DEF HandlerOK, ZoneIsNew, NewZone, Others
    <2>7. HandlerOK(h)'
      BY <2>2, <2>3, <2>4, <2>5, <2>6 DEF HandlerOK, RecordIsNew, NewRecord, RecordsStay,
                                          RevisionTells
    <2>8. Enters(h)
      BY <1>1, <2>2, <2>3 DEF Enters, InZone, InRecord, OnRecord
    <2>9. \A y : /\ h \notin Bumping(y) /\ h \notin Counting(y)
                 /\ h \notin Bumping(y)' /\ h \notin Counting(y)' /\ ~Creating(h, y)'
      BY <1>1, <2>2, <2>3 DEF Bumping, Counting, Creating
    <2> QED BY <1>1, <1>3, <2>2, <2>7, <2>8, <2>9, NoCallFields, QuietStep
  <1> QED BY <1>2, <1>3 DEF ZoneScan

(* The listing of a DeleteZone is complete when it is made. *)
LEMMA CascadeListOK ==
    ASSUME IInv, NEW h \in Handlers, CascadeList(h)
    PROVE  IInv'
  <1>1. /\ job[h].pc = "cascadeList" /\ UNCHANGED <<zones, records, rev, deleted>> /\ NoCall
        /\ job[h] \in JobRecord
    BY DEF CascadeList, IInv, TypeOK, JobRecord
  <1> DEFINE L == {r \in Records : records[r] = job[h].zone}
             j == [job[h] EXCEPT !.pc = "cascade", !.listed = L]
  <1>2. j \in JobRecord /\ j.pc = "cascade" /\ j.zone = job[h].zone /\ j.listed = L
    BY <1>1 DEF JobRecord, Labels
  <1>3. job' = [job EXCEPT ![h] = j]
    BY DEF CascadeList
  <1> HIDE DEF j
  <1>4. job'[h] = j
    BY <1>2, <1>3, JobUpdate
  <1>5. HandlerOK(h) /\ StoreOK /\ minted' = minted
    BY <1>1, NoCallFields DEF IInv
  <1>6. job[h].zone \in Zones /\ job[h].zone \in minted /\ job[h].zone # NoZone
    BY <1>1, <1>5, StoreAssumption DEF HandlerOK, Shape, OnZone, Labels
  <1>7. HandlerOK(h)'
    <2>1. L \subseteq minted
      BY <1>5, <1>6 DEF StoreOK
    <2>2. Shape(h)'
      BY <1>2, <1>4, <1>5, <1>6, <2>1 DEF Shape, OnRecord, WithRow
    <2> QED BY <1>1, <1>2, <1>4, <2>2 DEF HandlerOK, ZoneIsNew, NewZone, RecordIsNew, NewRecord,
                                          RecordsStay, RevisionTells
  <1>8. Enters(h)
    BY <1>2, <1>4, <1>6 DEF Enters, InZone, InRecord, OnRecord
  <1>9. \A y : /\ h \notin Bumping(y) /\ h \notin Counting(y)
               /\ h \notin Bumping(y)' /\ h \notin Counting(y)' /\ ~Creating(h, y)'
    BY <1>1, <1>2, <1>4 DEF Bumping, Counting, Creating
  <1>10. \A z : j.zone = z => recordsOf(z) \subseteq j.listed
    BY <1>2 DEF recordsOf
  <1> QED BY <1>1, <1>2, <1>3, <1>7, <1>8, <1>9, <1>10, NoCallFields, QuietStep

LEMMA CascadeRefusedOK ==
    ASSUME IInv, NEW h \in Handlers, CascadeRefused(h)
    PROVE  IInv'
  BY PlainReturnOK DEF CascadeRefused

LEMMA RecordGoneOK ==
    ASSUME IInv, NEW h \in Handlers, RecordGone(h)
    PROVE  IInv'
  BY PlainReturnOK DEF RecordGone

LEMMA RecordZoneOK ==
    ASSUME IInv, NEW h \in Handlers, RecordZone(h)
    PROVE  IInv'
  <1>1. /\ job[h].pc = "recordZone" /\ UNCHANGED <<zones, records, rev, deleted>> /\ NoCall
        /\ job[h] \in JobRecord
    BY DEF RecordZone, IInv, TypeOK, JobRecord
  <1>2. HandlerOK(h) /\ minted' = minted /\ job[h].listed = {}
    BY <1>1, NoCallFields, ListedByCascade DEF IInv
  <1>3. job[h].zone \in Zones /\ job[h].zone \in minted
    BY <1>1, <1>2 DEF HandlerOK, Shape, OnZone, Labels
  <1>4. CASE zones[job[h].zone] = NoZone
    BY <1>1, <1>4, PlainReturnOK DEF RecordZone
  <1>5. CASE zones[job[h].zone] # NoZone
    <2> DEFINE j == [job[h] EXCEPT !.pc = "recordPut", !.row = zones[job[h].zone]]
    <2>1. zones[job[h].zone] \in ZoneRow
      BY <1>3, <1>5 DEF IInv, TypeOK
    <2>2. /\ j \in JobRecord /\ j.pc = "recordPut" /\ j.zone = job[h].zone /\ j.rec = job[h].rec
          /\ j.row = zones[job[h].zone] /\ j.listed = job[h].listed
      BY <1>1, <2>1 DEF JobRecord, Labels
    <2>3. job' = [job EXCEPT ![h] = j]
      BY <1>5 DEF RecordZone
    <2> HIDE DEF j
    <2>4. job'[h] = j /\ Others(h)
      BY <2>2, <2>3, JobUpdate
    <2>5. Shape(h)'
      BY <1>1, <1>2, <1>3, <2>1, <2>2, <2>4 DEF HandlerOK, Shape, OnRecord
    <2>6. RecordIsNew(h)'
      BY <1>1, <1>2, <2>2, <2>4 DEF HandlerOK, RecordIsNew, NewRecord, Others
    <2>7. HandlerOK(h)'
      BY <1>2, <2>2, <2>4, <2>5, <2>6 DEF HandlerOK, ZoneIsNew, NewZone, RecordsStay, RevisionTells
    <2>8. Enters(h)
      BY <1>1, <1>5, <2>2, <2>4 DEF Enters, InRecord, OnRecord
    <2>9. \A y : /\ h \notin Bumping(y) /\ h \notin Counting(y)
                 /\ h \notin Bumping(y)' /\ h \notin Counting(y)'
      BY <1>1, <2>2, <2>4 DEF Bumping, Counting
    <2>10. \A y : Creating(h, y)' => zones[y] # NoZone /\ zones[y] = j.row
      BY <1>5, <2>2, <2>4 DEF Creating
    <2> QED BY <1>1, <2>2, <2>3, <2>7, <2>8, <2>9, <2>10, NoCallFields, QuietStep
  <1> QED BY <1>4, <1>5

LEMMA RecordGetOK ==
    ASSUME IInv, NEW h \in Handlers, RecordGet(h)
    PROVE  IInv'
  <1>1. /\ job[h].pc = "recordGet" /\ UNCHANGED <<zones, records, rev, deleted>> /\ NoCall
        /\ job[h] \in JobRecord
    BY DEF RecordGet, IInv, TypeOK, JobRecord
  <1>2. HandlerOK(h) /\ StoreOK /\ minted' = minted /\ job[h].listed = {}
    BY <1>1, NoCallFields, ListedByCascade DEF IInv
  <1>3. job[h].rec \in Records /\ job[h].rec \in minted
    BY <1>1, <1>2 DEF HandlerOK, Shape, OnRecord
  <1>4. CASE records[job[h].rec] = NoZone
    BY <1>1, <1>4, PlainReturnOK DEF RecordGet
  <1>5. CASE records[job[h].rec] # NoZone
    <2> DEFINE j == [job[h] EXCEPT !.pc = "recordDelete", !.zone = records[job[h].rec]]
    <2>1. records[job[h].rec] \in Zones /\ records[job[h].rec] \in minted
      BY <1>2, <1>3, <1>5 DEF IInv, TypeOK, StoreOK
    <2>2. /\ j \in JobRecord /\ j.pc = "recordDelete" /\ j.zone = records[job[h].rec]
          /\ j.rec = job[h].rec /\ j.listed = job[h].listed
      BY <1>1, <2>1 DEF JobRecord, Labels
    <2>3. job' = [job EXCEPT ![h] = j]
      BY <1>5 DEF RecordGet
    <2> HIDE DEF j
    <2>4. job'[h] = j
      BY <2>2, <2>3, JobUpdate
    <2>5. Shape(h)'
      BY <1>2, <1>3, <2>1, <2>2, <2>4 DEF Shape, WithRow
    <2>6. HandlerOK(h)'
      BY <1>1, <1>2, <2>2, <2>4, <2>5 DEF HandlerOK, ZoneIsNew, NewZone, RecordIsNew, NewRecord,
                                          RecordsStay, RevisionTells
    <2>7. Enters(h)
      BY <1>2, <1>3, <1>5, <2>2, <2>4 DEF Enters
    <2>8. \A y : /\ h \notin Bumping(y) /\ h \notin Counting(y)
                 /\ h \notin Bumping(y)' /\ h \notin Counting(y)' /\ ~Creating(h, y)'
      BY <1>1, <2>2, <2>4 DEF Bumping, Counting, Creating
    <2> QED BY <1>1, <2>2, <2>3, <2>6, <2>7, <2>8, NoCallFields, QuietStep
  <1> QED BY <1>4, <1>5

(* A call that owes a zone's count returns: the zone is gone or raced. *)
LEMMA CountReturnOK ==
    ASSUME IInv, NEW h \in Handlers, job[h].pc \in {"countGet", "countCas"},
           Return(h), UNCHANGED <<zones, records, rev, deleted>>, NoCall,
           zones[job[h].zone] = NoZone \/ job[h].zone \in raced'
    PROVE  IInv'
  <1>1. ASSUME NEW z \in Zones \ raced', zones[z] # NoZone
        PROVE  h \notin Bumping(z) /\ h \notin Counting(z)
    BY <1>1 DEF Bumping, Counting
  <1> QED BY <1>1, NoCallFields, ReturnQuietly

(* A record that is gone and not yet counted off is in the count. *)
LEMMA CountIsOwed ==
    ASSUME IInv, NEW h \in Handlers, job[h].pc \in {"countGet", "countCas"},
           job[h].zone \notin raced, zones[job[h].zone] # NoZone
    PROVE  zones[job[h].zone].records # 0
  <1>1. PICK z : z = job[h].zone
    OBVIOUS
  <1>2. z \in Zones
    BY <1>1 DEF IInv, HandlerOK, Shape, OnZone, Labels
  <1>3. Sound(z) /\ zones[z] # NoZone /\ h \in Counting(z) /\ Writing(h, z)
    BY <1>1, <1>2 DEF IInv, Counting, Writing
  <1>4. Bumping(z) = {}
    BY <1>1, <1>3 DEF Sound, Meeting, Creating, Bumping
  <1>5. Cardinality(Bumping(z)) = 0
    BY <1>4, FS_EmptySet
  <1>6. Cardinality(Counting(z)) # 0 /\ Cardinality(Counting(z)) \in Nat /\ Cardinality(recordsOf(z)) \in Nat
    BY <1>3, OwedFinite, FS_EmptySet
  <1>7. zones[z].records \in Nat
    BY <1>2, <1>3 DEF IInv, TypeOK, ZoneRow
  <1> QED BY <1>1, <1>3, <1>5, <1>6, <1>7 DEF Sound

LEMMA CountGetOK ==
    ASSUME IInv, NEW h \in Handlers, CountGet(h)
    PROVE  IInv'
  <1>1. /\ job[h].pc = "countGet" /\ UNCHANGED <<zones, records, rev, deleted>> /\ NoCall
        /\ job[h] \in JobRecord
    BY DEF CountGet, IInv, TypeOK, JobRecord
  <1>2. HandlerOK(h) /\ minted' = minted /\ job[h].listed = {} /\ raced \subseteq raced'
    BY <1>1, NoCallFields, ListedByCascade, Watched DEF IInv
  <1>3. job[h].zone \in Zones /\ job[h].zone \in minted
    BY <1>1, <1>2 DEF HandlerOK, Shape, OnZone, Labels
  <1>4. CASE zones[job[h].zone] = NoZone
    BY <1>1, <1>4, CountReturnOK DEF CountGet
  <1>5. CASE zones[job[h].zone] # NoZone /\ zones[job[h].zone].records = 0
    <2>1. job[h].zone \in raced'
      BY <1>1, <1>2, <1>5, CountIsOwed
    <2> QED BY <1>1, <1>5, <2>1, CountReturnOK DEF CountGet
  <1>6. CASE zones[job[h].zone] # NoZone /\ zones[job[h].zone].records # 0
    <2> DEFINE j == [job[h] EXCEPT !.pc = "countCas", !.row = zones[job[h].zone]]
    <2>1. zones[job[h].zone] \in ZoneRow /\ zones[job[h].zone].rev <= rev
      BY <1>3, <1>6 DEF IInv, TypeOK, StoreOK
    <2>2. /\ j \in JobRecord /\ j.pc = "countCas" /\ j.zone = job[h].zone /\ j.rec = job[h].rec
          /\ j.row = zones[job[h].zone] /\ j.listed = job[h].listed
      BY <1>1, <2>1 DEF JobRecord, Labels
    <2>3. job' = [job EXCEPT ![h] = j]
      BY <1>6 DEF CountGet
    <2> HIDE DEF j
    <2>4. job'[h] = j
      BY <2>2, <2>3, JobUpdate
    <2>5. Shape(h)'
      BY <1>1, <1>2, <1>3, <1>6, <2>1, <2>2, <2>4 DEF HandlerOK, Shape, OnRecord
    <2>6. RevisionTells(h)'
      BY <1>1, <2>1, <2>2, <2>4 DEF RevisionTells
    <2>7. HandlerOK(h)'
      BY <1>2, <2>2, <2>4, <2>5, <2>6 DEF HandlerOK, ZoneIsNew, NewZone, RecordIsNew, NewRecord,
                                          RecordsStay
    <2>8. Enters(h)
      BY <1>1, <2>2, <2>4 DEF Enters, InZone, InRecord, OnRecord
    <2>9. \A y : /\ h \in Bumping(y)' <=> h \in Bumping(y)
                 /\ h \in Counting(y)' <=> h \in Counting(y)
                 /\ ~Creating(h, y)'
      BY <1>1, <2>2, <2>4 DEF Bumping, Counting, Creating
    <2> QED BY <1>1, <2>2, <2>3, <2>7, <2>8, <2>9, NoCallFields, QuietStep
  <1> QED BY <1>4, <1>5, <1>6

(* The zone was overtaken: another attempt, or none left. *)
LEMMA CountMissOK ==
    ASSUME IInv, NEW h \in Handlers, CountCas(h), ~ZoneUnmoved(h)
    PROVE  IInv'
  <1>1. /\ job[h].pc = "countCas" /\ UNCHANGED <<zones, records, rev, deleted>> /\ NoCall
        /\ job[h] \in JobRecord
    BY DEF CountCas, IInv, TypeOK, JobRecord
  <1>2. HandlerOK(h) /\ minted' = minted /\ job[h].listed = {}
    BY <1>1, NoCallFields, ListedByCascade DEF IInv
  <1>3. CASE job[h].attempt + 1 < maxAttempts
    <2> DEFINE j == [job[h] EXCEPT !.pc = "countGet", !.attempt = job[h].attempt + 1]
    <2>1. job[h].attempt + 1 \in 0..maxAttempts
      BY <1>1, <1>3, StoreAssumption DEF JobRecord
    <2>2. /\ j \in JobRecord /\ j.pc = "countGet" /\ j.zone = job[h].zone /\ j.rec = job[h].rec
          /\ j.listed = job[h].listed
      BY <1>1, <2>1 DEF JobRecord, Labels
    <2>3. job' = [job EXCEPT ![h] = j]
      BY <1>3 DEF CountCas
    <2> HIDE DEF j
    <2>4. job'[h] = j
      BY <2>2, <2>3, JobUpdate
    <2>5. Shape(h)'
      BY <1>1, <1>2, <2>2, <2>4 DEF HandlerOK, Shape, OnZone, OnRecord, WithRow, Labels
    <2>6. HandlerOK(h)'
      BY <1>2, <2>2, <2>4, <2>5 DEF HandlerOK, ZoneIsNew, NewZone, RecordIsNew, NewRecord,
                                    RecordsStay, RevisionTells
    <2>7. Enters(h)
      BY <1>1, <2>2, <2>4 DEF Enters, InZone, InRecord, OnRecord
    <2>8. \A y : /\ h \in Bumping(y)' <=> h \in Bumping(y)
                 /\ h \in Counting(y)' <=> h \in Counting(y)
                 /\ ~Creating(h, y)'
      BY <1>1, <2>2, <2>4 DEF Bumping, Counting, Creating
    <2> QED BY <1>1, <2>2, <2>3, <2>6, <2>7, <2>8, NoCallFields, QuietStep
  <1>4. CASE ~(job[h].attempt + 1 < maxAttempts)
    <2>1. Return(h)
      BY <1>4 DEF CountCas
    <2>2. job'[h].pc = "idle" /\ job[h].zone \in Zones
      BY <1>1, <1>2, <2>1, IdleOK, IdleFields DEF HandlerOK, Shape, OnZone, Labels
    <2>3. zones[job[h].zone] # NoZone => GivenUp(job[h].zone)
      BY <1>1, <2>2 DEF GivenUp
    <2>4. zones[job[h].zone] # NoZone => job[h].zone \in raced'
      BY <1>1, <2>2, <2>3, NoCallFields, Watched
    <2> QED BY <1>1, <2>1, <2>4, CountReturnOK
  <1> QED BY <1>3, <1>4
-----------------------------------------------------------------------------
(* Steps that write *)

(* A zone the handler is not about. *)
LEMMA Elsewhere ==
    ASSUME NEW h \in Handlers, NEW z \in Zones, job[h].zone # z, job'[h].zone # z,
           zones'[z] = zones[z], \A r \in Records : records'[r] = z <=> records[r] = z,
           z \in deleted' => z \in deleted
    PROVE  SameZone(h, z)
  <1>1. recordsOf(z)' = recordsOf(z)
    BY DEF recordsOf
  <1> QED BY <1>1 DEF SameZone, Bumping, Counting, Creating

(* A step of one handler that writes the store. *)
LEMMA LoudStep ==
    ASSUME IInv, NEW h \in Handlers, NEW j \in JobRecord, job' = [job EXCEPT ![h] = j], Watch,
           zones' \in [Zones -> ZoneRow \union {NoZone}],
           records' \in [Records -> Zones \union {NoZone}],
           rev' = rev + 1, minted' = minted, deleted' \subseteq Zones \intersect minted,
           calls' \in 0..MaxCalls, failures' \in 0..MaxFailures,
           \A z \in Zones : zones'[z] # NoZone => z \in minted /\ zones'[z].rev <= rev + 1,
           \A r \in Records : records'[r] # NoZone => r \in minted /\ records'[r] \in minted,
           KeepsStore(h), Enters(h), HandlerOK(h)',
           \A z \in Zones \ raced' : Sound(z)' \/ SameZone(h, z),
           NamesOK'
    PROVE  IInv'
  <1>1. job' \in [Handlers -> JobRecord] /\ Others(h)
    BY JobUpdate
  <1>2. TypeOK'
    BY <1>1, Watched DEF IInv, TypeOK, JobRecord
  <1>3. StoreOK'
    BY <1>1, BusyFinite DEF StoreOK
  <1>4. \A g \in Handlers : HandlerOK(g)'
    BY <1>1, OtherHandlerOK
  <1>5. ASSUME NEW z \in Zones \ raced' PROVE Sound(z)'
    <2>1. z \notin raced /\ ~Meeting(z)'
      BY Watched
    <2> QED BY <1>1, <2>1, SoundKept
  <1> QED BY <1>2, <1>3, <1>4, <1>5 DEF IInv

(* Writing one zone. *)
LEMMA PutZoneStore ==
    ASSUME IInv, NEW h \in Handlers, NEW z \in Zones \intersect minted, NEW n \in Names,
           NEW count \in Nat, PutZone(z, n, count), UNCHANGED <<records, deleted, minted>>,
           job[h].zone = z, job[h].pc \in InZone
    PROVE  /\ zones' \in [Zones -> ZoneRow \union {NoZone}]
           /\ records' \in [Records -> Zones \union {NoZone}]
           /\ rev' = rev + 1 /\ deleted' \subseteq Zones \intersect minted
           /\ \A y \in Zones : zones'[y] # NoZone => y \in minted /\ zones'[y].rev <= rev + 1
           /\ \A r \in Records : records'[r] # NoZone => r \in minted /\ records'[r] \in minted
           /\ KeepsStore(h)
           /\ \A y \in Zones \ {z} : zones'[y] = zones[y]
           /\ zones'[z] # NoZone /\ zones'[z].name = n /\ zones'[z].records = count
           /\ rev < zones'[z].rev
  <1> DEFINE row == [name |-> n, records |-> count, rev |-> rev + 1]
  <1>1. rev \in Nat /\ TypeOK /\ StoreOK
    BY DEF IInv, TypeOK
  <1>2. row \in ZoneRow /\ row.name = n /\ row.records = count /\ row.rev = rev + 1
    BY <1>1 DEF ZoneRow
  <1>3. zones' = [zones EXCEPT ![z] = row] /\ rev' = rev + 1
    BY DEF PutZone
  <1> HIDE DEF row
  <1>4. zones' \in [Zones -> ZoneRow \union {NoZone}] /\ zones'[z] = row
        /\ \A y \in Zones \ {z} : zones'[y] = zones[y]
    BY <1>1, <1>2, <1>3 DEF TypeOK
  <1>5. row # NoZone
    BY <1>2, ZoneRowAssumption
  <1>6. ASSUME NEW y \in Zones, zones'[y] # NoZone PROVE y \in minted /\ zones'[y].rev <= rev + 1
    <2>1. CASE y = z
      BY <1>1, <1>2, <1>4, <2>1
    <2>2. CASE y # z
      <3>1. zones[y] \in ZoneRow /\ y \in minted /\ zones[y].rev <= rev /\ zones'[y] = zones[y]
        BY <1>1, <1>4, <1>6, <2>2 DEF TypeOK, StoreOK
      <3>2. zones[y].rev \in Nat
        BY <3>1 DEF ZoneRow
      <3> QED BY <1>1, <3>1, <3>2
    <2> QED BY <2>1, <2>2
  <1>7. rev < zones'[z].rev /\ rev' \in Nat /\ rev <= rev'
    BY <1>1, <1>2, <1>3, <1>4
  <1>8. KeepsStore(h)
    BY <1>4, <1>7 DEF KeepsStore
  <1> QED BY <1>1, <1>2, <1>3, <1>4, <1>5, <1>6, <1>7, <1>8 DEF TypeOK, StoreOK

(* Writing one record. *)
LEMMA PutRecordStore ==
    ASSUME IInv, NEW h \in Handlers, NEW r \in Records \intersect minted,
           NEW z \in (Zones \intersect minted) \union {NoZone},
           records' = [records EXCEPT ![r] = z], rev' = rev + 1,
           UNCHANGED <<zones, deleted, minted>>,
           z = NoZone \/ (job[h].rec = r /\ job[h].pc = "recordPut" /\ job[h].zone = z)
    PROVE  /\ zones' \in [Zones -> ZoneRow \union {NoZone}]
           /\ records' \in [Records -> Zones \union {NoZone}]
           /\ deleted' \subseteq Zones \intersect minted
           /\ \A y \in Zones : zones'[y] # NoZone => y \in minted /\ zones'[y].rev <= rev + 1
           /\ \A s \in Records : records'[s] # NoZone => s \in minted /\ records'[s] \in minted
           /\ KeepsStore(h)
           /\ records'[r] = z /\ \A s \in Records \ {r} : records'[s] = records[s]
  <1>1. rev \in Nat /\ TypeOK /\ StoreOK
    BY DEF IInv, TypeOK
  <1>2. /\ records' \in [Records -> Zones \union {NoZone}]
        /\ records'[r] = z /\ \A s \in Records \ {r} : records'[s] = records[s]
    BY <1>1 DEF TypeOK
  <1>3. ASSUME NEW y \in Zones, zones'[y] # NoZone PROVE y \in minted /\ zones'[y].rev <= rev + 1
    <2>1. zones[y] \in ZoneRow /\ y \in minted /\ zones[y].rev <= rev /\ zones'[y] = zones[y]
      BY <1>1, <1>3 DEF TypeOK, StoreOK
    <2>2. zones[y].rev \in Nat
      BY <2>1 DEF ZoneRow
    <2> QED BY <1>1, <2>1, <2>2
  <1>4. KeepsStore(h)
    <2>1. rev' \in Nat /\ rev <= rev'
      BY <1>1
    <2> QED BY <1>2, <2>1 DEF KeepsStore
  <1> QED BY <1>1, <1>2, <1>3, <1>4 DEF TypeOK, StoreOK

LEMMA ZonePutOK ==
    ASSUME IInv, NEW h \in Handlers, ZonePut(h)
    PROVE  IInv'
  <1>1. PICK z : z = job[h].zone
    OBVIOUS
  <1>2. PICK n : n = job[h].row.name
    OBVIOUS
  <1>3. /\ job[h].pc = "zonePut" /\ zones[z] = NoZone /\ PutZone(z, n, 0)
        /\ Return(h) /\ UNCHANGED <<records, deleted>> /\ NoCall
    BY <1>1, <1>2 DEF ZonePut
  <1>4. z \in Zones \intersect minted /\ n \in Names
    BY <1>1, <1>2, <1>3 DEF IInv, HandlerOK, Shape, OnZone, WithRow, Labels, ZoneRow
  <1>5. /\ z \notin deleted /\ \A r \in Records : records[r] # z
        /\ \A g \in Handlers \ {h} : job[g].zone = z => job[g].pc \notin InZone
    BY <1>1, <1>3 DEF IInv, HandlerOK, ZoneIsNew, NewZone
  <1>6. /\ Watch /\ minted' = minted /\ calls' \in 0..MaxCalls /\ failures' \in 0..MaxFailures
    BY <1>3, NoCallFields
  <1>7. /\ job' = [job EXCEPT ![h] = Idle] /\ job'[h] = Idle /\ Others(h)
        /\ HandlerOK(h)' /\ Enters(h) /\ Idle \in JobRecord /\ Idle.zone = NoZone /\ Idle.pc = "idle"
    BY <1>3, IdleOK, IdleFields
  <1>8. /\ zones' \in [Zones -> ZoneRow \union {NoZone}]
        /\ records' \in [Records -> Zones \union {NoZone}]
        /\ rev' = rev + 1 /\ deleted' \subseteq Zones \intersect minted
        /\ \A y \in Zones : zones'[y] # NoZone => y \in minted /\ zones'[y].rev <= rev + 1
        /\ \A r \in Records : records'[r] # NoZone => r \in minted /\ records'[r] \in minted
        /\ KeepsStore(h)
        /\ \A y \in Zones \ {z} : zones'[y] = zones[y]
        /\ zones'[z] # NoZone /\ zones'[z].name = n /\ zones'[z].records = 0
    BY <1>1, <1>3, <1>4, <1>6, PutZoneStore DEF InZone
  <1>9. ASSUME NEW y \in Zones \ raced' PROVE Sound(y)' \/ SameZone(h, y)
    <2>1. CASE y # z
      <3>1. job'[h].zone # y
        BY <1>7, StoreAssumption
      <3> QED BY <1>1, <1>3, <1>8, <2>1, <3>1, Elsewhere
    <2>2. CASE y = z
      <3>1. ~Meeting(z)'
        BY <1>6, <2>2, Watched
      <3>2. \A g \in Handlers : job'[g].zone = z => job'[g].pc \notin InZone
        BY <1>4, <1>5, <1>7, StoreAssumption DEF Others
      <3>3. recordsOf(z)' = {} /\ Bumping(z)' = {} /\ Counting(z)' = {}
        BY <1>3, <1>5, <3>2 DEF recordsOf, Bumping, Counting, InZone
      <3>4. Cardinality({}) = 0
        BY FS_EmptySet
      <3>5. \A g \in Handlers : ~Creating(g, z)'
        BY <3>2 DEF Creating, InZone
      <3>6. Sound(z)'
        BY <1>3, <1>5, <1>8, <3>1, <3>3, <3>4, <3>5 DEF Sound
      <3> QED BY <2>2, <3>6
    <2> QED BY <2>1, <2>2
  <1>10. NamesOK'
    <2> SUFFICES ASSUME raced' = {}, contested' = {}
                 PROVE  /\ \A x, y \in Zones : (/\ zones'[x] # NoZone /\ zones'[y] # NoZone
                                                /\ zones'[x].name = zones'[y].name) => x = y
                        /\ \A g \in Handlers, y \in Zones :
                             (job'[g].pc = "zonePut" /\ zones'[y] # NoZone)
                                => zones'[y].name # job'[g].row.name
                        /\ \A m \in Names : ~Twins(m)'
      BY DEF NamesOK
    <2>1. raced = {} /\ contested = {} /\ \A m \in Names : ~Twins(m)'
      BY <1>6, Watched
    <2>2. /\ \A x, y \in Zones :
               (zones[x] # NoZone /\ zones[y] # NoZone /\ zones[x].name = zones[y].name) => x = y
          /\ \A g \in Handlers, y \in Zones :
               (job[g].pc = "zonePut" /\ zones[y] # NoZone) => zones[y].name # job[g].row.name
          /\ ~Twins(n)
      BY <1>4, <2>1 DEF IInv, NamesOK
    <2>3. \A y \in Zones : zones[y] # NoZone => zones[y].name # n
      BY <1>2, <1>3, <2>2
    <2>4. \A g \in Handlers \ {h} : job[g].pc = "zonePut" => job[g].row.name # n
      BY <1>2, <1>3, <2>2 DEF Twins
    <2>5. \A x, y \in Zones : (/\ zones'[x] # NoZone /\ zones'[y] # NoZone
                               /\ zones'[x].name = zones'[y].name) => x = y
      BY <1>8, <2>2, <2>3
    <2>6. \A g \in Handlers, y \in Zones :
            (job'[g].pc = "zonePut" /\ zones'[y] # NoZone) => zones'[y].name # job'[g].row.name
      BY <1>7, <1>8, <2>2, <2>4 DEF Others
    <2> QED BY <2>1, <2>5, <2>6
  <1> QED BY <1>6, <1>7, <1>8, <1>9, <1>10, LoudStep

LEMMA CascadeOK ==
    ASSUME IInv, NEW h \in Handlers, Cascade(h)
    PROVE  IInv'
  <1>1. PICK z : z = job[h].zone
    OBVIOUS
  <1>2. PICK L : L = job[h].listed
    OBVIOUS
  <1>3. /\ job[h].pc = "cascade" /\ zones[z] # NoZone
        /\ zones' = [zones EXCEPT ![z] = NoZone]
        /\ records' = [r \in Records |-> IF r \in L THEN NoZone ELSE records[r]]
        /\ rev' = rev + 1 /\ deleted' = deleted \union {z} /\ Return(h) /\ NoCall
    BY <1>1, <1>2 DEF Cascade
  <1>4. z \in Zones /\ z \in minted /\ z # NoZone
    BY <1>1, <1>3, StoreAssumption DEF IInv, HandlerOK, Shape, OnZone, Labels
  <1>5. \A r \in L : r \in Records /\ records[r] \in {NoZone, z}
    BY <1>1, <1>2 DEF IInv, HandlerOK, RecordsStay, TypeOK
  <1>6. /\ Watch /\ minted' = minted /\ calls' \in 0..MaxCalls /\ failures' \in 0..MaxFailures
    BY <1>3, NoCallFields
  <1>7. /\ job' = [job EXCEPT ![h] = Idle] /\ job'[h] = Idle /\ Others(h)
        /\ HandlerOK(h)' /\ Enters(h) /\ Idle \in JobRecord /\ Idle.zone = NoZone /\ Idle.pc = "idle"
    BY <1>3, IdleOK, IdleFields
  <1>8. rev \in Nat /\ TypeOK /\ StoreOK
    BY DEF IInv, TypeOK
  <1>9. /\ zones' \in [Zones -> ZoneRow \union {NoZone}]
        /\ zones'[z] = NoZone /\ \A y \in Zones \ {z} : zones'[y] = zones[y]
    BY <1>3, <1>4, <1>8 DEF TypeOK
  <1>10. /\ records' \in [Records -> Zones \union {NoZone}]
         /\ \A r \in Records : records'[r] = IF r \in L THEN NoZone ELSE records[r]
    BY <1>3, <1>8 DEF TypeOK
  <1>11. deleted' \subseteq Zones \intersect minted
    BY <1>3, <1>4, <1>8 DEF TypeOK, StoreOK
  <1>12. ASSUME NEW y \in Zones, zones'[y] # NoZone PROVE y \in minted /\ zones'[y].rev <= rev + 1
    <2>1. zones[y] \in ZoneRow /\ y \in minted /\ zones[y].rev <= rev /\ zones'[y] = zones[y]
      BY <1>8, <1>9, <1>12 DEF TypeOK, StoreOK
    <2>2. zones[y].rev \in Nat
      BY <2>1 DEF ZoneRow
    <2> QED BY <1>8, <2>1, <2>2
  <1>13. \A r \in Records : records'[r] # NoZone => r \in minted /\ records'[r] \in minted
    BY <1>8, <1>10 DEF StoreOK
  <1>14. KeepsStore(h)
    <2>1. rev' \in Nat /\ rev <= rev' /\ deleted \subseteq deleted' /\ minted \subseteq minted'
      BY <1>3, <1>6, <1>8
    <2>2. \A y \in Zones : (zones'[y] # zones[y] \/ (y \in deleted' /\ y \notin deleted))
                             => zones[y] # NoZone
      BY <1>3, <1>9
    <2>3. \A y \in Zones : zones'[y] = zones[y] \/ zones'[y] = NoZone
      BY <1>9
    <2>4. \A r \in Records : records'[r] = records[r] \/ records'[r] = NoZone
      BY <1>10
    <2> QED BY <2>1, <2>2, <2>3, <2>4 DEF KeepsStore
  <1>15. ASSUME NEW y \in Zones \ raced' PROVE Sound(y)' \/ SameZone(h, y)
    <2>1. CASE y # z
      <3>1. job'[h].zone # y /\ y # NoZone
        BY <1>7, StoreAssumption
      <3>2. \A r \in Records : records'[r] = y <=> records[r] = y
        BY <1>5, <1>10, <2>1, <3>1
      <3> QED BY <1>1, <1>3, <1>9, <2>1, <3>1, <3>2, Elsewhere
    <2>2. CASE y = z
      <3>1. ~Meeting(z)' /\ z \notin raced
        BY <1>6, <2>2, Watched
      <3>2. Sound(z)
        BY <1>4, <3>1 DEF IInv
      <3>3. recordsOf(z) \subseteq L
        BY <1>1, <1>2, <1>3, <3>2 DEF Sound
      <3>4. recordsOf(z)' = {}
        BY <1>4, <1>10, <3>3 DEF recordsOf
      <3>5. Writing(h, z)
        BY <1>1, <1>3 DEF Writing
      <3>6. \A g \in Handlers \ {h} : ~Creating(g, z)
        BY <3>2, <3>5 DEF Sound, Meeting
      <3>7. \A g \in Handlers : ~Creating(g, z)'
        BY <1>7, <3>6 DEF Creating, Others
      <3>8. Sound(z)'
        BY <1>9, <3>1, <3>4, <3>7 DEF Sound
      <3> QED BY <2>2, <3>8
    <2> QED BY <2>1, <2>2
  <1>16. NamesOK'
    BY <1>6, <1>7, <1>9, NamesKept
  <1> QED BY <1>3, <1>6, <1>7, <1>9, <1>10, <1>11, <1>12, <1>13, <1>14, <1>15, <1>16, LoudStep

(* The record of a CreateRecord is put, and its count is still owed. *)
LEMMA RecordPutOK ==
    ASSUME IInv, NEW h \in Handlers, RecordPut(h)
    PROVE  IInv'
  <1>1. PICK z : z = job[h].zone
    OBVIOUS
  <1>2. PICK r : r = job[h].rec
    OBVIOUS
  <1>3. /\ job[h].pc = "recordPut" /\ records[r] = NoZone
        /\ records' = [records EXCEPT ![r] = z] /\ rev' = rev + 1
        /\ UNCHANGED <<zones, deleted, minted, calls, failures>> /\ Step(h, "bump") /\ Watch
    BY <1>1, <1>2 DEF RecordPut, WriteRecord
  <1>4. z \in Zones \intersect minted /\ r \in Records \intersect minted /\ z # NoZone
    BY <1>1, <1>2, <1>3, StoreAssumption DEF IInv, HandlerOK, Shape, OnZone, OnRecord, Labels
  <1>5. PICK j \in JobRecord :
          /\ job' = [job EXCEPT ![h] = j] /\ j.pc = "bump" /\ j.zone = z /\ j.rec = r
          /\ j.row = job[h].row /\ j.listed = job[h].listed
    <2>1. "bump" \in Labels
      BY DEF Labels
    <2> QED BY <1>1, <1>2, <1>3, <2>1, StepFields
  <1>6. job'[h] = j /\ Others(h)
    BY <1>5, JobUpdate
  <1>7. HandlerOK(h) /\ job[h].listed = {} /\ calls' \in 0..MaxCalls /\ failures' \in 0..MaxFailures
    BY <1>3, ListedByCascade, Counters DEF IInv
  <1>8. HandlerOK(h)'
    <2>1. Shape(h)'
      BY <1>3, <1>4, <1>5, <1>6, <1>7 DEF HandlerOK, Shape, WithRow
    <2> QED BY <1>5, <1>6, <1>7, <2>1 DEF HandlerOK, ZoneIsNew, NewZone, RecordIsNew, NewRecord,
                                          RecordsStay, RevisionTells
  <1>9. Enters(h)
    BY <1>1, <1>2, <1>3, <1>5, <1>6 DEF Enters, InZone, InRecord, OnRecord
  <1>10. /\ zones' \in [Zones -> ZoneRow \union {NoZone}]
         /\ records' \in [Records -> Zones \union {NoZone}]
         /\ deleted' \subseteq Zones \intersect minted
         /\ \A y \in Zones : zones'[y] # NoZone => y \in minted /\ zones'[y].rev <= rev + 1
         /\ \A s \in Records : records'[s] # NoZone => s \in minted /\ records'[s] \in minted
         /\ KeepsStore(h)
         /\ records'[r] = z /\ \A s \in Records \ {r} : records'[s] = records[s]
    BY <1>1, <1>2, <1>3, <1>4, PutRecordStore
  <1>11. ASSUME NEW y \in Zones \ raced' PROVE Sound(y)' \/ SameZone(h, y)
    <2>1. CASE y # z
      <3>1. \A s \in Records : records'[s] = y <=> records[s] = y
        BY <1>3, <1>10, <2>1, StoreAssumption
      <3> QED BY <1>1, <1>3, <1>5, <1>6, <2>1, <3>1, Elsewhere
    <2>2. CASE y = z
      <3>1. ~Meeting(z)' /\ z \notin raced
        BY <1>3, <2>2, Watched
      <3>2. Sound(z)
        BY <1>4, <3>1 DEF IInv
      <3>3. Creating(h, z) /\ Creating(h, z)'
        BY <1>1, <1>3, <1>5, <1>6 DEF Creating
      <3>4. zones[z] # NoZone /\ zones[z] = job[h].row
        BY <3>2, <3>3 DEF Sound
      <3>5. \A g \in Handlers \ {h} : ~Writing(g, z) /\ ~Creating(g, z)
        BY <3>2, <3>3 DEF Sound, Meeting, Writing
      <3>6. \A g \in Handlers \ {h} : ~Creating(g, z)' /\ ~(job'[g].zone = z /\ job'[g].pc = "cascade")
        BY <1>6, <3>5 DEF Others, Creating, Writing
      <3>7. recordsOf(z)' = recordsOf(z) \union {r} /\ r \notin recordsOf(z)
        BY <1>3, <1>4, <1>10 DEF recordsOf
      <3>8. /\ Bumping(z)' = Bumping(z) \union {h} /\ h \notin Bumping(z)
            /\ Counting(z)' = Counting(z)
        BY <1>3, <1>5, <1>6 DEF Bumping, Counting, Others
      <3>9. /\ Cardinality(recordsOf(z)') = Cardinality(recordsOf(z)) + 1
            /\ Cardinality(Bumping(z)') = Cardinality(Bumping(z)) + 1
        BY <3>7, <3>8, OwedFinite, FS_AddElement
      <3>10. zones[z].records \in Nat
        BY <1>4, <3>4 DEF IInv, TypeOK, ZoneRow
      <3>11. zones[z].records + Cardinality(Bumping(z)')
              = Cardinality(recordsOf(z)') + Cardinality(Counting(z)')
        BY <3>2, <3>4, <3>8, <3>9, <3>10, OwedFinite DEF Sound
      <3>12. z \notin deleted'
        BY <1>3, <3>2, <3>4 DEF Sound
      <3>13. \A g \in Handlers : Creating(g, z)' => zones[z] = job'[g].row
        BY <1>5, <1>6, <3>4, <3>6
      <3>14. \A g \in Handlers : ~(job'[g].zone = z /\ job'[g].pc = "cascade")
        BY <1>5, <1>6, <3>6
      <3>15. Sound(z)'
        BY <1>3, <3>1, <3>4, <3>11, <3>12, <3>13, <3>14 DEF Sound
      <3> QED BY <2>2, <3>15
    <2> QED BY <2>1, <2>2
  <1>12. NamesOK'
    BY <1>3, <1>5, <1>6, NamesKept
  <1> QED BY <1>3, <1>5, <1>7, <1>8, <1>9, <1>10, <1>11, <1>12, LoudStep

(* The zone is put as it was read, one record up: nothing raced, so it is  *)
(* still as it was read.                                                   *)
LEMMA BumpOK ==
    ASSUME IInv, NEW h \in Handlers, Bump(h)
    PROVE  IInv'
  <1>1. PICK z : z = job[h].zone
    OBVIOUS
  <1>2. PICK row : row = job[h].row
    OBVIOUS
  <1>3. /\ job[h].pc = "bump" /\ PutZone(z, row.name, row.records + 1)
        /\ Return(h) /\ UNCHANGED <<records, deleted>> /\ NoCall
    BY <1>1, <1>2 DEF Bump
  <1>4. z \in Zones \intersect minted /\ row.name \in Names /\ row.records \in Nat
    BY <1>1, <1>2, <1>3 DEF IInv, HandlerOK, Shape, OnZone, WithRow, Labels, ZoneRow
  <1>5. row.records + 1 \in Nat
    BY <1>4
  <1>6. /\ Watch /\ minted' = minted /\ calls' \in 0..MaxCalls /\ failures' \in 0..MaxFailures
    BY <1>3, NoCallFields
  <1>7. /\ job' = [job EXCEPT ![h] = Idle] /\ job'[h] = Idle /\ Others(h)
        /\ HandlerOK(h)' /\ Enters(h) /\ Idle \in JobRecord /\ Idle.zone = NoZone /\ Idle.pc = "idle"
    BY <1>3, IdleOK, IdleFields
  <1>8. /\ zones' \in [Zones -> ZoneRow \union {NoZone}]
        /\ records' \in [Records -> Zones \union {NoZone}]
        /\ rev' = rev + 1 /\ deleted' \subseteq Zones \intersect minted
        /\ \A y \in Zones : zones'[y] # NoZone => y \in minted /\ zones'[y].rev <= rev + 1
        /\ \A r \in Records : records'[r] # NoZone => r \in minted /\ records'[r] \in minted
        /\ KeepsStore(h)
        /\ \A y \in Zones \ {z} : zones'[y] = zones[y]
        /\ zones'[z] # NoZone /\ zones'[z].name = row.name /\ zones'[z].records = row.records + 1
    BY <1>1, <1>3, <1>4, <1>5, <1>6, PutZoneStore DEF InZone
  <1>9. ASSUME z \notin raced PROVE Sound(z) /\ zones[z] # NoZone /\ zones[z] = row
    <2>1. Sound(z)
      BY <1>4, <1>9 DEF IInv
    <2> QED BY <1>1, <1>2, <1>3, <2>1 DEF Sound, Creating
  <1>10. ASSUME NEW y \in Zones \ raced' PROVE Sound(y)' \/ SameZone(h, y)
    <2>1. CASE y # z
      <3>1. job'[h].zone # y
        BY <1>7, StoreAssumption
      <3> QED BY <1>1, <1>3, <1>8, <2>1, <3>1, Elsewhere
    <2>2. CASE y = z
      <3>1. ~Meeting(z)' /\ z \notin raced
        BY <1>6, <2>2, Watched
      <3>2. Sound(z) /\ zones[z] # NoZone /\ zones[z] = row
        BY <1>9, <3>1
      <3>3. Creating(h, z)
        BY <1>1, <1>3 DEF Creating
      <3>4. \A g \in Handlers \ {h} : ~Writing(g, z) /\ ~Creating(g, z)
        BY <3>2, <3>3 DEF Sound, Meeting, Writing
      <3>5. \A g \in Handlers : ~Creating(g, z)' /\ ~(job'[g].zone = z /\ job'[g].pc = "cascade")
        BY <1>7, <3>4 DEF Others, Creating, Writing
      <3>6. recordsOf(z)' = recordsOf(z)
        BY <1>3 DEF recordsOf
      <3>7. /\ Bumping(z)' = Bumping(z) \ {h} /\ h \in Bumping(z)
            /\ Counting(z)' = Counting(z)
        BY <1>1, <1>3, <1>7 DEF Bumping, Counting, Others
      <3>8. Cardinality(Bumping(z)') = Cardinality(Bumping(z)) - 1
        BY <3>7, OwedFinite, FS_RemoveElement
      <3>9. zones'[z].records + Cardinality(Bumping(z)')
              = Cardinality(recordsOf(z)') + Cardinality(Counting(z)')
        BY <1>4, <1>8, <3>2, <3>6, <3>7, <3>8, OwedFinite DEF Sound
      <3>10. z \notin deleted'
        BY <1>3, <3>2 DEF Sound
      <3>11. Sound(z)'
        BY <1>8, <3>1, <3>5, <3>9, <3>10 DEF Sound
      <3> QED BY <2>2, <3>11
    <2> QED BY <2>1, <2>2
  <1>11. NamesOK'
    <2>1. raced' = {} => z \notin raced
      BY <1>6, Watched
    <2>2. raced' = {} => \A y \in Zones : zones'[y] # NoZone =>
                           zones[y] # NoZone /\ zones'[y].name = zones[y].name
      BY <1>8, <1>9, <2>1
    <2>3. job'[h].pc # "zonePut"
      BY <1>7
    <2> QED BY <1>6, <1>7, <2>2, <2>3, NamesKept
  <1> QED BY <1>6, <1>7, <1>8, <1>10, <1>11, LoudStep

(* The record is gone and its count is still to be taken off. *)
LEMMA RecordDeleteOK ==
    ASSUME IInv, NEW h \in Handlers, RecordDelete(h)
    PROVE  IInv'
  <1>1. PICK z : z = job[h].zone
    OBVIOUS
  <1>2. PICK r : r = job[h].rec
    OBVIOUS
  <1>3. /\ job[h].pc = "recordDelete" /\ records[r] # NoZone
        /\ records' = [records EXCEPT ![r] = NoZone] /\ rev' = rev + 1
        /\ UNCHANGED <<zones, deleted, minted, calls, failures>> /\ Step(h, "countGet") /\ Watch
    BY <1>1, <1>2 DEF RecordDelete, EraseRecord
  <1>4. /\ z \in Zones \intersect minted /\ r \in Records \intersect minted /\ z # NoZone
        /\ records[r] = z
    BY <1>1, <1>2, <1>3, StoreAssumption
       DEF IInv, HandlerOK, Shape, RecordsStay, OnZone, OnRecord, Labels
  <1>5. PICK j \in JobRecord :
          /\ job' = [job EXCEPT ![h] = j] /\ j.pc = "countGet" /\ j.zone = z /\ j.rec = r
          /\ j.row = job[h].row /\ j.listed = job[h].listed
    <2>1. "countGet" \in Labels
      BY DEF Labels
    <2> QED BY <1>1, <1>2, <1>3, <2>1, StepFields
  <1>6. job'[h] = j /\ Others(h)
    BY <1>5, JobUpdate
  <1>7. HandlerOK(h) /\ job[h].listed = {} /\ calls' \in 0..MaxCalls /\ failures' \in 0..MaxFailures
    BY <1>3, ListedByCascade, Counters DEF IInv
  <1>8. HandlerOK(h)'
    <2>1. Shape(h)'
      BY <1>3, <1>4, <1>5, <1>6, <1>7 DEF HandlerOK, Shape, WithRow
    <2> QED BY <1>5, <1>6, <1>7, <2>1 DEF HandlerOK, ZoneIsNew, NewZone, RecordIsNew, NewRecord,
                                          RecordsStay, RevisionTells
  <1>9. Enters(h)
    BY <1>1, <1>2, <1>3, <1>5, <1>6 DEF Enters, InZone, InRecord, OnRecord
  <1>10. /\ zones' \in [Zones -> ZoneRow \union {NoZone}]
         /\ records' \in [Records -> Zones \union {NoZone}]
         /\ deleted' \subseteq Zones \intersect minted
         /\ \A y \in Zones : zones'[y] # NoZone => y \in minted /\ zones'[y].rev <= rev + 1
         /\ \A s \in Records : records'[s] # NoZone => s \in minted /\ records'[s] \in minted
         /\ KeepsStore(h)
         /\ records'[r] = NoZone /\ \A s \in Records \ {r} : records'[s] = records[s]
    BY <1>3, <1>4, PutRecordStore
  <1>11. ASSUME NEW y \in Zones \ raced' PROVE Sound(y)' \/ SameZone(h, y)
    <2>1. CASE y # z
      <3>1. \A s \in Records : records'[s] = y <=> records[s] = y
        BY <1>4, <1>10, <2>1, StoreAssumption
      <3> QED BY <1>1, <1>3, <1>5, <1>6, <2>1, <3>1, Elsewhere
    <2>2. CASE y = z
      <3>1. ~Meeting(z)' /\ z \notin raced
        BY <1>3, <2>2, Watched
      <3>2. Sound(z)
        BY <1>4, <3>1 DEF IInv
      <3>3. recordsOf(z)' = recordsOf(z) \ {r} /\ r \in recordsOf(z)
        BY <1>4, <1>10 DEF recordsOf
      <3>4. zones[z] # NoZone
        BY <3>2, <3>3 DEF Sound
      <3>5. \A g \in Handlers : Creating(g, z)' => zones[z] = job'[g].row
        BY <1>5, <1>6, <3>2 DEF Others, Creating, Sound
      <3>6. \A g \in Handlers : (job'[g].zone = z /\ job'[g].pc = "cascade")
                                  => recordsOf(z)' \subseteq job'[g].listed
        BY <1>5, <1>6, <3>2, <3>3 DEF Others, Sound
      <3>7. /\ Counting(z)' = Counting(z) \union {h} /\ h \notin Counting(z)
            /\ Bumping(z)' = Bumping(z)
        BY <1>3, <1>5, <1>6 DEF Bumping, Counting, Others
      <3>8. /\ Cardinality(recordsOf(z)') = Cardinality(recordsOf(z)) - 1
            /\ Cardinality(Counting(z)') = Cardinality(Counting(z)) + 1
        <4>1. Cardinality(recordsOf(z)') = Cardinality(recordsOf(z)) - 1
          BY <3>3, OwedFinite, FS_RemoveElement
        <4>2. Cardinality(Counting(z)') = Cardinality(Counting(z)) + 1
          BY <3>7, OwedFinite, FS_AddElement
        <4> QED BY <4>1, <4>2
      <3>9. zones[z].records \in Nat
        BY <1>4, <3>4 DEF IInv, TypeOK, ZoneRow
      <3>10. zones[z].records + Cardinality(Bumping(z)')
              = Cardinality(recordsOf(z)') + Cardinality(Counting(z)')
        BY <3>2, <3>4, <3>7, <3>8, <3>9, OwedFinite DEF Sound
      <3>11. z \notin deleted'
        BY <1>3, <3>2, <3>4 DEF Sound
      <3>12. Sound(z)'
        BY <1>3, <3>1, <3>4, <3>5, <3>6, <3>10, <3>11 DEF Sound
      <3> QED BY <2>2, <3>12
    <2> QED BY <2>1, <2>2
  <1>12. NamesOK'
    BY <1>3, <1>5, <1>6, NamesKept
  <1> QED BY <1>3, <1>5, <1>7, <1>8, <1>9, <1>10, <1>11, <1>12, LoudStep

(* The zone has the revision that was read, so the count written is the    *)
(* zone's own, one down.                                                   *)
LEMMA CountHitOK ==
    ASSUME IInv, NEW h \in Handlers, CountCas(h), ZoneUnmoved(h)
    PROVE  IInv'
  <1>1. PICK z : z = job[h].zone
    OBVIOUS
  <1>2. PICK row : row = job[h].row
    OBVIOUS
  <1>3. /\ job[h].pc = "countCas" /\ PutZone(z, row.name, row.records - 1)
        /\ Return(h) /\ UNCHANGED <<records, deleted>> /\ NoCall
        /\ zones[z] # NoZone /\ zones[z].rev = row.rev
    BY <1>1, <1>2 DEF CountCas, ZoneUnmoved
  <1>4. /\ z \in Zones \intersect minted /\ row.name \in Names
        /\ row.records \in Nat /\ row.records # 0
    BY <1>1, <1>2, <1>3 DEF IInv, HandlerOK, Shape, OnZone, WithRow, Labels, ZoneRow
  <1>5. row.records - 1 \in Nat
    BY <1>4
  <1>6. /\ Watch /\ minted' = minted /\ calls' \in 0..MaxCalls /\ failures' \in 0..MaxFailures
    BY <1>3, NoCallFields
  <1>7. /\ job' = [job EXCEPT ![h] = Idle] /\ job'[h] = Idle /\ Others(h)
        /\ HandlerOK(h)' /\ Enters(h) /\ Idle \in JobRecord /\ Idle.zone = NoZone /\ Idle.pc = "idle"
    BY <1>3, IdleOK, IdleFields
  <1>8. /\ zones' \in [Zones -> ZoneRow \union {NoZone}]
        /\ records' \in [Records -> Zones \union {NoZone}]
        /\ rev' = rev + 1 /\ deleted' \subseteq Zones \intersect minted
        /\ \A y \in Zones : zones'[y] # NoZone => y \in minted /\ zones'[y].rev <= rev + 1
        /\ \A r \in Records : records'[r] # NoZone => r \in minted /\ records'[r] \in minted
        /\ KeepsStore(h)
        /\ \A y \in Zones \ {z} : zones'[y] = zones[y]
        /\ zones'[z] # NoZone /\ zones'[z].name = row.name /\ zones'[z].records = row.records - 1
    BY <1>1, <1>3, <1>4, <1>5, <1>6, PutZoneStore DEF InZone
  <1>9. zones[z] = row
    BY <1>1, <1>2, <1>3 DEF IInv, HandlerOK, RevisionTells
  <1>10. ASSUME NEW y \in Zones \ raced' PROVE Sound(y)' \/ SameZone(h, y)
    <2>1. CASE y # z
      <3>1. job'[h].zone # y
        BY <1>7, StoreAssumption
      <3> QED BY <1>1, <1>3, <1>8, <2>1, <3>1, Elsewhere
    <2>2. CASE y = z
      <3>1. ~Meeting(z)' /\ z \notin raced
        BY <1>6, <2>2, Watched
      <3>2. Sound(z)
        BY <1>4, <3>1 DEF IInv
      <3>3. Writing(h, z)
        BY <1>1, <1>3 DEF Writing
      <3>4. \A g \in Handlers \ {h} : ~Creating(g, z)
        BY <3>2, <3>3 DEF Sound, Meeting
      <3>5. \A g \in Handlers : ~Creating(g, z)'
        BY <1>7, <3>4 DEF Others, Creating
      <3>6. recordsOf(z)' = recordsOf(z)
        BY <1>3 DEF recordsOf
      <3>7. /\ Counting(z)' = Counting(z) \ {h} /\ h \in Counting(z)
            /\ Bumping(z)' = Bumping(z)
        BY <1>1, <1>3, <1>7 DEF Bumping, Counting, Others
      <3>8. Cardinality(Counting(z)') = Cardinality(Counting(z)) - 1
        BY <3>7, OwedFinite, FS_RemoveElement
      <3>9. zones'[z].records + Cardinality(Bumping(z)')
              = Cardinality(recordsOf(z)') + Cardinality(Counting(z)')
        BY <1>3, <1>4, <1>8, <1>9, <3>2, <3>6, <3>7, <3>8, OwedFinite DEF Sound
      <3>10. z \notin deleted'
        BY <1>3, <3>2 DEF Sound
      <3>11. \A g \in Handlers : (job'[g].zone = z /\ job'[g].pc = "cascade")
                                   => recordsOf(z)' \subseteq job'[g].listed
        BY <1>7, <3>2, <3>6 DEF Others, Sound
      <3>12. Sound(z)'
        BY <1>8, <3>1, <3>5, <3>9, <3>10, <3>11 DEF Sound
      <3> QED BY <2>2, <3>12
    <2> QED BY <2>1, <2>2
  <1>11. NamesOK'
    <2>1. \A y \in Zones : zones'[y] # NoZone =>
                             zones[y] # NoZone /\ zones'[y].name = zones[y].name
      BY <1>3, <1>8, <1>9
    <2>2. job'[h].pc # "zonePut"
      BY <1>7
    <2> QED BY <1>6, <1>7, <2>1, <2>2, NamesKept
  <1> QED BY <1>6, <1>7, <1>8, <1>10, <1>11, LoudStep

(* A lost reply leaves its zone raced, and touches no other. *)
LEMMA ReplyLostOK ==
    ASSUME IInv, NEW h \in Handlers, ReplyLost(h)
    PROVE  IInv'
  <1>1. PICK z : z = job[h].zone
    OBVIOUS
  <1>2. PICK r : r = job[h].rec
    OBVIOUS
  <1>3. /\ Return(h) /\ Watch /\ rev' = rev + 1 /\ UNCHANGED <<zones, deleted, minted, calls>>
        /\ job[h].pc \in {"recordPut", "recordDelete"}
        /\ failures' \in 0..MaxFailures /\ failures' # failures
    BY Counters DEF ReplyLost, WriteRecord, EraseRecord
  <1>4. calls' \in 0..MaxCalls /\ minted' = minted
    BY <1>3, Counters
  <1>5. z \in Zones \intersect minted /\ r \in Records \intersect minted /\ z # NoZone
    BY <1>1, <1>2, <1>3, StoreAssumption DEF IInv, HandlerOK, Shape, OnZone, OnRecord, Labels
  <1>6. PICK v \in {NoZone, z} :
          /\ records' = [records EXCEPT ![r] = v]
          /\ v = NoZone \/ (job[h].rec = r /\ job[h].pc = "recordPut" /\ job[h].zone = v)
          /\ records[r] \in {NoZone, z}
    BY <1>1, <1>2, <1>5 DEF ReplyLost, WriteRecord, EraseRecord, IInv, HandlerOK, RecordsStay
  <1>7. /\ job' = [job EXCEPT ![h] = Idle] /\ job'[h] = Idle /\ Others(h)
        /\ HandlerOK(h)' /\ Enters(h) /\ Idle \in JobRecord /\ Idle.zone = NoZone /\ Idle.pc = "idle"
    BY <1>3, IdleOK, IdleFields
  <1>8. /\ zones' \in [Zones -> ZoneRow \union {NoZone}]
        /\ records' \in [Records -> Zones \union {NoZone}]
        /\ deleted' \subseteq Zones \intersect minted
        /\ \A y \in Zones : zones'[y] # NoZone => y \in minted /\ zones'[y].rev <= rev + 1
        /\ \A s \in Records : records'[s] # NoZone => s \in minted /\ records'[s] \in minted
        /\ KeepsStore(h)
        /\ records'[r] = v /\ \A s \in Records \ {r} : records'[s] = records[s]
    BY <1>3, <1>5, <1>6, PutRecordStore
  <1>9. z \in raced'
    <2>1. Writing(h, z) /\ ~Writing(h, z)'
      BY <1>1, <1>3, <1>7 DEF Writing, Creating
    <2>2. CutShort(z)
      BY <1>3, <2>1 DEF CutShort
    <2> QED BY <1>3, <1>5, <2>2, Watched
  <1>10. ASSUME NEW y \in Zones \ raced' PROVE SameZone(h, y)
    <2>1. y # z /\ y # NoZone /\ job'[h].zone # y
      BY <1>7, <1>9, StoreAssumption
    <2>2. \A s \in Records : records'[s] = y <=> records[s] = y
      BY <1>6, <1>8, <2>1
    <2> QED BY <1>1, <1>3, <2>1, <2>2, Elsewhere
  <1>11. NamesOK'
    BY <1>3, <1>7, NamesKept
  <1> QED BY <1>3, <1>4, <1>7, <1>8, <1>10, <1>11, LoudStep

-----------------------------------------------------------------------------
(* The invariant *)

LEMMA IInvInit ==
    Init => IInv
  <1> SUFFICES ASSUME Init PROVE IInv
    OBVIOUS
  <1>1. /\ zones = [z \in Zones |-> NoZone] /\ records = [r \in Records |-> NoZone]
        /\ rev = 0 /\ minted = {} /\ deleted = {} /\ calls = 0 /\ failures = 0
        /\ raced = {} /\ contested = {} /\ job = [h \in Handlers |-> Idle]
    BY DEF Init
  <1>2. job \in [Handlers -> JobRecord] /\ \A h \in Handlers : job[h] = Idle
    BY <1>1, IdleFields
  <1>3. \A h \in Handlers : job[h].pc = "idle" /\ job[h].zone = NoZone /\ job[h].listed = {}
    BY <1>2, IdleFields
  <1>4. TypeOK
    BY <1>1, <1>2, StoreAssumption DEF TypeOK, JobRecord
  <1>5. StoreOK
    <2>1. {h \in Handlers : job[h].pc # "idle"} = {}
      BY <1>3
    <2>2. IsFiniteSet({h \in Handlers : job[h].pc # "idle"})
      BY <2>1, FS_EmptySet
    <2> QED BY <1>1, <2>2 DEF StoreOK
  <1>6. \A h \in Handlers : HandlerOK(h)
    BY <1>1, <1>3 DEF HandlerOK, Shape, OnZone, OnRecord, WithRow, ZoneIsNew, NewZone,
                      RecordIsNew, NewRecord, RecordsStay, RevisionTells
  <1>7. ASSUME NEW z \in Zones PROVE Sound(z)
    <2>1. zones[z] = NoZone /\ z # NoZone
      BY <1>1, StoreAssumption
    <2>2. recordsOf(z) = {} /\ \A h \in Handlers : ~Creating(h, z)
      BY <1>1, <1>3, <2>1 DEF recordsOf, Creating
    <2> QED BY <2>1, <2>2 DEF Sound, Meeting
  <1>8. NamesOK
    <2>1. \A n \in Names : ~Twins(n)
      BY <1>3 DEF Twins
    <2> QED BY <1>1, <2>1 DEF NamesOK
  <1> QED BY <1>4, <1>5, <1>6, <1>7, <1>8 DEF IInv

LEMMA IInvStep ==
    IInv /\ [Next]_vars => IInv'
  <1> SUFFICES ASSUME IInv, [Next]_vars PROVE IInv'
    OBVIOUS
  <1>1. CASE UNCHANGED vars
    <2>1. /\ zones' = zones /\ records' = records /\ rev' = rev /\ minted' = minted
          /\ deleted' = deleted /\ calls' = calls /\ failures' = failures /\ job' = job
          /\ raced' = raced /\ contested' = contested
      BY <1>1 DEF vars
    <2>2. TypeOK' /\ StoreOK'
      BY <2>1 DEF IInv, TypeOK, StoreOK
    <2>3. \A h \in Handlers : HandlerOK(h)'
      BY <2>1 DEF IInv, HandlerOK, Shape, ZoneIsNew, RecordIsNew, RecordsStay, RevisionTells
    <2>4. \A z \in Zones \ raced' : Sound(z)'
      <3> SUFFICES ASSUME NEW z \in Zones \ raced PROVE Sound(z)'
        BY <2>1
      <3>1. /\ Meeting(z)' = Meeting(z) /\ recordsOf(z)' = recordsOf(z)
            /\ Bumping(z)' = Bumping(z) /\ Counting(z)' = Counting(z)
        BY <2>1 DEF Meeting, Creating, Writing, recordsOf, Bumping, Counting
      <3>2. \A h \in Handlers : Creating(h, z)' = Creating(h, z)
        BY <2>1 DEF Creating
      <3> QED BY <2>1, <3>1, <3>2 DEF IInv, Sound
    <2>5. NamesOK'
      BY <2>1 DEF IInv, NamesOK, Twins
    <2> QED BY <2>2, <2>3, <2>4, <2>5 DEF IInv
  <1>2. ASSUME NEW h \in Handlers, Calls(h) PROVE IInv'
    BY <1>2, CallCreateZoneOK, CallDeleteZoneOK, CallCreateRecordOK, CallDeleteRecordOK DEF Calls
  <1>3. ASSUME NEW h \in Handlers, Proceed(h) PROVE IInv'
    <2>1. CASE CountCas(h)
      BY <2>1, CountHitOK, CountMissOK
    <2> QED BY <1>3, <2>1, ZoneScanOK, ZonePutOK, CascadeListOK, CascadeOK, CascadeRefusedOK,
               RecordZoneOK, RecordPutOK, BumpOK, RecordGetOK, RecordDeleteOK, RecordGoneOK,
               CountGetOK DEF Proceed
  <1> QED BY <1>1, <1>2, <1>3, EtcdFailsOK, ReplyLostOK DEF Next

LEMMA IInvAlways ==
    Spec => []IInv
  BY IInvInit, IInvStep, PTL DEF Spec

-----------------------------------------------------------------------------
(* Theorems *)

(* The types of the store and of the handlers' local state, for any number *)
(* of handlers: no record count goes negative, although CountCas writes    *)
(* one less than a row read earlier.                                       *)
THEOREM TypeCorrect == Spec => []TypeOK
  BY IInvAlways, PTL DEF IInv

(* The count of a zone that no call is writing is the number of its        *)
(* records, unless a CreateRecord met another writer on it, a failure cut  *)
(* a call short, or a decrement was overtaken at every attempt.            *)
THEOREM CountDriftExplained == Spec => []CountDriftIsExplained
  <1>1. IInv => CountDriftIsExplained
    <2> SUFFICES ASSUME IInv, NEW z \in Zones \ raced, zones[z] # NoZone,
                        \A h \in Handlers : ~Writing(h, z)
                 PROVE  zones[z].records = Cardinality(recordsOf(z))
      BY DEF CountDriftIsExplained
    <2>1. Sound(z)
      BY DEF IInv
    <2>2. Bumping(z) = {} /\ Counting(z) = {}
      BY DEF Bumping, Counting, Writing, Creating
    <2>3. Cardinality({}) = 0
      BY FS_EmptySet
    <2>4. zones[z].records \in Nat /\ Cardinality(recordsOf(z)) \in Nat
      BY OwedFinite DEF IInv, TypeOK, ZoneRow
    <2> QED BY <2>1, <2>2, <2>3, <2>4 DEF Sound
  <1> QED BY <1>1, IInvAlways, PTL

(* A zone that DeleteZone removed stays removed, with no record left, if   *)
(* no CreateRecord met another writer on it and no call failed on it.      *)
THEOREM OrphansExplained == Spec => []OrphansAreExplained
  <1>1. IInv => OrphansAreExplained
    BY DEF IInv, TypeOK, Sound, OrphansAreExplained
  <1> QED BY <1>1, IInvAlways, PTL

-----------------------------------------------------------------------------
(* The memory store's contract.  Where nothing raced, the four maps are    *)
(* determined by which zones are there, their names, and the records.      *)

(* The zone a set of zones with one name stands for. *)
Sole(S) == IF S = {} THEN NoZone ELSE CHOOSE z \in S : TRUE

LEMMA OwnerIsSole ==
    ASSUME NEW n
    PROVE  /\ ownerOf(n) = Sole(nameOwners(n))
           /\ ownerOf(n)' = Sole(nameOwners(n)')
           /\ \A z : Sole({z}) = z
           /\ Sole({}) = NoZone
  BY DEF ownerOf, Sole

(* A zone as the memory store would have it. *)
Stored(row, recs) == IF row = NoZone THEN NoZone
                     ELSE [name |-> row.name, records |-> Cardinality(recs)]

Clean == /\ \A z \in Zones : zoneOf(z) = Stored(zones[z], recordsOf(z))
         /\ \A z \in Zones : zones[z] = NoZone => recordsOf(z) = {}

(* What the calls in progress owe makes up the difference. *)
LEMMA CleanNow ==
    IInv /\ raced = {} => Clean
  <1> SUFFICES ASSUME IInv, raced = {}, NEW z \in Zones
               PROVE  /\ zoneOf(z) = Stored(zones[z], recordsOf(z))
                      /\ zones[z] = NoZone => recordsOf(z) = {}
    BY DEF Clean
  <1>1. Sound(z)
    BY DEF IInv
  <1>2. ASSUME zones[z] # NoZone PROVE countOf(z) = Cardinality(recordsOf(z))
    <2>1. /\ Bumping(z) = {h \in Handlers : job[h].zone = z /\ job[h].pc \in {"bump"}}
          /\ Counting(z) = {h \in Handlers : job[h].zone = z /\ job[h].pc \in {"countGet", "countCas"}}
      BY DEF Bumping, Counting
    <2>2. /\ pending(z, {"bump"}) = Cardinality(Bumping(z))
          /\ pending(z, {"countGet", "countCas"}) = Cardinality(Counting(z))
      BY <2>1 DEF pending
    <2>3. zones[z].records \in Nat
      BY <1>2 DEF IInv, TypeOK, ZoneRow
    <2> QED BY <1>1, <1>2, <2>2, <2>3, OwedFinite DEF Sound, countOf
  <1> QED BY <1>1, <1>2 DEF zoneOf, Stored, Sound

LEMMA CleanNext ==
    (IInv /\ raced = {} => Clean)'
  BY CleanNow, PTL

LEMMA StoredPresent ==
    ASSUME IInv, NEW row \in ZoneRow, NEW z
    PROVE  row # NoZone /\ Stored(row, recordsOf(z)) # NoZone
           /\ Stored(row, recordsOf(z)).name = row.name
  <1>1. row # NoZone
    BY ZoneRowAssumption
  <1>2. Stored(row, recordsOf(z)) \in [name : Names, records : Nat]
    BY <1>1, OwedFinite DEF Stored, ZoneRow
  <1> QED BY <1>1, <1>2, ZoneRowAssumption DEF Stored

(* Only counts and revisions are written. *)
LEMMA KeepsMemory ==
    ASSUME Clean, Clean', records' = records,
           \A z \in Zones : \/ zones[z] = NoZone /\ zones'[z] = NoZone
                            \/ /\ zones[z] # NoZone /\ zones'[z] # NoZone
                               /\ zones'[z].name = zones[z].name
    PROVE  UNCHANGED Memory!vars
  <1>1. \A z \in Zones : recordsOf(z)' = recordsOf(z)
    BY DEF recordsOf
  <1>2. \A z \in Zones : zoneOf(z)' = zoneOf(z)
    BY <1>1 DEF Clean, Stored
  <1>3. \A n \in Names : nameOwners(n)' = nameOwners(n)
    BY DEF nameOwners
  <1>4. \A n \in Names : ownerOf(n)' = ownerOf(n)
    BY <1>3, OwnerIsSole
  <1>5. /\ [z \in Zones |-> zoneOf(z)]' = [z \in Zones |-> zoneOf(z)]
        /\ [n \in Names |-> ownerOf(n)]' = [n \in Names |-> ownerOf(n)]
        /\ [z \in Zones |-> recordsOf(z)]' = [z \in Zones |-> recordsOf(z)]
    BY <1>1, <1>2, <1>4
  <1> QED BY <1>5 DEF Memory!vars

(* A zone is put under a name nobody has. *)
LEMMA ZonePutRefines ==
    ASSUME IInv, NEW h \in Handlers, ZonePut(h), Clean, Clean', raced = {}, contested = {}
    PROVE  Memory!Next
  <1>1. PICK z : z = job[h].zone
    OBVIOUS
  <1>2. PICK n : n = job[h].row.name
    OBVIOUS
  <1>3. /\ job[h].pc = "zonePut" /\ zones[z] = NoZone /\ PutZone(z, n, 0)
        /\ UNCHANGED <<records, deleted, minted>>
    BY <1>1, <1>2 DEF ZonePut, NoCall
  <1>4. z \in Zones \intersect minted /\ n \in Names
    BY <1>1, <1>2, <1>3 DEF IInv, HandlerOK, Shape, OnZone, WithRow, Labels, ZoneRow
  <1>5. /\ \A y \in Zones \ {z} : zones'[y] = zones[y]
        /\ zones'[z] # NoZone /\ zones'[z].name = n
    <2>1. 0 \in Nat
      OBVIOUS
    <2> QED BY <1>1, <1>3, <1>4, <2>1, PutZoneStore DEF InZone
  <1>6. /\ recordsOf(z) = {} /\ \A y \in Zones : recordsOf(y)' = recordsOf(y)
    BY <1>3, <1>4 DEF Clean, recordsOf
  <1>7. zoneOf(z) = NoZone /\ zoneOf(z)' = [name |-> n, records |-> 0]
        /\ \A y \in Zones \ {z} : zoneOf(y)' = zoneOf(y)
    <2>1. Cardinality({}) = 0
      BY FS_EmptySet
    <2> QED BY <1>3, <1>4, <1>5, <1>6, <2>1 DEF Clean, Stored
  <1>8. nameOwners(n) = {}
    BY <1>2, <1>3 DEF IInv, NamesOK, nameOwners
  <1>9. nameOwners(n)' = {z} /\ \A m \in Names \ {n} : nameOwners(m)' = nameOwners(m)
    <2>1. \A m : nameOwners(m)' = {y \in Zones : zones'[y] # NoZone /\ zones'[y].name = m}
      BY DEF nameOwners
    <2> QED BY <1>3, <1>4, <1>5, <1>8, <2>1 DEF nameOwners
  <1>10. /\ ownerOf(n) = NoZone
         /\ \A m \in Names : ownerOf(m)' = IF m = n THEN z ELSE ownerOf(m)
    BY <1>8, <1>9, OwnerIsSole
  <1>11. Memory!CreateZone(z, n)
    <2>1. [y \in Zones |-> zoneOf(y)]'
            = [[y \in Zones |-> zoneOf(y)] EXCEPT ![z] = [name |-> n, records |-> 0]]
      BY <1>4, <1>7
    <2>2. [m \in Names |-> ownerOf(m)]' = [[m \in Names |-> ownerOf(m)] EXCEPT ![n] = z]
      BY <1>4, <1>10
    <2>3. [y \in Zones |-> recordsOf(y)]' = [[y \in Zones |-> recordsOf(y)] EXCEPT ![z] = {}]
      BY <1>4, <1>6
    <2> QED BY <1>3, <1>4, <1>7, <1>10, <2>1, <2>2, <2>3 DEF Memory!CreateZone
  <1> QED BY <1>4, <1>11 DEF Memory!Next

(* A zone goes with all its records, and its name is free again. *)
LEMMA CascadeRefines ==
    ASSUME IInv, NEW h \in Handlers, Cascade(h), Clean, Clean', raced = {}, contested = {}
    PROVE  Memory!Next
  <1>1. PICK z : z = job[h].zone
    OBVIOUS
  <1>2. PICK L : L = job[h].listed
    OBVIOUS
  <1>3. /\ job[h].pc = "cascade" /\ zones[z] # NoZone
        /\ zones' = [zones EXCEPT ![z] = NoZone]
        /\ records' = [r \in Records |-> IF r \in L THEN NoZone ELSE records[r]]
    BY <1>1, <1>2 DEF Cascade
  <1>4. z \in Zones /\ z # NoZone /\ zones \in [Zones -> ZoneRow \union {NoZone}]
    BY <1>1, <1>3, StoreAssumption DEF IInv, HandlerOK, Shape, OnZone, Labels, TypeOK
  <1>5. zones[z] \in ZoneRow /\ zones[z].name \in Names
    BY <1>3, <1>4 DEF ZoneRow
  <1>6. PICK n \in Names : n = zones[z].name
    BY <1>5
  <1>7. zones'[z] = NoZone /\ \A y \in Zones \ {z} : zones'[y] = zones[y]
    BY <1>3, <1>4
  <1>8. \A r \in L : r \in Records /\ records[r] \in {NoZone, z}
    BY <1>1, <1>2 DEF IInv, HandlerOK, RecordsStay, TypeOK
  <1>9. recordsOf(z) \subseteq L
    BY <1>1, <1>2, <1>3, <1>4 DEF IInv, Sound
  <1>10. records' = [r \in Records |-> IF r \in recordsOf(z) THEN NoZone ELSE records[r]]
    <2>1. \A r \in Records : (IF r \in L THEN NoZone ELSE records[r])
                               = (IF r \in recordsOf(z) THEN NoZone ELSE records[r])
      BY <1>8, <1>9 DEF recordsOf
    <2> QED BY <1>3, <2>1
  <1>11. \A y \in Zones : recordsOf(y)' = IF y = z THEN {} ELSE recordsOf(y)
    <2>1. \A y : recordsOf(y)' = {r \in Records : records'[r] = y}
      BY DEF recordsOf
    <2>2. recordsOf(z)' = {}
      BY <1>4, <1>10, <2>1 DEF recordsOf
    <2>3. ASSUME NEW y \in Zones \ {z} PROVE recordsOf(y)' = recordsOf(y)
      <3>1. \A r \in Records : records'[r] = y <=> records[r] = y
        BY <1>10, StoreAssumption DEF recordsOf
      <3> QED BY <2>1, <3>1 DEF recordsOf
    <2> QED BY <2>2, <2>3
  <1>12. /\ zoneOf(z) # NoZone /\ zoneOf(z).name = n
         /\ zoneOf(z)' = NoZone /\ \A y \in Zones \ {z} : zoneOf(y)' = zoneOf(y)
    <2>1. zoneOf(z) # NoZone /\ zoneOf(z).name = n
      BY <1>4, <1>5, <1>6, StoredPresent DEF Clean
    <2> QED BY <1>4, <1>7, <1>11, <2>1 DEF Clean, Stored
  <1>13. /\ \A m : nameOwners(m)' = {y \in Zones : zones'[y] # NoZone /\ zones'[y].name = m}
         /\ nameOwners(n)' = {}
    <2>1. \A m : nameOwners(m)' = {y \in Zones : zones'[y] # NoZone /\ zones'[y].name = m}
      BY DEF nameOwners
    <2>2. \A y \in Zones : (zones[y] # NoZone /\ zones[y].name = n) => y = z
      BY <1>3, <1>4, <1>6 DEF IInv, NamesOK
    <2> QED BY <1>7, <2>1, <2>2
  <1>14. ASSUME NEW m \in Names \ {n} PROVE nameOwners(m)' = nameOwners(m)
    <2>1. \A y \in Zones : (zones'[y] # NoZone /\ zones'[y].name = m)
                             <=> (zones[y] # NoZone /\ zones[y].name = m)
      BY <1>6, <1>7
    <2> QED BY <1>13, <2>1 DEF nameOwners
  <1>15. \A m \in Names : ownerOf(m)' = IF m = n THEN NoZone ELSE ownerOf(m)
    BY <1>13, <1>14, OwnerIsSole
  <1>16. Memory!DeleteZone(z)
    <2>1. [y \in Zones |-> zoneOf(y)]' = [[y \in Zones |-> zoneOf(y)] EXCEPT ![z] = NoZone]
      <3>1. \A y \in Zones : zoneOf(y)' = IF y = z THEN NoZone ELSE zoneOf(y)
        BY <1>12
      <3> QED BY <1>4, <3>1
    <2>2. [m \in Names |-> ownerOf(m)]' = [[m \in Names |-> ownerOf(m)] EXCEPT ![n] = NoZone]
      BY <1>15
    <2>3. [y \in Zones |-> recordsOf(y)]' = [[y \in Zones |-> recordsOf(y)] EXCEPT ![z] = {}]
      BY <1>4, <1>11
    <2> QED BY <1>4, <1>10, <1>12, <2>1, <2>2, <2>3 DEF Memory!DeleteZone
  <1> QED BY <1>4, <1>16 DEF Memory!Next

(* The memory store counts as the etcd store does. *)
LEMMA SameCardinality ==
    ASSUME NEW S
    PROVE  Memory!Cardinality(S) = Cardinality(S)
  BY DEF Memory!Cardinality, Cardinality

(* A record is added or removed: its zone's count follows. *)
LEMMA RecordRefines ==
    ASSUME IInv, Clean, Clean', NEW r \in Records, NEW z \in Zones, zones[z] # NoZone,
           zones' = zones, recordsOf(z)' # recordsOf(z),
           \A y \in Zones \ {z} : recordsOf(y)' = recordsOf(y)
    PROVE  /\ zoneOf(z) # NoZone
           /\ [y \in Zones |-> zoneOf(y)]'
                = [[y \in Zones |-> zoneOf(y)] EXCEPT
                     ![z] = [name |-> zoneOf(z).name, records |-> Cardinality(recordsOf(z)')]]
           /\ [n \in Names |-> ownerOf(n)]' = [n \in Names |-> ownerOf(n)]
           /\ [y \in Zones |-> recordsOf(y)]'
                = [[y \in Zones |-> recordsOf(y)] EXCEPT ![z] = recordsOf(z)']
  <1>1. zones[z] \in ZoneRow
    BY DEF IInv, TypeOK
  <1>2. zoneOf(z) # NoZone /\ zoneOf(z).name = zones[z].name
    BY <1>1, StoredPresent DEF Clean
  <1>3. zoneOf(z)' = [name |-> zoneOf(z).name, records |-> Cardinality(recordsOf(z)')]
    BY <1>2 DEF Clean, Stored
  <1>4. \A y \in Zones \ {z} : zoneOf(y)' = zoneOf(y)
    BY DEF Clean
  <1>5. \A n \in Names : nameOwners(n)' = nameOwners(n)
    BY DEF nameOwners
  <1>6. \A n \in Names : ownerOf(n)' = ownerOf(n)
    BY <1>5, OwnerIsSole
  <1>7. [y \in Zones |-> zoneOf(y)]'
          = [[y \in Zones |-> zoneOf(y)] EXCEPT
               ![z] = [name |-> zoneOf(z).name, records |-> Cardinality(recordsOf(z)')]]
    <2>1. PICK v : v = [name |-> zoneOf(z).name, records |-> Cardinality(recordsOf(z)')]
      OBVIOUS
    <2>2. \A y \in Zones : zoneOf(y)' = IF y = z THEN v ELSE zoneOf(y)
      BY <1>3, <1>4, <2>1
    <2>3. [y \in Zones |-> zoneOf(y)]' = [[y \in Zones |-> zoneOf(y)] EXCEPT ![z] = v]
      BY <2>2
    <2> QED BY <2>1, <2>3
  <1>8. [n \in Names |-> ownerOf(n)]' = [n \in Names |-> ownerOf(n)]
    BY <1>6
  <1>9. [y \in Zones |-> recordsOf(y)]'
          = [[y \in Zones |-> recordsOf(y)] EXCEPT ![z] = recordsOf(z)']
    <2>1. PICK S : S = recordsOf(z)'
      OBVIOUS
    <2>2. \A y \in Zones : recordsOf(y)' = IF y = z THEN S ELSE recordsOf(y)
      BY <2>1
    <2>3. [y \in Zones |-> recordsOf(y)]' = [[y \in Zones |-> recordsOf(y)] EXCEPT ![z] = S]
      BY <2>2
    <2> QED BY <2>1, <2>3
  <1> QED BY <1>2, <1>7, <1>8, <1>9

LEMMA RecordPutRefines ==
    ASSUME IInv, NEW h \in Handlers, RecordPut(h), Clean, Clean', raced = {}
    PROVE  Memory!Next
  <1>1. PICK z : z = job[h].zone
    OBVIOUS
  <1>2. PICK r : r = job[h].rec
    OBVIOUS
  <1>3. /\ job[h].pc = "recordPut" /\ records[r] = NoZone
        /\ records' = [records EXCEPT ![r] = z] /\ zones' = zones
    BY <1>1, <1>2 DEF RecordPut, WriteRecord
  <1>4. z \in Zones /\ r \in Records /\ records \in [Records -> Zones \union {NoZone}]
    BY <1>1, <1>2, <1>3 DEF IInv, HandlerOK, Shape, OnZone, OnRecord, Labels, TypeOK
  <1>5. zones[z] # NoZone
    BY <1>1, <1>3, <1>4 DEF IInv, Sound, Creating
  <1>6. /\ recordsOf(z)' = recordsOf(z) \union {r} /\ r \notin recordsOf(z)
        /\ \A y \in Zones \ {z} : recordsOf(y)' = recordsOf(y)
    BY <1>3, <1>4, StoreAssumption DEF recordsOf
  <1>7. Memory!CreateRecord(r, z)
    <2>1. /\ zoneOf(z) # NoZone
          /\ [y \in Zones |-> zoneOf(y)]'
               = [[y \in Zones |-> zoneOf(y)] EXCEPT
                    ![z] = [name |-> zoneOf(z).name, records |-> Cardinality(recordsOf(z)')]]
          /\ [n \in Names |-> ownerOf(n)]' = [n \in Names |-> ownerOf(n)]
          /\ [y \in Zones |-> recordsOf(y)]'
               = [[y \in Zones |-> recordsOf(y)] EXCEPT ![z] = recordsOf(z)']
      BY <1>3, <1>4, <1>5, <1>6, RecordRefines
    <2>2. [y \in Zones |-> zoneOf(y)][z] = zoneOf(z) /\ [y \in Zones |-> recordsOf(y)][z] = recordsOf(z)
      BY <1>4
    <2>3. [y \in Zones |-> zoneOf(y)]'
            = [[y \in Zones |-> zoneOf(y)] EXCEPT
                 ![z] = [name |-> [y \in Zones |-> zoneOf(y)][z].name,
                         records |-> Cardinality([y \in Zones |-> recordsOf(y)][z] \union {r})]]
      BY <1>6, <2>1, <2>2
    <2>4. [y \in Zones |-> recordsOf(y)]'
            = [[y \in Zones |-> recordsOf(y)] EXCEPT ![z] = [y \in Zones |-> recordsOf(y)][z] \union {r}]
      BY <1>6, <2>2, <2>1
    <2> QED BY <1>3, <1>4, <2>1, <2>2, <2>3, <2>4, SameCardinality DEF Memory!CreateRecord
  <1> QED BY <1>4, <1>7 DEF Memory!Next

LEMMA RecordDeleteRefines ==
    ASSUME IInv, NEW h \in Handlers, RecordDelete(h), Clean, Clean', raced = {}
    PROVE  Memory!Next
  <1>1. PICK z : z = job[h].zone
    OBVIOUS
  <1>2. PICK r : r = job[h].rec
    OBVIOUS
  <1>3. /\ job[h].pc = "recordDelete" /\ records[r] # NoZone
        /\ records' = [records EXCEPT ![r] = NoZone] /\ zones' = zones
    BY <1>1, <1>2 DEF RecordDelete, EraseRecord
  <1>4. /\ z \in Zones /\ r \in Records /\ records \in [Records -> Zones \union {NoZone}]
        /\ records[r] = z
    BY <1>1, <1>2, <1>3
       DEF IInv, HandlerOK, Shape, RecordsStay, OnZone, OnRecord, Labels, TypeOK
  <1>5. /\ recordsOf(z)' = recordsOf(z) \ {r} /\ r \in recordsOf(z)
        /\ \A y \in Zones \ {z} : recordsOf(y)' = recordsOf(y)
    BY <1>3, <1>4, StoreAssumption DEF recordsOf
  <1>6. zones[z] # NoZone
    BY <1>4, <1>5 DEF Clean
  <1>7. Memory!DeleteRecord(r)
    <2>1. /\ zoneOf(z) # NoZone
          /\ [y \in Zones |-> zoneOf(y)]'
               = [[y \in Zones |-> zoneOf(y)] EXCEPT
                    ![z] = [name |-> zoneOf(z).name, records |-> Cardinality(recordsOf(z)')]]
          /\ [n \in Names |-> ownerOf(n)]' = [n \in Names |-> ownerOf(n)]
          /\ [y \in Zones |-> recordsOf(y)]'
               = [[y \in Zones |-> recordsOf(y)] EXCEPT ![z] = recordsOf(z)']
      BY <1>3, <1>4, <1>5, <1>6, RecordRefines
    <2>2. [y \in Zones |-> zoneOf(y)][z] = zoneOf(z) /\ [y \in Zones |-> recordsOf(y)][z] = recordsOf(z)
      BY <1>4
    <2>3. [y \in Zones |-> zoneOf(y)]'
            = [[y \in Zones |-> zoneOf(y)] EXCEPT
                 ![z] = [name |-> [y \in Zones |-> zoneOf(y)][z].name,
                         records |-> Cardinality([y \in Zones |-> recordsOf(y)][z] \ {r})]]
      BY <1>5, <2>1, <2>2
    <2>4. [y \in Zones |-> recordsOf(y)]'
            = [[y \in Zones |-> recordsOf(y)] EXCEPT ![z] = [y \in Zones |-> recordsOf(y)][z] \ {r}]
      BY <1>5, <2>2, <2>1
    <2> QED BY <1>3, <1>4, <2>1, <2>2, <2>3, <2>4, SameCardinality DEF Memory!DeleteRecord
  <1> QED BY <1>4, <1>7 DEF Memory!Next

(* The etcd store honours the memory store's contract for any number of    *)
(* handlers: as long as nothing raced and no name was contested, every     *)
(* step is one CreateZone, DeleteZone, CreateRecord or DeleteRecord of the *)
(* four maps, or leaves them alone.                                        *)
THEOREM StoreImplementsMemory == Spec => ImplementsMemory
  <1>1. Init => Memory!Init
    <2> SUFFICES ASSUME Init PROVE Memory!Init
      OBVIOUS
    <2>1. \A z \in Zones : zones[z] = NoZone /\ zoneOf(z) = NoZone /\ recordsOf(z) = {}
      BY StoreAssumption DEF Init, zoneOf, recordsOf
    <2>2. \A n \in Names : ownerOf(n) = NoZone
      BY <2>1 DEF ownerOf, nameOwners
    <2> QED BY <2>1, <2>2 DEF Init, Memory!Init
  <1>2. IInv /\ IInv' /\ [Next]_vars =>
          [raced' = {} /\ contested' = {} => (UNCHANGED Memory!vars \/ Memory!Next)]_vars
    <2> SUFFICES ASSUME IInv, IInv', NEW h \in Handlers, raced' = {}, contested' = {},
                        Calls(h) \/ Proceed(h) \/ EtcdFails(h) \/ ReplyLost(h)
                 PROVE  UNCHANGED Memory!vars \/ Memory!Next
      BY DEF Next
    <2>1. Watch
      BY DEF Calls, CallCreateZone, CallDeleteZone, CallCreateRecord, CallDeleteRecord, Call,
             Proceed, ZoneScan, ZonePut, CascadeList, Cascade, CascadeRefused, RecordZone,
             RecordPut, Bump, RecordGet, RecordDelete, RecordGone, CountGet, CountCas, NoCall,
             EtcdFails, ReplyLost
    <2>2. raced = {} /\ contested = {} /\ \A z \in Zones : ~CutShort(z)
      BY <2>1, Watched
    <2>3. Clean /\ Clean'
      BY <2>2, CleanNow, CleanNext
    <2>4. CASE records' = records /\ zones' = zones
      BY <2>3, <2>4, KeepsMemory
    <2>5. CASE ZonePut(h)
      BY <2>2, <2>3, <2>5, ZonePutRefines
    <2>6. CASE Cascade(h)
      BY <2>2, <2>3, <2>6, CascadeRefines
    <2>7. CASE RecordPut(h)
      BY <2>2, <2>3, <2>7, RecordPutRefines
    <2>8. CASE RecordDelete(h)
      BY <2>2, <2>3, <2>8, RecordDeleteRefines
    <2>9. CASE Bump(h)
      <3>1. PICK z, row : z = job[h].zone /\ row = job[h].row
        OBVIOUS
      <3>2. /\ job[h].pc = "bump" /\ PutZone(z, row.name, row.records + 1)
            /\ UNCHANGED <<records, deleted, minted>>
        BY <2>9, <3>1 DEF Bump, NoCall
      <3>3. z \in Zones \intersect minted /\ row.name \in Names /\ row.records + 1 \in Nat
        BY <3>1, <3>2 DEF IInv, HandlerOK, Shape, OnZone, WithRow, Labels, ZoneRow
      <3>4. zones[z] # NoZone /\ zones[z] = row
        BY <2>2, <3>1, <3>2, <3>3 DEF IInv, Sound, Creating
      <3>5. /\ \A y \in Zones \ {z} : zones'[y] = zones[y]
            /\ zones'[z] # NoZone /\ zones'[z].name = row.name
        BY <3>1, <3>2, <3>3, PutZoneStore DEF InZone
      <3> QED BY <2>3, <3>2, <3>4, <3>5, KeepsMemory
    <2>10. CASE CountCas(h) /\ ZoneUnmoved(h)
      <3>1. PICK z, row : z = job[h].zone /\ row = job[h].row
        OBVIOUS
      <3>2. /\ job[h].pc = "countCas" /\ PutZone(z, row.name, row.records - 1)
            /\ UNCHANGED <<records, deleted, minted>>
            /\ zones[z] # NoZone /\ zones[z].rev = row.rev
        BY <2>10, <3>1 DEF CountCas, ZoneUnmoved, NoCall
      <3>3. z \in Zones \intersect minted /\ row.name \in Names /\ row.records - 1 \in Nat
        BY <3>1, <3>2 DEF IInv, HandlerOK, Shape, OnZone, WithRow, Labels, ZoneRow
      <3>4. zones[z] = row
        BY <3>1, <3>2 DEF IInv, HandlerOK, RevisionTells
      <3>5. /\ \A y \in Zones \ {z} : zones'[y] = zones[y]
            /\ zones'[z] # NoZone /\ zones'[z].name = row.name
        BY <3>1, <3>2, <3>3, PutZoneStore DEF InZone
      <3> QED BY <2>3, <3>2, <3>4, <3>5, KeepsMemory
    <2>11. CASE CountCas(h) /\ ~ZoneUnmoved(h)
      BY <2>4, <2>11 DEF CountCas
    <2>12. CASE ReplyLost(h)
      <3>1. PICK z : z = job[h].zone
        OBVIOUS
      <3>2. /\ job[h].pc \in {"recordPut", "recordDelete"} /\ failures' # failures /\ Return(h)
        BY <2>12, Counters DEF ReplyLost, WriteRecord, EraseRecord
      <3>3. job'[h].pc = "idle" /\ z \in Zones
        BY <3>1, <3>2, IdleOK, IdleFields DEF IInv, HandlerOK, Shape, OnZone, Labels
      <3>4. CutShort(z)
        BY <3>1, <3>2, <3>3 DEF CutShort, Writing, Creating
      <3> QED BY <2>2, <3>3, <3>4
    <2>13. CASE Calls(h) \/ EtcdFails(h)
      BY <2>4, <2>13 DEF Calls, CallCreateZone, CallDeleteZone, CallCreateRecord,
                         CallDeleteRecord, Call, EtcdFails
    <2>14. CASE \/ ZoneScan(h) \/ CascadeList(h) \/ CascadeRefused(h) \/ RecordZone(h)
                \/ RecordGet(h) \/ RecordGone(h) \/ CountGet(h)
      BY <2>4, <2>14 DEF ZoneScan, CascadeList, CascadeRefused, RecordZone, RecordGet,
                         RecordGone, CountGet
    <2> QED BY <2>5, <2>6, <2>7, <2>8, <2>9, <2>10, <2>11, <2>12, <2>13, <2>14 DEF Proceed
  <1> QED BY IInvAlways, <1>1, <1>2, PTL DEF Spec, ImplementsMemory

(* The memory store's three invariants, of what etcd holds: until          *)
(* something races, every record names a zone that exists, a name has one  *)
(* zone, and a count, with what calls in progress still owe it, is the     *)
(* number of records, whatever calls of several handlers are under way.    *)
THEOREM StoreKeepsMemoryInvariants ==
    Spec => [](raced = {} /\ contested = {} =>
                 Memory!ForeignKeys /\ Memory!NamesInLockstep /\ Memory!CountsAccurate)
  <1>1. IInv => (raced = {} /\ contested = {} =>
          Memory!ForeignKeys /\ Memory!NamesInLockstep /\ Memory!CountsAccurate)
    <2> SUFFICES ASSUME IInv, raced = {}, contested = {}
                 PROVE  Memory!ForeignKeys /\ Memory!NamesInLockstep /\ Memory!CountsAccurate
      OBVIOUS
    <2>1. Clean /\ TypeOK
      BY CleanNow DEF IInv
    <2>2. ASSUME NEW z \in Zones
          PROVE  /\ (zoneOf(z) # NoZone) <=> (zones[z] # NoZone)
                 /\ zones[z] # NoZone => /\ zones[z].name \in Names
                                         /\ zoneOf(z).name = zones[z].name
                                         /\ zoneOf(z).records = Cardinality(recordsOf(z))
      <3>1. CASE zones[z] = NoZone
        BY <3>1 DEF zoneOf
      <3>2. CASE zones[z] # NoZone
        <4>1. zones[z] \in ZoneRow /\ zones[z].name \in Names
          BY <2>1, <3>2 DEF TypeOK, ZoneRow
        <4>2. zoneOf(z) = Stored(zones[z], recordsOf(z))
          BY <2>1 DEF Clean
        <4>3. zoneOf(z) # NoZone /\ zoneOf(z).name = zones[z].name
          BY <4>1, <4>2, StoredPresent
        <4>4. zoneOf(z).records = Cardinality(recordsOf(z))
          BY <3>2, <4>2 DEF Stored
        <4> QED BY <3>2, <4>1, <4>3, <4>4
      <3> QED BY <3>1, <3>2
    <2>3. Memory!ForeignKeys
      <3>1. ASSUME NEW r \in Records, records[r] # NoZone
            PROVE  records[r] \in Zones /\ zones[records[r]] # NoZone
        BY <2>1, <3>1 DEF TypeOK, Clean, recordsOf
      <3> QED BY <2>2, <3>1 DEF Memory!ForeignKeys, recordsOf
    <2>4. Memory!NamesInLockstep
      <3>1. ASSUME NEW z \in Zones, zones[z] # NoZone PROVE ownerOf(zones[z].name) = z
        <4>1. nameOwners(zones[z].name) = {z}
          BY <3>1 DEF IInv, NamesOK, nameOwners
        <4> QED BY <4>1, OwnerIsSole
      <3>2. ASSUME NEW n \in Names, ownerOf(n) # NoZone
            PROVE  ownerOf(n) \in Zones /\ zones[ownerOf(n)] # NoZone /\ zones[ownerOf(n)].name = n
        BY <3>2 DEF ownerOf, nameOwners
      <3> QED BY <2>2, <3>1, <3>2 DEF Memory!NamesInLockstep
    <2>5. Memory!CountsAccurate
      BY <2>2, SameCardinality DEF Memory!CountsAccurate, recordsOf
    <2> QED BY <2>3, <2>4, <2>5
  <1> QED BY <1>1, IInvAlways, PTL
===============================================================================
