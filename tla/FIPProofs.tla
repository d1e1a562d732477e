------------------------------ MODULE FIPProofs ------------------------------
(***************************************************************************)
(* Proofs about the floating-IP index (FIPIndex) and its two feeders       *)
(* (FIPSync), for any finite set of FIPs and any networks and addresses,   *)
(* and about the election that decides where the feeders run               *)
(* (LeaderElection), for any set of instances and any number of sessions,  *)
(* lost sessions, failed requests and stops.                               *)
(*                                                                         *)
(* The index: the inductive invariant is typing plus the lockstep of       *)
(* netUUID with byUUID plus the accuracy of the gauge where the present    *)
(* term has set it: the gauge of an untouched network stays as right as it *)
(* was only because netUUID tells exactly which entries are on it.         *)
(*                                                                         *)
(* The feeders: no change of the index goes unannounced, for any           *)
(* interleaving of the subscriber and the poller, except on a network that *)
(* an event moved a FIP off.                                               *)
(*                                                                         *)
(* The election: no two terms whose keys are both in etcd run the feeders. *)
(***************************************************************************)
EXTENDS FIPSync, LeaderElection, FiniteSetTheorems, TLAPS

(* The active FIPs of network n, read off the primary map alone. *)
ActiveOf(table, n) ==
    {f \in FIPs : /\ table[f] # NoEntry
                  /\ table[f].network = n
                  /\ table[f].mapped
                  /\ table[f].address # NoAddress}

IInv == TypeOK /\ NetIndexInLockstep /\ GaugeTracksUnlessElder

-----------------------------------------------------------------------------
(* An index in lockstep answers from netUUID what byUUID says. *)
LEMMA ActiveFromTable ==
    ASSUME NEW i \in IndexType, Lockstep(i), NEW n \in Networks
    PROVE  activeFIPs(i, n) = ActiveOf(i.byUUID, n)
  BY DEF Lockstep, entriesOf, activeFIPs, ActiveOf, IndexType

(* The address set of a network is the one its table announces. *)
LEMMA AddrsFromTable ==
    ASSUME NEW i \in IndexType, Lockstep(i), NEW n \in Networks
    PROVE  activeAddrs(i, n) = TableAddrs(i.byUUID, n)
  BY ActiveFromTable DEF activeAddrs, TableAddrs, ActiveOf

(* The gauge value the code writes is a natural number. *)
LEMMA ActiveCountIsNat ==
    ASSUME NEW i \in IndexType, NEW n \in Networks
    PROVE  Cardinality(activeFIPs(i, n)) \in Nat
  <1>1. activeFIPs(i, n) \subseteq FIPs
    BY DEF activeFIPs, IndexType
  <1>2. IsFiniteSet(activeFIPs(i, n))
    BY <1>1, FIPsAssumption, FS_Subset
  <1> QED BY <1>2, FS_CardinalityType

(* Removing an entry keeps the types and the lockstep. *)
LEMMA UnindexCorrect ==
    ASSUME NEW i \in IndexType, Lockstep(i), NEW f \in FIPs, i.byUUID[f] # NoEntry
    PROVE  LET u == unindexLocked(i, f, i.byUUID[f])
           IN /\ u \in IndexType
              /\ Lockstep(u)
              /\ u.byUUID = [i.byUUID EXCEPT ![f] = NoEntry]
  <1> DEFINE e == i.byUUID[f]
             u == unindexLocked(i, f, e)
  <1>1. e \in Entry
    BY DEF IndexType, Tables
  <1>2. u.byUUID = [i.byUUID EXCEPT ![f] = NoEntry] /\ u.byUUID \in Tables
    BY DEF unindexLocked, IndexType, Tables
  <1>3. u.byAddr \in [AddrKeys -> FIPs \union {NoFIP}]
    BY <1>1 DEF unindexLocked, IndexType, AddrKeys, Entry
  <1>4. u.netUUID \in [Networks -> SUBSET FIPs]
    BY <1>1 DEF unindexLocked, IndexType, Entry
  <1>5. u \in IndexType
    BY <1>2, <1>3, <1>4 DEF unindexLocked, IndexType
  <1>6. ASSUME NEW n \in Networks
        PROVE  u.netUUID[n] = entriesOf(u, n)
    <2>1. i.netUUID[n] = entriesOf(i, n)
      BY DEF Lockstep
    <2>2. CASE e.network = n
      <3>1. u.netUUID[n] = i.netUUID[n] \ {f}
        BY <2>2, EntryAssumption DEF unindexLocked, IndexType
      <3>2. entriesOf(u, n) = entriesOf(i, n) \ {f}
        BY <1>2 DEF entriesOf, IndexType, Tables
      <3> QED BY <2>1, <3>1, <3>2
    <2>3. CASE e.network # n
      <3>1. u.netUUID[n] = i.netUUID[n]
        BY <2>3, <1>1 DEF unindexLocked, IndexType, Entry
      <3>2. entriesOf(u, n) = entriesOf(i, n)
        BY <2>3, <1>2 DEF entriesOf, IndexType, Tables
      <3> QED BY <2>1, <3>1, <3>2
    <2> QED BY <2>2, <2>3
  <1> QED BY <1>2, <1>5, <1>6 DEF Lockstep

(* Recording an entry for a UUID that has none keeps types and lockstep. *)
LEMMA IndexCorrect ==
    ASSUME NEW i \in IndexType, Lockstep(i), NEW f \in FIPs, i.byUUID[f] = NoEntry,
           NEW e \in Entry
    PROVE  LET u == indexLocked(i, f, e)
           IN /\ u \in IndexType
              /\ Lockstep(u)
              /\ u.byUUID = [i.byUUID EXCEPT ![f] = e]
  <1> DEFINE u == indexLocked(i, f, e)
  <1>2. u.byUUID = [i.byUUID EXCEPT ![f] = e] /\ u.byUUID \in Tables
    BY DEF indexLocked, IndexType, Tables
  <1>3. u.byAddr \in [AddrKeys -> FIPs \union {NoFIP}]
    BY DEF indexLocked, IndexType, AddrKeys, Entry
  <1>4. u.netUUID \in [Networks -> SUBSET FIPs]
    BY DEF indexLocked, IndexType, Entry
  <1>5. u \in IndexType
    BY <1>2, <1>3, <1>4 DEF indexLocked, IndexType
  <1>6. ASSUME NEW n \in Networks
        PROVE  u.netUUID[n] = entriesOf(u, n)
    <2>1. i.netUUID[n] = entriesOf(i, n)
      BY DEF Lockstep
    <2>2. CASE e.network = n
      <3>1. u.netUUID[n] = i.netUUID[n] \union {f}
        BY <2>2, EntryAssumption DEF indexLocked, IndexType
      <3>2. entriesOf(u, n) = entriesOf(i, n) \union {f}
        BY <2>2, <1>2, EntryAssumption DEF entriesOf, IndexType, Tables
      <3> QED BY <2>1, <3>1, <3>2
    <2>3. CASE e.network # n
      <3>1. u.netUUID[n] = i.netUUID[n]
        BY <2>3 DEF indexLocked, IndexType, Entry
      <3>2. entriesOf(u, n) = entriesOf(i, n)
        BY <2>3, <1>2 DEF entriesOf, IndexType, Tables
      <3> QED BY <2>1, <3>1, <3>2
    <2> QED BY <2>2, <2>3
  <1> QED BY <1>2, <1>5, <1>6 DEF Lockstep

(* Rebuilding from a snapshot gives a well-typed index in lockstep. *)
LEMMA RebuiltCorrect ==
    ASSUME NEW table \in Tables, NEW w \in Winners
    PROVE  LET u == Rebuilt(table, w)
           IN /\ u \in IndexType
              /\ Lockstep(u)
              /\ u.byUUID = table
  <1> DEFINE u == Rebuilt(table, w)
  <1>1. \A k \in AddrKeys : owners(table, k) \in SUBSET FIPs
    BY DEF owners
  <1>2. \A S \in (SUBSET FIPs) \ {{}} : w[S] \in FIPs
    BY DEF Winners
  <1>3. u.byAddr \in [AddrKeys -> FIPs \union {NoFIP}]
    BY <1>1, <1>2 DEF Rebuilt
  <1>4. u.netUUID \in [Networks -> SUBSET FIPs]
    BY DEF Rebuilt
  <1>5. u \in IndexType
    BY <1>3, <1>4 DEF Rebuilt, IndexType
  <1>6. Lockstep(u)
    BY DEF Lockstep, entriesOf, Rebuilt
  <1> QED BY <1>5, <1>6 DEF Rebuilt

-----------------------------------------------------------------------------
(* What an operation has to establish, given the index it leaves behind    *)
(* and the networks whose gauge it recomputed: the gauge's part of IInv    *)
(* carries over when no entry of any other network has changed.            *)
GaugePart == /\ gauge \in [Networks -> Nat]
             /\ later \in BOOLEAN /\ elder \subseteq Networks
             /\ ~later => elder = {}
             /\ GaugeTracksUnlessElder

LEMMA GaugeCarriesOver ==
    ASSUME IInv, idx' \in IndexType, Lockstep(idx'), NEW touched,
           refreshGaugeLocked(idx', touched), Operated,
           \A n \in Networks \ touched :
               /\ ActiveOf(idx'.byUUID, n) = ActiveOf(idx.byUUID, n)
               /\ n \notin NetworksChanged(idx.byUUID, idx'.byUUID)
    PROVE  GaugePart'
  <1>1. ASSUME NEW n \in Networks, n \in touched
        PROVE  gauge'[n] = Cardinality(activeFIPs(idx', n))
    BY <1>1 DEF refreshGaugeLocked
  <1>2. ASSUME NEW n \in Networks, n \notin touched
        PROVE  /\ gauge'[n] = gauge[n]
               /\ activeFIPs(idx', n) = activeFIPs(idx, n)
               /\ n \in elder' <=> n \in elder
    <2>1. activeFIPs(idx', n) = activeFIPs(idx, n)
      BY <1>2, ActiveFromTable DEF IInv, TypeOK, NetIndexInLockstep
    <2>2. gauge'[n] = gauge[n]
      BY <1>2 DEF refreshGaugeLocked
    <2>3. n \in elder' <=> n \in elder
      BY <1>2 DEF Operated
    <2> QED BY <2>1, <2>2, <2>3
  <1>3. gauge' \in [Networks -> Nat]
    <2>1. gauge' = [n \in Networks |-> gauge'[n]]
      BY DEF refreshGaugeLocked
    <2>2. \A n \in Networks : gauge'[n] \in Nat
      BY <1>1, <1>2, ActiveCountIsNat DEF IInv, TypeOK
    <2> QED BY <2>1, <2>2
  <1>4. GaugeTracksUnlessElder'
    BY <1>1, <1>2 DEF IInv, GaugeTracksUnlessElder
  <1>5. later' \in BOOLEAN /\ elder' \subseteq Networks /\ (~later' => elder' = {})
    BY DEF IInv, TypeOK, Operated
  <1> QED BY <1>3, <1>4, <1>5 DEF GaugePart

(* Upsert preserves the invariant, whatever the entry was before. *)
LEMMA UpsertPreserves ==
    ASSUME IInv, NEW f \in FIPs, NEW e \in Entry, Upsert(f, e)
    PROVE  IInv'
  <1> DEFINE prev == idx.byUUID[f]
             base == IF prev = NoEntry THEN idx ELSE unindexLocked(idx, f, prev)
             touched == networksTouched(IF prev = NoEntry THEN e ELSE prev, e)
  <1>1. /\ idx \in IndexType
        /\ Lockstep(idx)
        /\ idx' = indexLocked(base, f, e)
        /\ refreshGaugeLocked(idx', touched)
        /\ Operated
        /\ delta' = delta
    BY DEF IInv, TypeOK, NetIndexInLockstep, Upsert
  <1>2. prev \in Entry \union {NoEntry}
    BY <1>1 DEF IndexType, Tables
  <1>3. base \in IndexType /\ Lockstep(base) /\ base.byUUID = [idx.byUUID EXCEPT ![f] = NoEntry]
    <2>1. CASE prev = NoEntry
      BY <2>1, <1>1 DEF IndexType, Tables
    <2>2. CASE prev # NoEntry
      BY <2>2, <1>1, UnindexCorrect
    <2> QED BY <2>1, <2>2
  <1>4. base.byUUID[f] = NoEntry
    BY <1>1, <1>3 DEF IndexType, Tables
  <1>5. idx' \in IndexType /\ Lockstep(idx') /\ idx'.byUUID = [base.byUUID EXCEPT ![f] = e]
    BY <1>1, <1>3, <1>4, IndexCorrect
  <1>6. idx'.byUUID = [idx.byUUID EXCEPT ![f] = e]
    BY <1>1, <1>3, <1>5 DEF IndexType, Tables
  <1>7. ASSUME NEW n \in Networks \ touched
        PROVE  /\ ActiveOf(idx'.byUUID, n) = ActiveOf(idx.byUUID, n)
               /\ n \notin NetworksChanged(idx.byUUID, idx'.byUUID)
    <2>1. e.network # n /\ (prev # NoEntry => prev.network # n)
      BY <1>7, EntryAssumption DEF networksTouched
    <2>2. f \notin ActiveOf(idx.byUUID, n) /\ f \notin ActiveOf(idx'.byUUID, n)
      BY <2>1, <1>1, <1>6 DEF ActiveOf, IndexType, Tables
    <2>3. \A g \in FIPs \ {f} : idx'.byUUID[g] = idx.byUUID[g]
      BY <1>1, <1>6 DEF IndexType, Tables
    <2>4. idx'.byUUID[f] = e
      BY <1>1, <1>6 DEF IndexType, Tables
    <2>5. n \notin NetworksChanged(idx.byUUID, idx'.byUUID)
      BY <2>1, <2>3, <2>4 DEF NetworksChanged
    <2> QED BY <2>2, <2>3, <2>5 DEF ActiveOf
  <1>8. GaugePart'
    BY <1>1, <1>5, <1>7, GaugeCarriesOver
  <1> QED BY <1>1, <1>5, <1>8 DEF IInv, TypeOK, NetIndexInLockstep, GaugePart

(* Delete preserves the invariant. *)
LEMMA DeletePreserves ==
    ASSUME IInv, NEW f \in FIPs, Delete(f)
    PROVE  IInv'
  <1> DEFINE prev == idx.byUUID[f]
  <1>1. idx \in IndexType /\ Lockstep(idx)
    BY DEF IInv, TypeOK, NetIndexInLockstep
  <1>2. CASE prev = NoEntry
    BY <1>2 DEF Delete, indexVars, IInv, TypeOK, NetIndexInLockstep, GaugeTracksUnlessElder
  <1>3. CASE prev # NoEntry
    <2>1. /\ idx' = unindexLocked(idx, f, prev)
          /\ refreshGaugeLocked(idx', {prev.network})
          /\ Operated
          /\ delta' = delta
      BY <1>3 DEF Delete
    <2>2. /\ idx' \in IndexType
          /\ Lockstep(idx')
          /\ idx'.byUUID = [idx.byUUID EXCEPT ![f] = NoEntry]
      BY <1>1, <1>3, <2>1, UnindexCorrect
    <2>3. ASSUME NEW n \in Networks \ {prev.network}
          PROVE  /\ ActiveOf(idx'.byUUID, n) = ActiveOf(idx.byUUID, n)
                 /\ n \notin NetworksChanged(idx.byUUID, idx'.byUUID)
      <3>1. ActiveOf(idx'.byUUID, n) = ActiveOf(idx.byUUID, n)
        BY <1>1, <2>2 DEF ActiveOf, IndexType, Tables
      <3>2. n \notin NetworksChanged(idx.byUUID, idx'.byUUID)
        BY <1>1, <2>2 DEF NetworksChanged, IndexType, Tables
      <3> QED BY <3>1, <3>2
    <2>4. GaugePart'
      BY <2>1, <2>2, <2>3, GaugeCarriesOver
    <2> QED BY <2>1, <2>2, <2>4 DEF IInv, TypeOK, NetIndexInLockstep, GaugePart
  <1> QED BY <1>2, <1>3

(* A network in neither snapshot's netUUID has no active FIP before or     *)
(* after, so leaving its gauge alone is right.                             *)
LEMMA ReplaceAllPreserves ==
    ASSUME IInv, NEW table \in Tables, ReplaceAll(table)
    PROVE  IInv' /\ idx'.byUUID = table
  <1> DEFINE touched == allNets(idx, idx')
  <1>1. idx \in IndexType /\ Lockstep(idx)
    BY DEF IInv, TypeOK, NetIndexInLockstep
  <1>2. PICK w \in Winners : idx' = Rebuilt(table, w)
    BY DEF ReplaceAll
  <1>3. idx' \in IndexType /\ Lockstep(idx') /\ idx'.byUUID = table
    BY <1>2, RebuiltCorrect
  <1>4. ASSUME NEW n \in Networks \ touched
        PROVE  /\ ActiveOf(idx'.byUUID, n) = ActiveOf(idx.byUUID, n)
               /\ n \notin NetworksChanged(idx.byUUID, idx'.byUUID)
    <2>1. idx.netUUID[n] = {} /\ idx'.netUUID[n] = {}
      BY <1>4 DEF allNets
    <2>2. activeFIPs(idx, n) = {} /\ activeFIPs(idx', n) = {}
      BY <2>1 DEF activeFIPs
    <2>3. entriesOf(idx, n) = {} /\ entriesOf(idx', n) = {}
      BY <2>1, <1>1, <1>3 DEF Lockstep
    <2>4. n \notin NetworksChanged(idx.byUUID, idx'.byUUID)
      BY <2>3 DEF entriesOf, NetworksChanged
    <2> QED BY <2>2, <2>4, <1>1, <1>3, ActiveFromTable
  <1>5. GaugePart'
    <2>1. refreshGaugeLocked(idx', touched) /\ Operated
      BY DEF ReplaceAll
    <2> QED BY <2>1, <1>3, <1>4, GaugeCarriesOver
  <1>6. delta' \in [added : SUBSET Networks, removed : SUBSET Networks, churned : SUBSET Networks]
    BY DEF ReplaceAll, Deltas
  <1> QED BY <1>3, <1>5, <1>6 DEF IInv, TypeOK, NetIndexInLockstep, GaugePart

-----------------------------------------------------------------------------
(* An empty Index is well typed, in lockstep and has nothing active. *)
LEMMA NewCorrect ==
    /\ New \in IndexType
    /\ Lockstep(New)
    /\ \A n \in Networks : Cardinality(activeFIPs(New, n)) = 0
  <1>1. New \in IndexType
    BY DEF New, IndexType, Tables
  <1>2. Lockstep(New)
    BY DEF New, Lockstep, entriesOf
  <1>3. \A n \in Networks : activeFIPs(New, n) = {}
    BY DEF New, activeFIPs
  <1> QED BY <1>1, <1>2, <1>3, FS_EmptySet

(* The first Index of a process, whose gauge has no labels. *)
LEMMA InitOK == Init => IInv
  <1> SUFFICES ASSUME Init PROVE IInv
    OBVIOUS
  <1>1. gauge \in [Networks -> Nat]
    BY DEF Init
  <1>2. GaugeTracksUnlessElder
    BY NewCorrect DEF Init, GaugeTracksUnlessElder
  <1> QED BY <1>1, <1>2, NewCorrect DEF Init, IInv, TypeOK, NetIndexInLockstep, NoDelta

(* A later term starts empty under the labels of the ones before: those    *)
(* that are not 0 are not its own.                                         *)
LEMMA NewTermPreserves ==
    ASSUME IInv, NewTerm
    PROVE  IInv'
  <1>1. GaugeTracksUnlessElder'
    BY NewCorrect DEF NewTerm, GaugeTracksUnlessElder
  <1>2. TypeOK'
    BY NewCorrect DEF NewTerm, IInv, TypeOK, NoDelta
  <1> QED BY <1>1, <1>2, NewCorrect DEF NewTerm, IInv, NetIndexInLockstep

(* A late write of an ended term is marked as one. *)
LEMMA LateRefreshPreserves ==
    ASSUME IInv, LateRefresh
    PROVE  IInv'
  <1>1. gauge' \in [Networks -> Nat]
    BY FIPsAssumption, FS_CardinalityType DEF LateRefresh
  <1>2. GaugeTracksUnlessElder'
    BY DEF LateRefresh, IInv, GaugeTracksUnlessElder
  <1> QED BY <1>1, <1>2 DEF LateRefresh, IInv, TypeOK, NetIndexInLockstep

(* The inductive invariant holds of every behaviour of the index. *)
THEOREM IndexInvariant == Spec => []IInv
  <1>2. IInv /\ [Next]_indexVars => IInv'
    <2> SUFFICES ASSUME IInv, [Next]_indexVars PROVE IInv'
      OBVIOUS
    <2>1. CASE \E f \in FIPs, e \in Entry : Upsert(f, e)
      BY <2>1, UpsertPreserves
    <2>2. CASE \E f \in FIPs : Delete(f)
      BY <2>2, DeletePreserves
    <2>3. CASE \E table \in Tables : ReplaceAll(table)
      BY <2>3, ReplaceAllPreserves
    <2>4. CASE UNCHANGED indexVars
      BY <2>4 DEF indexVars, IInv, TypeOK, NetIndexInLockstep, GaugeTracksUnlessElder
    <2>5. CASE NewTerm
      BY <2>5, NewTermPreserves
    <2>6. CASE LateRefresh
      BY <2>6, LateRefreshPreserves
    <2> QED BY <2>1, <2>2, <2>3, <2>4, <2>5, <2>6 DEF Next
  <1> QED BY <1>2, InitOK, PTL DEF Spec

(* Type correctness of the Index struct, the gauge and ReplaceAll's result. *)
THEOREM TypeCorrect == Spec => []TypeOK
  BY IndexInvariant, PTL DEF IInv

(* netUUID stays in lockstep with byUUID (index.go:76-78). *)
THEOREM NetIndexStaysInLockstep == Spec => []NetIndexInLockstep
  BY IndexInvariant, PTL DEF IInv

(* Through any number of terms of a process, the gauge of a network (see   *)
(* metrics.go) is the number of its active FIPs, unless it was set in an   *)
(* earlier term, or late by a loop of one, and no entry of the network has *)
(* changed since.                                                          *)
THEOREM GaugeStaysAccurate == Spec => []GaugeTracksUnlessElder
  BY IndexInvariant, PTL DEF IInv

(* ActiveFIPsInNetworks returns the addresses of the mapped entries on the *)
(* networks asked for, and nothing else.                                   *)
THEOREM LookupIsExact == Spec => []LookupMatchesEntries
  <1>1. IInv => LookupMatchesEntries
    <2> SUFFICES ASSUME IInv, NEW nets \in SUBSET Networks
                 PROVE  ActiveFIPsInNetworks(nets)
                          = UNION {TableAddrs(idx.byUUID, n) : n \in nets}
      BY DEF LookupMatchesEntries
    <2>1. \A n \in nets : activeAddrs(idx, n) = TableAddrs(idx.byUUID, n)
      BY AddrsFromTable DEF IInv, TypeOK, NetIndexInLockstep
    <2>2. nets \intersect Networks = nets
      OBVIOUS
    <2> QED BY <2>1, <2>2 DEF ActiveFIPsInNetworks
  <1> QED BY <1>1, IndexInvariant, PTL

(* ReplaceAll reports exactly the networks whose announce set changed.     *)
THEOREM ReplaceAllIsExact == Spec => ReplaceAllReportsChanges
  <1>1. ASSUME IInv, IInv', ReplaceAll(idx'.byUUID)
        PROVE  Reported(delta')
                 = {n \in Networks : TableAddrs(idx.byUUID, n) # TableAddrs(idx.byUUID, n)'}
    <2>1. \A n \in Networks : activeAddrs(idx, n) = TableAddrs(idx.byUUID, n)
      BY <1>1, AddrsFromTable DEF IInv, TypeOK, NetIndexInLockstep
    <2>2. \A n \in Networks : activeAddrs(idx', n) = TableAddrs(idx'.byUUID, n)
      BY <1>1, AddrsFromTable DEF IInv, TypeOK, NetIndexInLockstep
    <2>3. delta' = Deltas(idx, idx')
      BY <1>1 DEF ReplaceAll
    <2> QED BY <2>1, <2>2, <2>3 DEF Reported, Deltas
  <1>2. IInv /\ IInv' => (ReplaceAll(idx'.byUUID) =>
          Reported(delta')
            = {n \in Networks : TableAddrs(idx.byUUID, n) # TableAddrs(idx.byUUID, n)'})
    BY <1>1
  <1> QED BY <1>2, IndexInvariant, PTL DEF ReplaceAllReportsChanges

-----------------------------------------------------------------------------
(* The feeders *)

(* Every copy of a FIP's record, in weft, in the index, in a fetched       *)
(* listing or in an event, names one of the networks weft reports it on.   *)
HomesIn(table) == \A f \in FIPs : table[f] # NoEntry => table[f].network \in NetworksOf[f]

Homes == /\ HomesIn(truth)
         /\ HomesIn(snapshot)
         /\ HomesIn(idx.byUUID)
         /\ \A k \in 1..Len(bus) : bus[k].kind # "other"
                                     => bus[k].network \in NetworksOf[bus[k].fip]

SyncInv == IInv /\ SyncTypeOK /\ Homes

-----------------------------------------------------------------------------
(* What the callback reads is a set of addresses. *)
LEMMA CallbackReadsAddresses ==
    ASSUME IInv, NEW n \in Networks
    PROVE  activeAddrs(idx, n) \in SUBSET Addresses
  <1>1. activeAddrs(idx, n) = TableAddrs(idx.byUUID, n) /\ idx.byUUID \in Tables
    BY AddrsFromTable DEF IInv, TypeOK, NetIndexInLockstep, IndexType
  <1> QED BY <1>1 DEF TableAddrs, Tables, Entry

(* After Upsert byUUID holds the new entry for f and is otherwise as before. *)
LEMMA UpsertTable ==
    ASSUME IInv, NEW f \in FIPs, NEW e \in Entry, Upsert(f, e)
    PROVE  idx'.byUUID = [idx.byUUID EXCEPT ![f] = e] /\ delta' = delta
  BY DEF IInv, TypeOK, IndexType, Tables, Upsert, indexLocked, unindexLocked

(* After Delete byUUID has no entry for f and is otherwise as before. *)
LEMMA DeleteTable ==
    ASSUME IInv, NEW f \in FIPs, Delete(f)
    PROVE  idx'.byUUID = [idx.byUUID EXCEPT ![f] = NoEntry] /\ delta' = delta
  BY DEF IInv, TypeOK, IndexType, Tables, Delete, unindexLocked, indexVars

(* A step that changes only weft and the bus keeps the invariant. *)
LEMMA WeftPreserves ==
    ASSUME SyncInv, NEW f \in FIPs, NEW kind \in Kinds, NEW e,
           e.network \in Networks \union {NoNetwork},
           e.address \in Addresses \union {NoAddress},
           kind # "other" => e.network \in NetworksOf[f],
           WeftChange(kind, f, e),
           truth' \in Tables, HomesIn(truth'), released' \subseteq FIPs
    PROVE  SyncInv'
  <1> DEFINE ev == [kind |-> kind, fip |-> f, network |-> e.network, address |-> e.address]
  <1>a. ev \in Event /\ bus \in Seq(Event)
    BY DEF Event, SyncInv, SyncTypeOK
  <1>b. ev.kind # "other" => ev.network \in NetworksOf[ev.fip]
    OBVIOUS
  <1>c. bus' = bus \/ bus' = Append(bus, ev)
    BY DEF WeftChange, Emit
  <1> HIDE DEF ev
  <1>1. bus' \in Seq(Event)
    BY <1>a, <1>c
  <1>2. \A k \in 1..Len(bus') : bus'[k].kind # "other"
                                  => bus'[k].network \in NetworksOf[bus'[k].fip]
    <2>1. CASE bus' = bus
      BY <2>1 DEF SyncInv, Homes
    <2>2. CASE bus' = Append(bus, ev)
      <3>1. /\ Len(bus') = Len(bus) + 1
            /\ \A k \in 1..Len(bus) : bus'[k] = bus[k]
            /\ bus'[Len(bus) + 1] = ev
            /\ Len(bus) \in Nat
        BY <1>a, <2>2
      <3> QED BY <1>b, <3>1 DEF SyncInv, Homes
    <2> QED BY <1>c, <2>1, <2>2
  <1>3. ops' \in 0..MaxOps
    BY MaxOpsAssumption DEF WeftChange, SyncInv, SyncTypeOK
  <1>4. UNCHANGED <<indexVars, subVars, pollVars, callVars>>
    BY DEF WeftChange
  <1>5. IInv'
    BY <1>4 DEF SyncInv, IInv, TypeOK, NetIndexInLockstep, GaugeTracksUnlessElder, indexVars
  <1>6. SyncTypeOK'
    BY <1>1, <1>3, <1>4, <1>5 DEF SyncInv, SyncTypeOK, subVars, pollVars, callVars, indexVars, IInv
  <1>7. Homes'
    BY <1>2, <1>4 DEF SyncInv, Homes, HomesIn, pollVars, indexVars
  <1> QED BY <1>5, <1>6, <1>7 DEF SyncInv

(* Dropping the oldest event keeps the bus well-formed. *)
LEMMA TailOfBus ==
    ASSUME SyncInv, bus # <<>>, bus' = Tail(bus)
    PROVE  /\ bus' \in Seq(Event)
           /\ \A k \in 1..Len(bus') : bus'[k].kind # "other"
                                        => bus'[k].network \in NetworksOf[bus'[k].fip]
           /\ Head(bus) \in Event
           /\ Head(bus).kind # "other" => Head(bus).network \in NetworksOf[Head(bus).fip]
  <1>1. bus \in Seq(Event)
    BY DEF SyncInv, SyncTypeOK
  <1>2. /\ Head(bus) = bus[1] /\ 1 \in 1..Len(bus)
        /\ bus' \in Seq(Event)
        /\ Len(bus') = Len(bus) - 1
        /\ \A k \in 1..Len(bus') : bus'[k] = bus[k + 1] /\ k + 1 \in 1..Len(bus)
        /\ Head(bus) \in Event
    BY <1>1
  <1> QED BY <1>2 DEF SyncInv, Homes

-----------------------------------------------------------------------------
(* Each step of the two loops keeps the invariant. *)
LEMMA handlePreserves ==
    ASSUME SyncInv, handle
    PROVE  SyncInv'
  <1> DEFINE ev == Head(bus)
             entry == [network |-> ev.network, address |-> ev.address,
                       mapped |-> ev.kind = "mapped"]
             prev == idx.byUUID[ev.fip]
  <1>1. bus # <<>> /\ bus' = Tail(bus) /\ UNCHANGED <<weftVars, subscribed, pollVars, told>>
    BY DEF handle
  <1>2. /\ bus' \in Seq(Event)
        /\ \A k \in 1..Len(bus') : bus'[k].kind # "other"
                                     => bus'[k].network \in NetworksOf[bus'[k].fip]
        /\ ev \in Event
        /\ ev.kind # "other" => ev.network \in NetworksOf[ev.fip]
    BY <1>1, TailOfBus
  <1>3. entry \in Entry /\ ev.fip \in FIPs
    BY <1>2 DEF Entry, Event
  <1>4. prev \in Entry \union {NoEntry} /\ idx.byUUID \in Tables
    BY <1>3 DEF SyncInv, IInv, TypeOK, IndexType, Tables
  <1>5. /\ IInv'
        /\ delta' = delta
        /\ HomesIn(idx'.byUUID)
        /\ subTodo' = {} \/ \E n \in Networks : subTodo' = {n}
        /\ left' \subseteq Networks
    <2>1. CASE /\ ev.kind \in {"allocated", "mapped", "unmapped"}
               /\ Upsert(ev.fip, entry)
               /\ subTodo' = {entry.network} \ {NoNetwork}
               /\ left' = left \union MovedOff(ev.fip, entry.network)
      <3>1. IInv'
        BY <2>1, <1>3, UpsertPreserves DEF SyncInv
      <3>2. idx'.byUUID = [idx.byUUID EXCEPT ![ev.fip] = entry] /\ delta' = delta
        BY <2>1, <1>3, UpsertTable DEF SyncInv
      <3>3. HomesIn(idx'.byUUID)
        BY <3>2, <2>1, <1>2, <1>3, <1>4 DEF HomesIn, SyncInv, Homes, Tables
      <3>4. subTodo' = {} \/ \E n \in Networks : subTodo' = {n}
        BY <2>1, <1>3 DEF Entry
      <3>5. left' \subseteq Networks
        BY <2>1 DEF MovedOff, SyncInv, SyncTypeOK
      <3> QED BY <3>1, <3>2, <3>3, <3>4, <3>5
    <2>2. CASE /\ ev.kind = "released"
               /\ Delete(ev.fip)
               /\ subTodo' = (IF prev = NoEntry THEN {} ELSE {prev.network}) \ {NoNetwork}
               /\ left' = left
      <3>1. IInv'
        BY <2>2, <1>3, DeletePreserves DEF SyncInv
      <3>2. idx'.byUUID = [idx.byUUID EXCEPT ![ev.fip] = NoEntry] /\ delta' = delta
        BY <2>2, <1>3, DeleteTable DEF SyncInv
      <3>3. HomesIn(idx'.byUUID)
        BY <3>2, <1>3, <1>4 DEF HomesIn, SyncInv, Homes, Tables
      <3>4. subTodo' = {} \/ \E n \in Networks : subTodo' = {n}
        BY <2>2, <1>4 DEF Entry
      <3> QED BY <2>2, <3>1, <3>2, <3>3, <3>4 DEF SyncInv, SyncTypeOK
    <2>3. CASE ev.kind = "other" /\ UNCHANGED <<indexVars, subTodo, left>>
      BY <2>3 DEF SyncInv, SyncTypeOK, Homes, HomesIn, indexVars,
                  IInv, TypeOK, NetIndexInLockstep, GaugeTracksUnlessElder
    <2> QED BY <2>1, <2>2, <2>3 DEF handle
  <1>6. SyncTypeOK'
    BY <1>1, <1>2, <1>5 DEF SyncInv, SyncTypeOK, IInv, weftVars, pollVars
  <1>7. Homes'
    BY <1>1, <1>2, <1>5 DEF SyncInv, Homes, HomesIn, weftVars, pollVars
  <1> QED BY <1>5, <1>6, <1>7 DEF SyncInv

(* The callback of either loop changes only what it was told. *)
LEMMA NotifyPreserves ==
    ASSUME SyncInv, handleNotify \/ tickNotify
    PROVE  SyncInv'
  <1>1. PICK n \in Networks : onChange(n)
    BY DEF handleNotify, tickNotify, SyncInv, SyncTypeOK, TypeOK, Reported
  <1>2. told' \in [Networks -> SUBSET Addresses] /\ left' \subseteq Networks
    BY <1>1, CallbackReadsAddresses DEF onChange, SyncInv, SyncTypeOK
  <1>3. UNCHANGED <<idx, gauge, later, elder, weftVars, bus, subscribed, pollVars>>
    BY DEF handleNotify, tickNotify, indexVars, subVars
  <1>4. /\ delta' \in [added : SUBSET Networks, removed : SUBSET Networks,
                       churned : SUBSET Networks]
        /\ Reported(delta') \subseteq Reported(delta)
        /\ subTodo' \subseteq subTodo
    BY DEF handleNotify, tickNotify, Handed, Reported, indexVars, subVars,
           SyncInv, SyncTypeOK, TypeOK
  <1>5. IInv'
    BY <1>3, <1>4 DEF SyncInv, IInv, TypeOK, NetIndexInLockstep, GaugeTracksUnlessElder
  <1>6. SyncTypeOK'
    BY <1>2, <1>3, <1>4, <1>5 DEF SyncInv, SyncTypeOK, IInv, weftVars, pollVars
  <1>7. Homes'
    BY <1>3 DEF SyncInv, Homes, HomesIn, weftVars, pollVars
  <1> QED BY <1>5, <1>6, <1>7 DEF SyncInv

(* Applying a fetched listing keeps the invariant. *)
LEMMA tickReplacePreserves ==
    ASSUME SyncInv, tickReplace
    PROVE  SyncInv'
  <1>1. snapshot \in Tables /\ IInv /\ ReplaceAll(snapshot)
    BY DEF tickReplace, SyncInv, SyncTypeOK
  <1>2. IInv' /\ idx'.byUUID = snapshot
    BY <1>1, ReplaceAllPreserves
  <1>3. snapshot' = EmptyTable /\ snapshot' \in Tables /\ HomesIn(snapshot')
    BY DEF tickReplace, EmptyTable, Tables, HomesIn
  <1>4. pollPC' = "notify" /\ UNCHANGED <<weftVars, bus, subVars, seeded, callVars>>
    BY DEF tickReplace
  <1>5. SyncTypeOK'
    BY <1>2, <1>3, <1>4 DEF SyncInv, SyncTypeOK, IInv, weftVars, subVars, callVars
  <1>6. Homes'
    BY <1>2, <1>3, <1>4 DEF SyncInv, Homes, HomesIn, weftVars
  <1> QED BY <1>2, <1>5, <1>6 DEF SyncInv

(* The steps that only move a loop along. *)
LEMMA ControlPreserves ==
    ASSUME SyncInv, LoseEvent \/ Subscribe \/ tickFetch \/ tickError \/ tickDone
                      \/ UNCHANGED syncVars
    PROVE  SyncInv'
  <1>1. /\ UNCHANGED <<indexVars, weftVars, subTodo, callVars>>
        /\ subscribed' \in BOOLEAN /\ seeded' \in BOOLEAN
        /\ snapshot' \in {snapshot, truth}
        /\ pollPC' \in {"idle", "fetched", "notify"}
        /\ Reported(delta) # {} => pollPC' = "notify"
        /\ bus' = bus \/ (bus # <<>> /\ bus' = Tail(bus))
    BY DEF LoseEvent, Subscribe, tickFetch, tickError, tickDone, syncVars, indexVars,
           weftVars, subVars, pollVars, SyncInv, SyncTypeOK
  <1>2. /\ bus' \in Seq(Event)
        /\ \A k \in 1..Len(bus') : bus'[k].kind # "other"
                                     => bus'[k].network \in NetworksOf[bus'[k].fip]
    BY <1>1, TailOfBus DEF SyncInv, SyncTypeOK, Homes
  <1>3. IInv'
    BY <1>1 DEF SyncInv, IInv, TypeOK, NetIndexInLockstep, GaugeTracksUnlessElder, indexVars
  <1>4. SyncTypeOK'
    BY <1>1, <1>2, <1>3 DEF SyncInv, SyncTypeOK, IInv, weftVars, callVars, indexVars
  <1>5. Homes'
    BY <1>1, <1>2 DEF SyncInv, Homes, HomesIn, weftVars, indexVars
  <1> QED BY <1>3, <1>4, <1>5 DEF SyncInv

(* Each kind of change weft makes satisfies the assumptions of WeftPreserves. *)
LEMMA WeftStepPreserves ==
    ASSUME SyncInv, Weft
    PROVE  SyncInv'
  <1>1. PICK f \in FIPs : Allocate(f) \/ Map(f) \/ Unmap(f) \/ Release(f) \/ OtherEvent(f)
    BY DEF Weft
  <1>2. truth \in Tables /\ HomesIn(truth) /\ released \subseteq FIPs
    BY DEF SyncInv, SyncTypeOK, Homes
  <1>3. NetworksOf[f] \subseteq Networks \union {NoNetwork}
    BY NetworksOfAssumption
  <1>4. CASE Allocate(f)
    <2>1. PICK n \in NetworksOf[f], a \in Addresses :
            LET e == [network |-> n, address |-> a, mapped |-> FALSE]
            IN truth' = [truth EXCEPT ![f] = e] /\ WeftChange("allocated", f, e)
      BY <1>4 DEF Allocate
    <2> DEFINE e == [network |-> n, address |-> a, mapped |-> FALSE]
    <2>2. e \in Entry
      BY <1>3 DEF Entry
    <2>3. truth' \in Tables /\ HomesIn(truth')
      BY <2>1, <2>2, <1>2 DEF Tables, HomesIn
    <2> QED BY <2>1, <2>3, <1>2, <1>3, <1>4, WeftPreserves DEF Allocate, Kinds
  <1>5. CASE Map(f)
    <2>1. PICK n \in NetworksOf[f] :
            LET e == [network |-> n, address |-> truth[f].address, mapped |-> TRUE]
            IN truth' = [truth EXCEPT ![f] = e] /\ WeftChange("mapped", f, e)
      BY <1>5 DEF Map
    <2> DEFINE e == [network |-> n, address |-> truth[f].address, mapped |-> TRUE]
    <2>2. e \in Entry
      BY <1>2, <1>3, <1>5 DEF Entry, Map, Tables
    <2>3. truth' \in Tables /\ HomesIn(truth')
      BY <2>1, <2>2, <1>2 DEF Tables, HomesIn
    <2>4. e.address \in Addresses \union {NoAddress} /\ e.network \in NetworksOf[f]
      BY <2>2 DEF Entry
    <2> QED BY <2>1, <2>3, <2>4, <1>2, <1>3, <1>5, WeftPreserves DEF Map, Kinds
  <1>6. CASE Unmap(f)
    <2> DEFINE e == [network |-> truth[f].network, address |-> truth[f].address,
                     mapped |-> FALSE]
    <2>1. truth[f] # NoEntry /\ truth' = [truth EXCEPT ![f] = e] /\ WeftChange("unmapped", f, e)
      BY <1>6 DEF Unmap
    <2>2. e \in Entry
      BY <1>2, <2>1 DEF Entry, Tables
    <2>3. truth' \in Tables /\ HomesIn(truth')
      BY <2>1, <2>2, <1>2 DEF Tables, HomesIn
    <2>4. /\ e.address \in Addresses \union {NoAddress}
          /\ e.network \in NetworksOf[f]
      BY <2>1, <2>2, <1>2 DEF Entry, HomesIn
    <2> QED BY <2>1, <2>3, <2>4, <1>2, <1>3, <1>6, WeftPreserves DEF Unmap, Kinds
  <1>7. CASE Release(f)
    <2> DEFINE e == truth[f]
    <2>1. /\ e # NoEntry
          /\ truth' = [truth EXCEPT ![f] = NoEntry]
          /\ WeftChange("released", f, e)
          /\ released' = released \union {f}
      BY <1>7 DEF Release
    <2>2. e \in Entry /\ e.network \in NetworksOf[f]
      BY <1>2, <2>1 DEF Tables, HomesIn
    <2>3. truth' \in Tables /\ HomesIn(truth') /\ released' \subseteq FIPs
      BY <2>1, <1>2 DEF Tables, HomesIn
    <2>4. e.address \in Addresses \union {NoAddress}
      BY <2>2 DEF Entry
    <2> QED BY <2>1, <2>2, <2>3, <2>4, <1>3, WeftPreserves DEF Kinds
  <1>8. CASE OtherEvent(f)
    BY <1>2, <1>8, WeftPreserves DEF OtherEvent, Kinds
  <1> QED BY <1>1, <1>4, <1>5, <1>6, <1>7, <1>8

(* The initial state satisfies the invariant. *)
LEMMA SyncInitOK == SyncInit => SyncInv
  <1> SUFFICES ASSUME SyncInit PROVE SyncInv
    OBVIOUS
  <1>1. Init
    BY DEF SyncInit
  <1>2. IInv
    BY <1>1, InitOK
  <1>3. truth \in Tables /\ HomesIn(truth)
    <2> DEFINE Row == [network : Networks \union {NoNetwork},
                       address : Addresses, mapped : BOOLEAN]
    <2>1. truth \in [FIPs -> {NoEntry} \union Row]
      BY DEF SyncInit
    <2>2. Row \subseteq Entry
      BY DEF Entry
    <2> HIDE DEF Row
    <2>3. truth \in Tables
      BY <2>1, <2>2 DEF Tables
    <2> QED BY <2>3 DEF SyncInit, HomesIn
  <1>4. snapshot \in Tables /\ HomesIn(snapshot) /\ HomesIn(idx.byUUID)
    BY <1>1 DEF SyncInit, EmptyTable, Tables, HomesIn, Init, New
  <1>5. bus = <<>> /\ Len(bus) = 0 /\ bus \in Seq(Event)
    BY DEF SyncInit
  <1>6. Reported(delta) = {}
    BY <1>1 DEF Init, NoDelta, Reported
  <1>7. SyncTypeOK
    <2>1. /\ released = {} /\ ops = 0 /\ subTodo = {} /\ pollPC = "idle"
          /\ subscribed = FALSE /\ seeded = FALSE
          /\ told = [n \in Networks |-> {}] /\ left = {}
      BY DEF SyncInit
    <2>2. ops \in 0..MaxOps
      BY <2>1, MaxOpsAssumption
    <2>3. told \in [Networks -> SUBSET Addresses]
      BY <2>1
    <2> QED BY <1>2, <1>3, <1>4, <1>5, <1>6, <2>1, <2>2, <2>3 DEF SyncTypeOK, IInv
  <1>8. Homes
    BY <1>3, <1>4, <1>5 DEF Homes
  <1> QED BY <1>2, <1>7, <1>8 DEF SyncInv

(* Every step preserves the invariant. *)
LEMMA SyncStepOK == SyncInv /\ [SyncNext]_syncVars => SyncInv'
  BY WeftStepPreserves, handlePreserves, NotifyPreserves, tickReplacePreserves,
     ControlPreserves DEF SyncNext, Subscriber, Poller

(* The types of both loops' state. *)
THEOREM SyncTypeCorrect == SyncSpec => []SyncTypeOK
  <1>1. SyncInv => SyncTypeOK
    BY DEF SyncInv
  <1> QED BY <1>1, SyncInitOK, SyncStepOK, PTL DEF SyncSpec

-----------------------------------------------------------------------------
(* A network no entry of which changed keeps its announce set. *)
LEMMA OtherNetworksKeepAddrs ==
    ASSUME SyncInv, IInv', NEW f \in FIPs, NEW n \in Networks,
           \A g \in FIPs \ {f} : idx'.byUUID[g] = idx.byUUID[g],
           idx.byUUID[f] # NoEntry => idx.byUUID[f].network # n,
           idx'.byUUID[f] # NoEntry => idx'.byUUID[f].network # n
    PROVE  activeAddrs(idx', n) = activeAddrs(idx, n)
  <1>1. activeAddrs(idx, n) = TableAddrs(idx.byUUID, n)
    BY AddrsFromTable DEF SyncInv, IInv, TypeOK, NetIndexInLockstep
  <1>2. activeAddrs(idx', n) = TableAddrs(idx'.byUUID, n)
    BY AddrsFromTable DEF IInv, TypeOK, NetIndexInLockstep
  <1>3. TableAddrs(idx'.byUUID, n) = TableAddrs(idx.byUUID, n)
    BY DEF TableAddrs
  <1> QED BY <1>1, <1>2, <1>3

(* A handled event leaves its own network to be announced, and notes the   *)
(* one it moved its FIP off.                                               *)
LEMMA handleOwesNothing ==
    ASSUME SyncInv, SyncInv', NoMissedRepublish, handle
    PROVE  NoMissedRepublish'
  <1> DEFINE ev == Head(bus)
             entry == [network |-> ev.network, address |-> ev.address,
                       mapped |-> ev.kind = "mapped"]
             prev == idx.byUUID[ev.fip]
  <1>1. ev \in Event /\ ev.fip \in FIPs /\ entry \in Entry
    BY TailOfBus DEF handle, Event, Entry
  <1>2. IInv /\ IInv' /\ subTodo = {} /\ told' = told
    BY DEF SyncInv, handle
  <1>3. \A n \in Networks : idx.netUUID[n] = entriesOf(idx, n)
    BY <1>2 DEF IInv, NetIndexInLockstep, Lockstep
  <1>4. idx.byUUID \in Tables
    BY <1>2 DEF IInv, TypeOK, IndexType
  <1>5. CASE /\ ev.kind \in {"allocated", "mapped", "unmapped"}
             /\ Upsert(ev.fip, entry)
             /\ subTodo' = {entry.network} \ {NoNetwork}
             /\ left' = left \union MovedOff(ev.fip, entry.network)
    <2>1. idx'.byUUID = [idx.byUUID EXCEPT ![ev.fip] = entry] /\ delta' = delta
      BY <1>1, <1>2, <1>5, UpsertTable
    <2>2. \A g \in FIPs \ {ev.fip} : idx'.byUUID[g] = idx.byUUID[g]
      BY <2>1, <1>4 DEF Tables
    <2>3. idx'.byUUID[ev.fip] = entry
      BY <2>1, <1>1, <1>4 DEF Tables
    <2>5. ASSUME NEW n \in Networks \ left', n \notin subTodo'
          PROVE  n \notin left /\ activeAddrs(idx', n) = activeAddrs(idx, n)
      <3>1. entry.network # n
        BY <1>5, <2>5, EntryAssumption
      <3>2. n \notin left /\ n \notin MovedOff(ev.fip, entry.network)
        BY <1>5, <2>5
      <3>3. CASE prev # NoEntry /\ prev.network = n
        <4>1. ev.fip \in idx.netUUID[n]
          BY <1>1, <1>3, <3>3 DEF entriesOf
        <4> QED BY <3>1, <3>2, <4>1 DEF MovedOff
      <3>4. CASE prev # NoEntry => prev.network # n
        BY <1>1, <1>2, <2>2, <2>3, <3>1, <3>2, <3>4, OtherNetworksKeepAddrs
      <3> QED BY <3>3, <3>4
    <2> QED BY <1>2, <2>1, <2>5 DEF NoMissedRepublish
  <1>6. CASE /\ ev.kind = "released"
             /\ Delete(ev.fip)
             /\ subTodo' = (IF prev = NoEntry THEN {} ELSE {prev.network}) \ {NoNetwork}
             /\ left' = left
    <2>1. idx'.byUUID = [idx.byUUID EXCEPT ![ev.fip] = NoEntry] /\ delta' = delta
      BY <1>1, <1>2, <1>6, DeleteTable
    <2>2. \A g \in FIPs \ {ev.fip} : idx'.byUUID[g] = idx.byUUID[g]
      BY <2>1, <1>4 DEF Tables
    <2>3. idx'.byUUID[ev.fip] = NoEntry
      BY <2>1, <1>1, <1>4 DEF Tables
    <2>4. ASSUME NEW n \in Networks, n \notin subTodo'
          PROVE  activeAddrs(idx', n) = activeAddrs(idx, n)
      <3>1. prev # NoEntry => prev.network # n
        BY <1>6, <2>4, EntryAssumption
      <3> QED BY <1>1, <1>2, <2>2, <2>3, <3>1, OtherNetworksKeepAddrs
    <2> QED BY <1>2, <1>6, <2>1, <2>4 DEF NoMissedRepublish
  <1>7. CASE ev.kind = "other" /\ UNCHANGED <<indexVars, subTodo, left>>
    BY <1>2, <1>7 DEF NoMissedRepublish, indexVars
  <1> QED BY <1>5, <1>6, <1>7 DEF handle

(* A listing leaves the networks it reports to be announced, and no other: *)
(* the tick starts with nothing left over from the one before.             *)
LEMMA tickReplaceOwesNothing ==
    ASSUME SyncInv, NoMissedRepublish, tickReplace
    PROVE  NoMissedRepublish'
  <1>1. Reported(delta) = {} /\ UNCHANGED <<told, left, subTodo>>
    BY DEF tickReplace, SyncInv, SyncTypeOK, subVars, callVars
  <1>2. delta' = Deltas(idx, idx')
    BY DEF tickReplace, ReplaceAll
  <1>3. \A n \in Networks : activeAddrs(idx', n) # activeAddrs(idx, n) => n \in Reported(delta')
    BY <1>2 DEF Deltas, Reported
  <1> QED BY <1>1, <1>3 DEF NoMissedRepublish

(* A call of the callback pays the debt of its network. *)
LEMMA NotifyPays ==
    ASSUME SyncInv, NoMissedRepublish, handleNotify \/ tickNotify
    PROVE  NoMissedRepublish'
  <1>1. told \in [Networks -> SUBSET Addresses] /\ idx' = idx
    BY DEF SyncInv, SyncTypeOK, handleNotify, tickNotify, indexVars
  <1>2. CASE handleNotify
    <2>1. PICK m \in subTodo : onChange(m) /\ subTodo' = subTodo \ {m} /\ delta' = delta
      BY <1>2 DEF handleNotify, indexVars
    <2> QED BY <1>1, <2>1 DEF NoMissedRepublish, onChange
  <1>3. CASE tickNotify
    <2>1. PICK m \in Reported(delta) :
            onChange(m) /\ delta' = Handed(delta, m) /\ subTodo' = subTodo
      BY <1>3 DEF tickNotify, subVars
    <2>2. Reported(delta') = Reported(delta) \ {m}
      BY <2>1 DEF Reported, Handed
    <2> QED BY <1>1, <2>1, <2>2 DEF NoMissedRepublish, onChange
  <1> QED BY <1>2, <1>3

(* No change of the index goes unannounced: a network whose announce set   *)
(* differs from what the callback last read is owed a call by one of the   *)
(* two loops, or an event moved a FIP off it.                              *)
THEOREM NothingMissed == SyncSpec => []NoMissedRepublish
  <1>1. SyncInit => NoMissedRepublish
    BY DEF SyncInit, Init, New, NoMissedRepublish, activeAddrs, activeFIPs
  <1>2. SyncInv /\ SyncInv' /\ NoMissedRepublish /\ [SyncNext]_syncVars => NoMissedRepublish'
    <2> SUFFICES ASSUME SyncInv, SyncInv', NoMissedRepublish, [SyncNext]_syncVars
                 PROVE  NoMissedRepublish'
      OBVIOUS
    <2>1. CASE Weft
      BY <2>1 DEF Weft, Allocate, Map, Unmap, Release, OtherEvent, WeftChange,
                  NoMissedRepublish, indexVars, subVars, callVars
    <2>2. CASE LoseEvent \/ Subscribe \/ tickFetch \/ tickError \/ tickDone
      BY <2>2 DEF LoseEvent, Subscribe, tickFetch, tickError, tickDone,
                  NoMissedRepublish, indexVars, subVars, callVars
    <2>3. CASE handle
      BY <2>3, handleOwesNothing
    <2>4. CASE handleNotify \/ tickNotify
      BY <2>4, NotifyPays
    <2>5. CASE tickReplace
      BY <2>5, tickReplaceOwesNothing
    <2>6. CASE UNCHANGED syncVars
      BY <2>6 DEF syncVars, indexVars, subVars, callVars, NoMissedRepublish
    <2> QED BY <2>1, <2>2, <2>3, <2>4, <2>5, <2>6 DEF SyncNext, Subscriber, Poller
  <1> QED BY <1>1, <1>2, SyncInitOK, SyncStepOK, PTL DEF SyncSpec

(* No network waits for its next change. *)
NoneLeft == left = {}

(* When weft never reports a FIP on a second network, no event takes one   *)
(* off a network, and NothingMissed has no exception.                      *)
THEOREM NobodyLeft == StableHomes => (SyncSpec => []NoneLeft)
  <1> SUFFICES ASSUME StableHomes PROVE SyncSpec => []NoneLeft
    OBVIOUS
  <1>1. SyncInit => NoneLeft
    BY DEF SyncInit, NoneLeft
  <1>2. SyncInv /\ NoneLeft /\ [SyncNext]_syncVars => NoneLeft'
    <2> SUFFICES ASSUME SyncInv, left = {}, [SyncNext]_syncVars PROVE left' = {}
      BY DEF NoneLeft
    <2>1. CASE handle
      <3> DEFINE ev == Head(bus)
      <3>1. /\ ev \in Event /\ ev.fip \in FIPs
            /\ ev.kind # "other" => ev.network \in NetworksOf[ev.fip]
        BY <2>1, TailOfBus DEF handle, Event
      <3>2. ASSUME ev.kind # "other" PROVE MovedOff(ev.fip, ev.network) = {}
        <4> SUFFICES ASSUME NEW n \in Networks \ {ev.network}, ev.fip \in idx.netUUID[n]
                     PROVE  FALSE
          BY DEF MovedOff
        <4>1. ev.fip \in entriesOf(idx, n)
          BY DEF SyncInv, IInv, NetIndexInLockstep, Lockstep
        <4>2. n \in NetworksOf[ev.fip]
          BY <3>1, <4>1 DEF entriesOf, SyncInv, Homes, HomesIn
        <4> QED BY <3>1, <3>2, <4>2 DEF StableHomes
      <3> QED BY <2>1, <3>2 DEF handle
    <2>2. CASE handleNotify \/ tickNotify
      BY <2>2 DEF handleNotify, tickNotify, onChange
    <2>3. CASE Weft \/ LoseEvent \/ Subscribe \/ tickFetch \/ tickError \/ tickReplace
                 \/ tickDone \/ UNCHANGED syncVars
      BY <2>3 DEF Weft, Allocate, Map, Unmap, Release, OtherEvent, WeftChange, LoseEvent,
                  Subscribe, tickFetch, tickError, tickReplace, tickDone, syncVars, callVars
    <2> QED BY <2>1, <2>2, <2>3 DEF SyncNext, Subscriber, Poller
  <1> QED BY <1>1, <1>2, SyncInitOK, SyncStepOK, PTL DEF SyncSpec

-----------------------------------------------------------------------------
(* What SyncConverges asks for, without the fairness that leads there.     *)

Announced == /\ idx.byUUID = truth
             /\ \A n \in Networks \ left : told[n] = TableAddrs(truth, n)

(* Nothing on its way would change the index: the events are siblings      *)
(* under the wildcard, and a fetched listing is weft's table.              *)
Settled == /\ Announced
           /\ \A k \in 1..Len(bus) : bus[k].kind = "other"
           /\ pollPC = "fetched" => snapshot = truth

(* An index that is weft's table announces it, once both loops have made   *)
(* the calls they owe.                                                     *)
THEOREM SettledIsAnnounced ==
    SyncSpec => [](idx.byUUID = truth /\ subTodo = {} /\ Reported(delta) = {} => Announced)
  <1>1. SyncInv /\ NoMissedRepublish =>
          (idx.byUUID = truth /\ subTodo = {} /\ Reported(delta) = {} => Announced)
    <2> SUFFICES ASSUME SyncInv, NoMissedRepublish, idx.byUUID = truth, subTodo = {},
                        Reported(delta) = {}, NEW n \in Networks \ left
                 PROVE  told[n] = TableAddrs(truth, n)
      BY DEF Announced
    <2>1. activeAddrs(idx, n) = TableAddrs(idx.byUUID, n)
      BY AddrsFromTable DEF SyncInv, IInv, TypeOK, NetIndexInLockstep
    <2> QED BY <2>1 DEF NoMissedRepublish
  <1> QED BY <1>1, NothingMissed, SyncInitOK, SyncStepOK, PTL DEF SyncSpec

(* What the callback reads of an index that is weft's table. *)
LEMMA CallbackReadsTruth ==
    ASSUME SyncInv, idx.byUUID = truth, NEW n \in Networks, onChange(n)
    PROVE  told' = [told EXCEPT ![n] = TableAddrs(truth, n)]
  <1>1. activeAddrs(idx, n) = TableAddrs(idx.byUUID, n)
    BY AddrsFromTable DEF SyncInv, IInv, TypeOK, NetIndexInLockstep
  <1> QED BY <1>1 DEF onChange

(* Once the index is weft's table, the routers have been told, and nothing *)
(* stale is on its way, no step of either loop, no lost event and no       *)
(* sibling event undoes it: only weft does, by changing its table.         *)
THEOREM SettledStays ==
    SyncSpec => [][Settled /\ truth' = truth => Settled']_syncVars
  <1>1. SyncInv /\ [SyncNext]_syncVars => (Settled /\ truth' = truth => Settled')
    <2> SUFFICES ASSUME SyncInv, [SyncNext]_syncVars, Settled, truth' = truth
                 PROVE  Settled'
      OBVIOUS
    <2>1. truth \in Tables /\ told \in [Networks -> SUBSET Addresses] /\ bus \in Seq(Event)
      BY DEF SyncInv, SyncTypeOK
    <2>2. CASE Weft
      <3>1. PICK f \in FIPs : Allocate(f) \/ Map(f) \/ Unmap(f) \/ Release(f) \/ OtherEvent(f)
        BY <2>2 DEF Weft
      <3>2. ~Allocate(f) /\ ~Map(f) /\ ~Unmap(f) /\ ~Release(f)
        <4>1. \A e : truth' = [truth EXCEPT ![f] = e] => truth[f] = e
          BY <2>1 DEF Tables
        <4>2. ~Allocate(f)
          <5>1. ASSUME NEW n \in NetworksOf[f], NEW a \in Addresses
                PROVE  [network |-> n, address |-> a, mapped |-> FALSE] # NoEntry
            <6>1. n \in Networks \union {NoNetwork}
              BY NetworksOfAssumption
            <6>2. [network |-> n, address |-> a, mapped |-> FALSE] \in Entry
              BY <6>1 DEF Entry
            <6> QED BY <6>2, EntryAssumption
          <5> QED BY <4>1, <5>1 DEF Allocate
        <4>3. ~Map(f)
          <5> SUFFICES ASSUME Map(f) PROVE FALSE
            OBVIOUS
          <5>1. PICK n \in NetworksOf[f] :
                  truth' = [truth EXCEPT ![f] = [network |-> n, address |-> truth[f].address,
                                                 mapped |-> TRUE]]
            BY DEF Map
          <5>2. truth[f] = [network |-> n, address |-> truth[f].address, mapped |-> TRUE]
            BY <4>1, <5>1
          <5>3. truth[f].mapped = TRUE
            BY <5>2
          <5> QED BY <5>3 DEF Map
        <4>4. ~Unmap(f)
          BY <4>1 DEF Unmap
        <4>5. ~Release(f)
          BY <4>1 DEF Release
        <4> QED BY <4>2, <4>3, <4>4, <4>5
      <3>3. OtherEvent(f)
        BY <3>1, <3>2
      <3>4. PICK ev : /\ ev.kind = "other"
                      /\ bus' = bus \/ bus' = Append(bus, ev)
        BY <3>3 DEF OtherEvent, WeftChange, Emit
      <3>5. \A k \in 1..Len(bus') : bus'[k].kind = "other"
        BY <2>1, <3>4 DEF Settled
      <3> QED BY <3>3, <3>5 DEF OtherEvent, WeftChange, Settled, Announced, TableAddrs,
                                indexVars, pollVars, callVars
    <2>3. CASE LoseEvent \/ Subscribe \/ tickFetch \/ tickError \/ tickDone \/ UNCHANGED syncVars
      <3>1. /\ UNCHANGED <<idx, told, left>>
            /\ bus' = bus \/ (bus # <<>> /\ bus' = Tail(bus))
            /\ pollPC' = "fetched" => snapshot' = truth
        BY <2>3 DEF LoseEvent, Subscribe, tickFetch, tickError, tickDone, syncVars, indexVars,
                    weftVars, subVars, pollVars, callVars, Settled
      <3>2. \A k \in 1..Len(bus') : bus'[k].kind = "other"
        BY <2>1, <3>1 DEF Settled
      <3> QED BY <3>1, <3>2 DEF Settled, Announced, TableAddrs
    <2>4. CASE handle
      <3>1. Head(bus) = bus[1] /\ 1 \in 1..Len(bus) /\ bus' = Tail(bus)
        BY <2>1, <2>4 DEF handle
      <3>2. Head(bus).kind = "other"
        BY <3>1 DEF Settled
      <3>3. UNCHANGED <<idx, told, left, pollPC, snapshot>>
        BY <2>4, <3>2 DEF handle, indexVars, pollVars
      <3>4. \A k \in 1..Len(bus') : bus'[k].kind = "other"
        BY <2>1, <2>4, <3>1 DEF Settled, handle
      <3> QED BY <3>3, <3>4 DEF Settled, Announced, TableAddrs
    <2>5. CASE handleNotify \/ tickNotify
      <3>1. PICK n \in Networks : onChange(n)
        BY <2>5 DEF handleNotify, tickNotify, SyncInv, SyncTypeOK, TypeOK, Reported
      <3>2. UNCHANGED <<idx, bus, pollPC, snapshot>>
        BY <2>5 DEF handleNotify, tickNotify, indexVars, pollVars
      <3>3. told' = [told EXCEPT ![n] = TableAddrs(truth, n)] /\ left' = left \ {n}
        BY <3>1, CallbackReadsTruth DEF Settled, Announced, onChange
      <3>4. \A m \in Networks \ left' : told'[m] = TableAddrs(truth, m)
        BY <2>1, <3>3 DEF Settled, Announced
      <3> QED BY <3>2, <3>4 DEF Settled, Announced, TableAddrs
    <2>6. CASE tickReplace
      <3>1. idx'.byUUID = snapshot /\ snapshot = truth
        BY <2>6, ReplaceAllPreserves DEF tickReplace, SyncInv, SyncTypeOK, Settled
      <3>2. pollPC' = "notify" /\ UNCHANGED <<bus, told, left>>
        BY <2>6 DEF tickReplace, callVars
      <3> QED BY <3>1, <3>2 DEF Settled, Announced, TableAddrs
    <2> QED BY <2>2, <2>3, <2>4, <2>5, <2>6 DEF SyncNext, Subscriber, Poller
  <1> QED BY <1>1, SyncInitOK, SyncStepOK, PTL DEF SyncSpec

-----------------------------------------------------------------------------
(* The election. *)

Campaigning == {"campaign", "wait", "acquire", "lead"}

(* Session numbers are given out once: nothing mentions one still to come, *)
(* an instance that campaigns has one, and no two instances share one.     *)
SessionsOwned ==
    /\ leases \subseteq 1..sessions
    /\ \A i \in Instances : /\ sess[i] \in 0..sessions
                            /\ loops[i] \subseteq 1..sessions
                            /\ pc[i] \in Campaigning => sess[i] # 0
    /\ \A i, j \in Instances : (i # j /\ sess[i] = sess[j]) => sess[i] = 0

(* A session that is about to put its key has not led. *)
NotYetLed ==
    \A i, j \in Instances : pc[i] = "campaign" => sess[i] \notin loops[j]

(* No two keys have the same creation revision. *)
RanksDistinct == \A s, t \in keys : rank[s] = rank[t] => s = t

(* Session s has won: it is about to start its loops, or runs them. *)
HasWon(s) == \/ \E i \in Instances : s \in loops[i]
             \/ \E i \in Instances : sess[i] = s /\ pc[i] = "acquire"

(* Campaign looked at the other keys once; what it saw stays true for as   *)
(* long as its own key is there, since later keys get later revisions.     *)
WinnersAreFirst ==
    \A s \in keys : HasWon(s) => \A t \in keys : rank[t] >= rank[s]

ElectionInv == ElectionTypeOK /\ SessionsOwned /\ NotYetLed /\ RanksDistinct /\ WinnersAreFirst

-----------------------------------------------------------------------------
(* The invariant implies the property: of two winners whose keys are both  *)
(* there, each is first.                                                   *)
LEMMA WinnersDoNotOverlap == ElectionInv => OverlapOnlyAfterLoss
  <1> SUFFICES ASSUME ElectionInv, NEW i \in Instances, NEW j \in Instances,
                      NEW s \in loops[i], NEW t \in loops[j], s \in keys, t \in keys
               PROVE  s = t
    BY DEF OverlapOnlyAfterLoss
  <1>1. rank[t] >= rank[s] /\ rank[s] >= rank[t]
    BY DEF ElectionInv, WinnersAreFirst, HasWon
  <1>2. rank[s] \in Nat /\ rank[t] \in Nat
    BY DEF ElectionInv, ElectionTypeOK
  <1>3. rank[s] = rank[t]
    BY <1>1, <1>2
  <1> QED BY <1>3 DEF ElectionInv, RanksDistinct

-----------------------------------------------------------------------------
(* What keeps the invariant.  Ranks stay, keys and winners only go. *)
LEMMA FewerKeysAndWinners ==
    ASSUME ElectionInv, keys' \subseteq keys, rank' = rank,
           \A s \in keys' : HasWon(s)' => HasWon(s)
    PROVE  RanksDistinct' /\ WinnersAreFirst'
  BY DEF ElectionInv, RanksDistinct, WinnersAreFirst

(* The end of a session: its Done channel, its lease and its key. *)
LEMMA CloseSessionEffect ==
    ASSUME ElectionInv, NEW s \in Sessions, CloseSession(s) \/ Resign(s)
    PROVE  /\ leases' \subseteq leases /\ keys' \subseteq keys /\ keys' \subseteq leases'
           /\ done' \subseteq done \union {s}
           /\ UNCHANGED <<revision, rank>>
  BY DEF ElectionInv, ElectionTypeOK, CloseSession, Resign

(* An instance leaves its campaign, or its term, with the session ended. *)
LEMMA LeavePreserves ==
    ASSUME ElectionInv, NEW i \in Instances, pc[i] \in Campaigning,
           CloseSession(sess[i]) \/ Resign(sess[i]), goto(i, "session"),
           troubles' \in 0..MaxTroubles, UNCHANGED <<sessions, sess, loops>>
    PROVE  ElectionInv'
  <1>1. sess[i] \in Sessions
    BY BoundsAssumption DEF ElectionInv, ElectionTypeOK, SessionsOwned, Sessions
  <1>2. /\ leases' \subseteq leases /\ keys' \subseteq keys /\ keys' \subseteq leases'
        /\ done' \subseteq Sessions
        /\ revision' = revision /\ rank' = rank
    BY <1>1, CloseSessionEffect DEF ElectionInv, ElectionTypeOK
  <1>3. \A j \in Instances : pc'[j] = IF j = i THEN "session" ELSE pc[j]
    BY DEF goto, ElectionInv, ElectionTypeOK
  <1>4. ElectionTypeOK'
    BY <1>2 DEF ElectionInv, ElectionTypeOK, goto
  <1>5. SessionsOwned'
    BY <1>2, <1>3 DEF ElectionInv, SessionsOwned, Campaigning
  <1>6. NotYetLed'
    BY <1>3 DEF ElectionInv, NotYetLed
  <1>7. \A s \in keys' : HasWon(s)' => HasWon(s)
    BY <1>3 DEF HasWon
  <1>8. RanksDistinct' /\ WinnersAreFirst'
    BY <1>2, <1>7, FewerKeysAndWinners
  <1> QED BY <1>4, <1>5, <1>6, <1>8 DEF ElectionInv

(* Leases and keys are lost, channels close: etcd's or the client's doing, *)
(* with the instances where they are.                                      *)
LEMMA LossPreserves ==
    ASSUME ElectionInv, leases' \subseteq leases, keys' \subseteq keys, keys' \subseteq leases',
           done' \subseteq Sessions, troubles' \in 0..MaxTroubles,
           UNCHANGED <<revision, rank, sessions, pc, sess, loops>>
    PROVE  ElectionInv'
  <1>1. ElectionTypeOK'
    BY DEF ElectionInv, ElectionTypeOK
  <1>2. SessionsOwned' /\ NotYetLed'
    BY DEF ElectionInv, SessionsOwned, NotYetLed
  <1>3. RanksDistinct' /\ WinnersAreFirst'
    BY FewerKeysAndWinners DEF HasWon
  <1> QED BY <1>1, <1>2, <1>3 DEF ElectionInv

(* One more trouble. *)
LEMMA TroubleCounted ==
    ASSUME ElectionInv, Trouble
    PROVE  troubles' \in 0..MaxTroubles
  BY BoundsAssumption DEF ElectionInv, ElectionTypeOK, Trouble

-----------------------------------------------------------------------------
(* concurrency.NewSession: the session has a number nobody knows. *)
LEMMA NewSessionPreserves ==
    ASSUME ElectionInv, NEW i \in Instances, NewSession(i)
    PROVE  ElectionInv'
  <1> USE BoundsAssumption
  <1> DEFINE s == sessions + 1
  <1>1. /\ sessions \in 0..MaxSessions /\ sessions < MaxSessions /\ sessions' = s
        /\ sess' = [sess EXCEPT ![i] = s] /\ leases' = leases \union {s}
        /\ pc[i] = "session" /\ pc' = [pc EXCEPT ![i] = "campaign"]
        /\ UNCHANGED <<keys, revision, rank, done, loops, troubles>>
    BY DEF NewSession, goto, ElectionInv, ElectionTypeOK
  <1>2. s \in Sessions /\ s \in 1..sessions' /\ s \notin 0..sessions /\ s # 0
    BY <1>1 DEF Sessions
  <1>3. 0..sessions \subseteq 0..sessions' /\ 1..sessions \subseteq 1..sessions'
        /\ s \in 0..sessions' /\ 1..sessions \subseteq 0..sessions
    BY <1>1
  <1>4. /\ \A j \in Instances \ {i} : sess'[j] = sess[j] /\ pc'[j] = pc[j]
        /\ sess'[i] = s /\ pc'[i] = "campaign"
    BY <1>1 DEF ElectionInv, ElectionTypeOK
  <1>5. sessions' \in 0..MaxSessions /\ s \in 0..MaxSessions
    BY <1>1
  <1> HIDE DEF s
  <1>6. ElectionTypeOK'
    BY <1>1, <1>2, <1>5 DEF ElectionInv, ElectionTypeOK
  <1>7. SessionsOwned'
    <2>1. leases' \subseteq 1..sessions'
      BY <1>1, <1>2, <1>3 DEF ElectionInv, SessionsOwned
    <2>2. \A j \in Instances : /\ sess'[j] \in 0..sessions' /\ loops'[j] \subseteq 1..sessions'
                               /\ pc'[j] \in Campaigning => sess'[j] # 0
      BY <1>1, <1>2, <1>3, <1>4 DEF ElectionInv, SessionsOwned
    <2>3. \A j, k \in Instances : (j # k /\ sess'[j] = sess'[k]) => sess'[j] = 0
      BY <1>2, <1>4 DEF ElectionInv, SessionsOwned
    <2> QED BY <2>1, <2>2, <2>3 DEF SessionsOwned
  <1>8. NotYetLed'
    BY <1>1, <1>2, <1>3, <1>4 DEF ElectionInv, NotYetLed, SessionsOwned
  <1>9. \A t \in keys' : HasWon(t)' => HasWon(t)
    BY <1>1, <1>4 DEF HasWon
  <1>10. RanksDistinct' /\ WinnersAreFirst'
    BY <1>1, <1>9, FewerKeysAndWinners
  <1> QED BY <1>6, <1>7, <1>8, <1>10 DEF ElectionInv

(* Campaign puts its key: it comes after every key there is. *)
LEMMA CampaignPutPreserves ==
    ASSUME ElectionInv, NEW i \in Instances, CampaignPut(i)
    PROVE  ElectionInv'
  <1> DEFINE s == sess[i]
  <1>1. /\ pc[i] = "campaign" /\ s \in leases /\ s \in Sessions /\ s # 0
        /\ keys' = keys \union {s} /\ revision' = revision + 1
        /\ rank' = [rank EXCEPT ![s] = revision + 1]
        /\ pc' = [pc EXCEPT ![i] = "wait"]
        /\ UNCHANGED <<leases, sessions, done, sess, loops, troubles>>
    BY DEF CampaignPut, goto, ElectionInv, ElectionTypeOK, SessionsOwned, Campaigning
  <1>2. \A j \in Instances : pc'[j] = IF j = i THEN "wait" ELSE pc[j]
    BY <1>1 DEF ElectionInv, ElectionTypeOK
  <1>3. revision \in Nat /\ \A t \in Sessions : rank[t] \in Nat /\ rank[t] <= revision
    BY DEF ElectionInv, ElectionTypeOK
  <1>4. \A t \in Sessions : rank'[t] = IF t = s THEN revision + 1 ELSE rank[t]
    BY <1>1 DEF ElectionInv, ElectionTypeOK
  <1>5. keys \subseteq Sessions
    BY DEF ElectionInv, ElectionTypeOK
  <1> HIDE DEF s
  <1>6. ElectionTypeOK'
    <2>1. revision' \in Nat /\ rank' \in [Sessions -> 0..revision']
      BY <1>1, <1>3, <1>4 DEF ElectionInv, ElectionTypeOK
    <2> QED BY <1>1, <2>1 DEF ElectionInv, ElectionTypeOK
  <1>7. SessionsOwned'
    BY <1>1, <1>2 DEF ElectionInv, SessionsOwned, Campaigning, s
  <1>8. NotYetLed'
    BY <1>1, <1>2 DEF ElectionInv, NotYetLed
  <1>9. RanksDistinct'
    <2> SUFFICES ASSUME NEW t \in keys', NEW u \in keys', rank'[t] = rank'[u] PROVE t = u
      BY DEF RanksDistinct
    <2>1. CASE t # s /\ u # s
      BY <2>1, <1>1, <1>4, <1>5 DEF ElectionInv, RanksDistinct
    <2>2. CASE t = s \/ u = s
      BY <2>2, <1>1, <1>3, <1>4, <1>5
    <2> QED BY <2>1, <2>2
  <1>10. WinnersAreFirst'
    <2> SUFFICES ASSUME NEW t \in keys', HasWon(t)', NEW u \in keys'
                 PROVE  rank'[u] >= rank'[t]
      BY DEF WinnersAreFirst
    <2>1. t # s
      <3>1. \A j \in Instances : s \notin loops[j]
        BY <1>1 DEF ElectionInv, NotYetLed, s
      <3>2. \A j \in Instances : sess[j] = s => pc'[j] # "acquire"
        BY <1>1, <1>2 DEF ElectionInv, SessionsOwned, s
      <3> QED BY <3>1, <3>2, <1>1 DEF HasWon
    <2>2. t \in keys /\ rank'[t] = rank[t]
      BY <2>1, <1>1, <1>4, <1>5
    <2>3. HasWon(t)
      BY <1>1, <1>2 DEF HasWon
    <2>4. CASE u = s
      BY <2>2, <2>4, <1>1, <1>3, <1>4, <1>5
    <2>5. CASE u # s
      BY <2>2, <2>3, <2>5, <1>1, <1>4, <1>5 DEF ElectionInv, WinnersAreFirst
    <2> QED BY <2>4, <2>5
  <1> QED BY <1>6, <1>7, <1>8, <1>9, <1>10 DEF ElectionInv

(* Campaign returns: every key created before its own is gone. *)
LEMMA CampaignWonPreserves ==
    ASSUME ElectionInv, NEW i \in Instances, CampaignWon(i)
    PROVE  ElectionInv'
  <1>1. /\ pc[i] = "wait" /\ Won(i) /\ pc' = [pc EXCEPT ![i] = "acquire"]
        /\ UNCHANGED <<leases, keys, revision, rank, sessions, done, sess, loops, troubles>>
    BY DEF CampaignWon, goto, etcd
  <1>2. \A j \in Instances : pc'[j] = IF j = i THEN "acquire" ELSE pc[j]
    BY <1>1 DEF ElectionInv, ElectionTypeOK
  <1>3. ElectionTypeOK'
    BY <1>1 DEF ElectionInv, ElectionTypeOK
  <1>4. SessionsOwned' /\ NotYetLed' /\ RanksDistinct'
    BY <1>1, <1>2 DEF ElectionInv, SessionsOwned, NotYetLed, RanksDistinct, Campaigning
  <1>5. WinnersAreFirst'
    <2>1. \A s \in keys : HasWon(s)' => HasWon(s) \/ s = sess[i]
      BY <1>1, <1>2 DEF HasWon
    <2> QED BY <1>1, <2>1 DEF ElectionInv, WinnersAreFirst, Won
  <1> QED BY <1>3, <1>4, <1>5 DEF ElectionInv

(* The loops of a term start. *)
LEMMA OnAcquirePreserves ==
    ASSUME ElectionInv, NEW i \in Instances, OnAcquire(i)
    PROVE  ElectionInv'
  <1>1. /\ pc[i] = "acquire" /\ pc' = [pc EXCEPT ![i] = "lead"]
        /\ loops' = [loops EXCEPT ![i] = loops[i] \union {sess[i]}]
        /\ UNCHANGED <<leases, keys, revision, rank, sessions, done, sess, troubles>>
    BY DEF OnAcquire, goto, etcd
  <1>2. /\ \A j \in Instances \ {i} : pc'[j] = pc[j] /\ loops'[j] = loops[j]
        /\ pc'[i] = "lead" /\ loops'[i] = loops[i] \union {sess[i]}
    BY <1>1 DEF ElectionInv, ElectionTypeOK
  <1>3. sess[i] \in Sessions /\ sess[i] \in 1..sessions /\ sess[i] # 0
    BY <1>1, BoundsAssumption DEF ElectionInv, ElectionTypeOK, SessionsOwned, Campaigning, Sessions
  <1>4. ElectionTypeOK'
    BY <1>1, <1>3 DEF ElectionInv, ElectionTypeOK
  <1>5. SessionsOwned'
    BY <1>1, <1>2, <1>3 DEF ElectionInv, SessionsOwned, Campaigning
  <1>6. NotYetLed'
    BY <1>1, <1>2, <1>3 DEF ElectionInv, NotYetLed, SessionsOwned
  <1>7. \A s \in keys' : HasWon(s)' => HasWon(s)
    BY <1>1, <1>2 DEF HasWon
  <1>8. RanksDistinct' /\ WinnersAreFirst'
    BY <1>1, <1>7, FewerKeysAndWinners
  <1> QED BY <1>4, <1>5, <1>6, <1>8 DEF ElectionInv

(* Loops stop, a process stops, or one comes back. *)
LEMMA LoopsEndPreserves ==
    ASSUME ElectionInv, NEW i \in Instances, LoopsStop(i) \/ Stop(i) \/ Restart(i)
    PROVE  ElectionInv'
  <1>1. UNCHANGED <<leases, keys, revision, rank, sessions, done>>
    BY DEF LoopsStop, Stop, Restart, etcd
  <1>2. troubles' \in 0..MaxTroubles
    BY TroubleCounted DEF LoopsStop, Stop, Restart, ElectionInv, ElectionTypeOK
  <1>3. /\ \A j \in Instances \ {i} : /\ pc'[j] = pc[j] /\ sess'[j] = sess[j]
                                      /\ loops'[j] = loops[j]
        /\ loops'[i] \subseteq loops[i]
        /\ \/ pc'[i] = pc[i] /\ sess'[i] = sess[i]
           \/ pc'[i] = "stopped" /\ sess'[i] = sess[i]
           \/ pc'[i] = "session" /\ sess'[i] = 0
    BY DEF LoopsStop, Stop, Restart, goto, ElectionInv, ElectionTypeOK
  <1>4. ElectionTypeOK'
    <2>1. /\ pc' \in [Instances -> {"session", "campaign", "wait", "acquire", "lead", "stopped"}]
          /\ loops' \in [Instances -> SUBSET Sessions]
      BY DEF LoopsStop, Stop, Restart, goto, ElectionInv, ElectionTypeOK
    <2>2. sess' \in [Instances -> 0..MaxSessions]
      BY BoundsAssumption DEF LoopsStop, Stop, Restart, ElectionInv, ElectionTypeOK
    <2> QED BY <1>1, <1>2, <2>1, <2>2 DEF ElectionInv, ElectionTypeOK
  <1>5. SessionsOwned'
    <2>1. 0 \in 0..sessions
      BY DEF ElectionInv, ElectionTypeOK
    <2> QED BY <1>1, <1>3, <2>1 DEF ElectionInv, SessionsOwned, Campaigning
  <1>6. NotYetLed'
    BY <1>1, <1>3 DEF ElectionInv, NotYetLed
  <1>7. \A s \in keys' : HasWon(s)' => HasWon(s)
    BY <1>1, <1>3 DEF HasWon
  <1>8. RanksDistinct' /\ WinnersAreFirst'
    BY <1>1, <1>7, FewerKeysAndWinners
  <1> QED BY <1>4, <1>5, <1>6, <1>8 DEF ElectionInv

(* The campaign or the term ends with the session. *)
LEMMA RunLeavesPreserves ==
    ASSUME ElectionInv, NEW i \in Instances, CampaignRefused(i) \/ SessionLost(i) \/ CampaignFails(i)
    PROVE  ElectionInv'
  <1>1. /\ pc[i] \in Campaigning
        /\ CloseSession(sess[i]) \/ Resign(sess[i])
        /\ goto(i, "session")
        /\ UNCHANGED <<sessions, sess, loops>>
    BY DEF CampaignRefused, SessionLost, CampaignFails, Campaigning
  <1>2. troubles' \in 0..MaxTroubles
    BY TroubleCounted DEF CampaignRefused, SessionLost, CampaignFails, ElectionInv, ElectionTypeOK
  <1> QED BY <1>1, <1>2, LeavePreserves

(* A lease ends on the server, or a client gives its session up. *)
LEMMA SessionEndsPreserves ==
    ASSUME ElectionInv, NEW s \in Sessions, LeaseRunsOut(s) \/ LeaseExpires(s) \/ SessionDone(s)
    PROVE  ElectionInv'
  <1>1. /\ leases' \subseteq leases /\ keys' \subseteq keys /\ keys' \subseteq leases'
        /\ done' \subseteq Sessions
        /\ UNCHANGED <<revision, rank, sessions, pc, sess, loops>>
    BY DEF LeaseRunsOut, LeaseExpires, SessionDone, Expire, etcd, ElectionInv, ElectionTypeOK
  <1>2. troubles' \in 0..MaxTroubles
    BY TroubleCounted DEF LeaseRunsOut, LeaseExpires, SessionDone, ElectionInv, ElectionTypeOK
  <1> QED BY <1>1, <1>2, LossPreserves

-----------------------------------------------------------------------------
(* ElectionInv holds initially and survives every step. *)
LEMMA ElectionInvInit == ElectionInit => ElectionInv
  <1> SUFFICES ASSUME ElectionInit PROVE ElectionInv
    OBVIOUS
  <1> USE BoundsAssumption
  <1>1. ElectionTypeOK
    BY DEF ElectionInit, ElectionTypeOK
  <1>2. SessionsOwned /\ NotYetLed
    BY DEF ElectionInit, SessionsOwned, NotYetLed, Campaigning
  <1>3. RanksDistinct /\ WinnersAreFirst
    BY DEF ElectionInit, RanksDistinct, WinnersAreFirst
  <1> QED BY <1>1, <1>2, <1>3 DEF ElectionInv

LEMMA ElectionInvStep == ElectionInv /\ [ElectionNext]_vars => ElectionInv'
  <1> SUFFICES ASSUME ElectionInv, [ElectionNext]_vars PROVE ElectionInv'
    OBVIOUS
  <1>1. ASSUME NEW i \in Instances, Run(i) PROVE ElectionInv'
    BY <1>1, NewSessionPreserves, CampaignPutPreserves, CampaignWonPreserves,
       OnAcquirePreserves, RunLeavesPreserves DEF Run
  <1>2. CASE ElectionNext
    BY <1>1, <1>2, LoopsEndPreserves, RunLeavesPreserves, SessionEndsPreserves DEF ElectionNext
  <1>3. CASE UNCHANGED vars
    BY <1>3 DEF ElectionInv, ElectionTypeOK, SessionsOwned, NotYetLed, RanksDistinct, WinnersAreFirst,
                HasWon, vars
  <1> QED BY <1>2, <1>3

LEMMA ElectionInvAlways == ElectionSpec => []ElectionInv
  BY ElectionInvInit, ElectionInvStep, PTL DEF ElectionSpec

(* etcd's and the instances' state keeps its types; in particular a key    *)
(* never outlives its lease.                                               *)
THEOREM ElectionTypeCorrect == ElectionSpec => []ElectionTypeOK
  <1>1. ElectionInv => ElectionTypeOK
    BY DEF ElectionInv
  <1> QED BY ElectionInvAlways, <1>1, PTL

(* No two terms whose keys are both in etcd ever run the gated loops,      *)
(* whatever sessions are lost, on whichever side first, and whichever      *)
(* instances stop and come back.                                           *)
THEOREM NoOverlapWithoutLoss == ElectionSpec => []OverlapOnlyAfterLoss
  BY ElectionInvAlways, WinnersDoNotOverlap, PTL

-----------------------------------------------------------------------------
(* What SomeoneLeads asks for, without the fairness that leads there: i    *)
(* runs the loops of its current term and nobody else any, and whoever     *)
(* waits put its key later.                                                *)
LeadsAlone(i) ==
    /\ pc[i] = "lead" /\ loops[i] = {sess[i]} /\ sess[i] \in keys \ done
    /\ \A j \in Instances \ {i} :
         /\ loops[j] = {} /\ pc[j] # "acquire"
         /\ pc[j] = "wait" => rank[sess[j]] > rank[sess[i]]

(* What the others do not disturb. *)
LEMMA LeaderUntouched ==
    ASSUME NEW i \in Instances, LeadsAlone(i), pc'[i] = pc[i], sess'[i] = sess[i],
           loops'[i] = loops[i], sess[i] \in keys', sess[i] \notin done',
           \A j \in Instances \ {i} :
             /\ loops'[j] = {} /\ pc'[j] # "acquire"
             /\ pc'[j] = "wait" => rank'[sess'[j]] > rank'[sess[i]]
    PROVE  LeadsAlone(i)'
  BY DEF LeadsAlone

(* An instance that leads alone does so until something goes wrong: no     *)
(* campaign of another instance, and no end of another's session, gives a  *)
(* second one the lead or ends the term, however the steps interleave.     *)
THEOREM AloneForGood ==
    ElectionSpec => [][\A i \in Instances :
                          LeadsAlone(i) /\ troubles' = troubles => LeadsAlone(i)']_vars
  <1>1. ElectionInv /\ ElectionNext =>
          \A i \in Instances : LeadsAlone(i) /\ troubles' = troubles => LeadsAlone(i)'
    <2> SUFFICES ASSUME ElectionInv, ElectionNext, NEW i \in Instances, LeadsAlone(i),
                        troubles' = troubles
                 PROVE  LeadsAlone(i)'
      OBVIOUS
    <2>1. ElectionTypeOK /\ sess[i] \in Sessions /\ sess[i] # 0 /\ sess[i] \in leases /\ sess[i] \in keys
          /\ sess[i] \notin done /\ pc[i] = "lead" /\ sess[i] <= sessions
      BY DEF ElectionInv, LeadsAlone, ElectionTypeOK, SessionsOwned, Sessions
    <2>2. ~Trouble
      BY <2>1 DEF Trouble, ElectionTypeOK
    <2>3. ASSUME NEW j \in Instances, Run(j) PROVE LeadsAlone(i)'
      <3>1. j # i
        BY <2>1, <2>3 DEF Run, NewSession, CampaignPut, CampaignWon, CampaignRefused, OnAcquire,
                          SessionLost
      <3>2. sess[j] # sess[i]
        BY <2>1, <3>1 DEF ElectionInv, SessionsOwned
      <3>3. CASE NewSession(j)
        BY <2>1, <3>1, <3>3, LeaderUntouched DEF NewSession, goto, ElectionTypeOK, LeadsAlone
      <3>4. CASE CampaignPut(j)
        BY <2>1, <3>1, <3>2, <3>4, LeaderUntouched
           DEF CampaignPut, goto, ElectionTypeOK, LeadsAlone, Sessions
      <3>5. CASE CampaignWon(j)
        <4>1. rank[sess[j]] > rank[sess[i]] /\ rank[sess[i]] >= rank[sess[j]]
          BY <2>1, <3>1, <3>5 DEF CampaignWon, Won, LeadsAlone
        <4>2. rank[sess[i]] \in Nat /\ rank[sess[j]] \in Nat
          BY <2>1, <3>5 DEF CampaignWon, ElectionInv, SessionsOwned, Campaigning,
                            ElectionTypeOK, Sessions
        <4> QED BY <4>1, <4>2
      <3>6. CASE CampaignRefused(j) \/ SessionLost(j)
        BY <2>1, <3>1, <3>2, <3>6, LeaderUntouched
           DEF CampaignRefused, SessionLost, CloseSession, Resign, goto, ElectionTypeOK, LeadsAlone
      <3>7. ~OnAcquire(j)
        BY <3>1 DEF OnAcquire, LeadsAlone
      <3> QED BY <2>3, <3>3, <3>4, <3>5, <3>6, <3>7 DEF Run
    <2>4. ASSUME NEW j \in Instances, LoopsStop(j) PROVE LeadsAlone(i)'
      BY <2>1, <2>4, LeaderUntouched DEF LoopsStop, LeadsAlone, ElectionTypeOK, etcd
    <2>5. ASSUME NEW j \in Instances, Restart(j) PROVE LeadsAlone(i)'
      BY <2>1, <2>5, LeaderUntouched DEF Restart, goto, LeadsAlone, ElectionTypeOK, etcd
    <2>6. ASSUME NEW s \in Sessions, LeaseRunsOut(s) PROVE LeadsAlone(i)'
      <3>1. s # sess[i]
        BY <2>1, <2>6 DEF LeaseRunsOut, Orphan
      <3> QED BY <2>1, <2>6, <3>1, LeaderUntouched DEF LeaseRunsOut, Expire, LeadsAlone
    <2>7. ASSUME NEW s \in Sessions, SessionDone(s) PROVE LeadsAlone(i)'
      <3>1. s # sess[i]
        BY <2>1, <2>2, <2>7 DEF SessionDone
      <3> QED BY <2>1, <2>7, <3>1, LeaderUntouched DEF SessionDone, LeadsAlone, etcd
    <2> QED BY <2>2, <2>3, <2>4, <2>5, <2>6, <2>7 DEF ElectionNext, CampaignFails, Stop, LeaseExpires
  <1> QED BY ElectionInvAlways, <1>1, PTL DEF ElectionSpec
===============================================================================
