------------------------------ MODULE FIPIndex ------------------------------
(***************************************************************************)
(* The in-memory floating-IP table of package fips (internal/fips/         *)
(* index.go): one primary map and two secondary ones, kept together under  *)
(* a mutex, plus the Prometheus gauge every operation refreshes.  Every    *)
(* exported operation holds the write lock from its first to its last      *)
(* line, so each is one action.                                            *)
(*                                                                         *)
(* Each term of a leader makes an Index of its own (startFIPLoops), and    *)
(* idx is the newest.  The gauge belongs to the process: New does not      *)
(* reset it, and a loop of an ended term, which nobody waits for, may      *)
(* still write to it from the Index it has.                                *)
(*                                                                         *)
(* Abstractions: a UUID, network or address is a model value; the empty    *)
(* string of NetworkUUID and Address is NoNetwork and NoAddress; project,  *)
(* target kind and target are carried by the code and never read by the    *)
(* index, and are left out.  A key missing from byUUID or byAddr maps to   *)
(* NoEntry or NoFIP; a key missing from netUUID maps to {} (the code       *)
(* deletes a network's set when it becomes empty).                         *)
(***************************************************************************)
EXTENDS Naturals, FiniteSets

CONSTANTS
    FIPs,       \* floating-IP UUIDs (never the empty string)
    Networks,   \* non-empty network UUIDs
    Addresses,  \* non-empty addresses
    NoNetwork,  \* the empty NetworkUUID
    NoAddress,  \* the empty Address
    NoFIP,      \* no UUID: an absent byAddr key
    NoEntry     \* no Entry: an absent byUUID key

ASSUME FIPsAssumption == IsFiniteSet(FIPs) /\ NoFIP \notin FIPs

Entry == [network : Networks \union {NoNetwork},
          address : Addresses \union {NoAddress},
          mapped  : BOOLEAN]

ASSUME EntryAssumption == /\ NoNetwork \notin Networks
                          /\ NoAddress \notin Addresses
                          /\ NoEntry \notin Entry

(* addrKey: the (network, address) pairs byAddr is keyed by. *)
AddrKeys == (Networks \union {NoNetwork}) \X Addresses

(* A table gives each UUID its entry: the contents of byUUID, and what a   *)
(* snapshot of the weft store contains (one row per UUID).                 *)
Tables == [FIPs -> Entry \union {NoEntry}]

VARIABLES
    idx,    \* the Index struct: byUUID, byAddr, netUUID
    gauge,  \* indexEntries: the active-FIP gauge, by network label
    delta,  \* the added, removed and churned sets ReplaceAll returned last
    later,  \* the process has led before: this is not its first Index
    elder   \* history: the labels an Index of an earlier term set last, for
            \* networks on which no entry of idx has changed since

indexVars == <<idx, gauge, delta, later, elder>>

NoDelta == [added |-> {}, removed |-> {}, churned |-> {}]

New == [byUUID  |-> [f \in FIPs |-> NoEntry],
        byAddr  |-> [k \in AddrKeys |-> NoFIP],
        netUUID |-> [n \in Networks |-> {}]]

-----------------------------------------------------------------------------
(* Helpers that run under the lock *)

indexLocked(i, f, e) ==
    [byUUID  |-> [i.byUUID EXCEPT ![f] = e],
     byAddr  |-> IF e.address = NoAddress THEN i.byAddr
                 ELSE [i.byAddr EXCEPT ![<<e.network, e.address>>] = f],
     netUUID |-> IF e.network = NoNetwork THEN i.netUUID
                 ELSE [i.netUUID EXCEPT ![e.network] = @ \union {f}]]

(* The byAddr key is deleted whoever it points at. *)
unindexLocked(i, f, e) ==
    [byUUID  |-> [i.byUUID EXCEPT ![f] = NoEntry],
     byAddr  |-> IF e.address = NoAddress THEN i.byAddr
                 ELSE [i.byAddr EXCEPT ![<<e.network, e.address>>] = NoFIP],
     netUUID |-> IF e.network = NoNetwork THEN i.netUUID
                 ELSE [i.netUUID EXCEPT ![e.network] = @ \ {f}]]

(* Mutant: the network an entry left is forgotten. *)
networksTouchedNext(prev, next) == {next.network} \ {NoNetwork}

networksTouched(prev, next) ==
    ({prev.network} \union {next.network}) \ {NoNetwork}

(* Mutant: an entry without an address counts as active. *)
activeFIPsUnaddressed(i, n) == {f \in i.netUUID[n] : i.byUUID[f].mapped}

(* The FIPs of network n that have a target and an address. *)
activeFIPs(i, n) ==
    {f \in i.netUUID[n] : /\ i.byUUID[f].mapped
                          /\ i.byUUID[f].address # NoAddress}

(* The per-network address set ReplaceAll computes before and after.       *)
activeAddrs(i, n) == {i.byUUID[f].address : f \in activeFIPs(i, n)}

(* Mutant: the gauge of a touched network is decremented. *)
refreshGaugeDecrement(i, touched) ==
    gauge' = [n \in Networks |-> IF n \in touched THEN gauge[n] - 1 ELSE gauge[n]]

refreshGaugeLocked(i, touched) ==
    gauge' = [n \in Networks |-> IF n \in touched THEN Cardinality(activeFIPs(i, n))
                                 ELSE gauge[n]]

(* What indexing every row of a snapshot from scratch leaves behind.  The  *)
(* order of the rows only shows in byAddr: of several rows with the same   *)
(* key the last one indexed wins, so any of them can (winner).             *)
Winners == {w \in [(SUBSET FIPs) \ {{}} -> FIPs] : \A S \in DOMAIN w : w[S] \in S}

owners(table, k) ==
    {f \in FIPs : /\ table[f] # NoEntry
                  /\ <<table[f].network, table[f].address>> = k}

Rebuilt(table, winner) ==
    [byUUID  |-> table,
     byAddr  |-> [k \in AddrKeys |-> IF owners(table, k) = {} THEN NoFIP
                                     ELSE winner[owners(table, k)]],
     netUUID |-> [n \in Networks |->
                    {f \in FIPs : table[f] # NoEntry /\ table[f].network = n}]]

(* Mutant: churn is told by the number of addresses. *)
DeltasBySize(before, after) ==
    LET prior(n) == activeAddrs(before, n)
        next(n)  == activeAddrs(after, n)
    IN [added   |-> {n \in Networks : prior(n) = {} /\ next(n) # {}},
        removed |-> {n \in Networks : prior(n) # {} /\ next(n) = {}},
        churned |-> {n \in Networks : /\ prior(n) # {} /\ next(n) # {}
                                      /\ Cardinality(prior(n)) # Cardinality(next(n))}]

(* The three sets of networks ReplaceAll returns.                          *)
Deltas(before, after) ==
    LET prior(n) == activeAddrs(before, n)
        next(n)  == activeAddrs(after, n)
    IN [added   |-> {n \in Networks : prior(n) = {} /\ next(n) # {}},
        removed |-> {n \in Networks : prior(n) # {} /\ next(n) = {}},
        churned |-> {n \in Networks : /\ prior(n) # {} /\ next(n) # {}
                                      /\ prior(n) # next(n)}]

(* The networks present in either snapshot's netUUID (allNets). *)
allNets(before, after) ==
    {n \in Networks : before.netUUID[n] # {} \/ after.netUUID[n] # {}}

(* The networks on which two tables have different entries. *)
NetworksChanged(before, after) ==
    {n \in Networks : \E f \in FIPs : /\ before[f] # after[f]
                                      /\ \E e \in {before[f], after[f]} \ {NoEntry} : e.network = n}

(* An operation on idx: its changes make the labels idx's own. *)
Operated == /\ elder' = elder \ NetworksChanged(idx.byUUID, idx'.byUUID)
            /\ UNCHANGED later

-----------------------------------------------------------------------------
(* Operations *)

(* The process starts.  A label that does not exist yet reads as 0. *)
Init == /\ idx = New
        /\ gauge = [n \in Networks |-> 0]
        /\ delta = NoDelta
        /\ later = FALSE /\ elder = {}

(* startFIPLoops, of a later term: an empty Index, and the gauge as it is. *)
NewTerm == /\ idx' = New
           /\ delta' = NoDelta
           /\ later' = TRUE
           /\ elder' = {n \in Networks : gauge[n] # 0}
           /\ UNCHANGED gauge

(* An operation that a loop of an ended term was in the middle of, on its  *)
(* own Index, whatever that holds.                                         *)
LateRefresh == /\ later
               /\ gauge' \in [Networks -> 0..Cardinality(FIPs)]
               /\ elder' = elder \union {n \in Networks : gauge'[n] # gauge[n]}
               /\ UNCHANGED <<idx, delta, later>>

(* Mutant: the previous entry is overwritten and stays indexed. *)
UpsertOver(f, e) ==
    LET prev == idx.byUUID[f]
    IN /\ idx' = indexLocked(idx, f, e)
       /\ refreshGaugeLocked(idx', networksTouched(IF prev = NoEntry THEN e ELSE prev, e))
       /\ Operated
       /\ UNCHANGED delta

Upsert(f, e) ==
    LET prev == idx.byUUID[f]
        base == IF prev = NoEntry THEN idx ELSE unindexLocked(idx, f, prev)
        touched == networksTouched(IF prev = NoEntry THEN e ELSE prev, e)
    IN /\ idx' = indexLocked(base, f, e)
       /\ refreshGaugeLocked(idx', touched)
       /\ Operated
       /\ UNCHANGED delta

(* Delete of an absent UUID returns before touching anything. *)
Delete(f) ==
    LET prev == idx.byUUID[f]
    IN IF prev = NoEntry
       THEN UNCHANGED indexVars
       ELSE /\ idx' = unindexLocked(idx, f, prev)
            /\ refreshGaugeLocked(idx', {prev.network})
            /\ Operated
            /\ UNCHANGED delta

ReplaceAll(table) ==
    /\ \E winner \in Winners : idx' = Rebuilt(table, winner)
    /\ delta' = Deltas(idx, idx')
    /\ refreshGaugeLocked(idx', allNets(idx, idx'))
    /\ Operated

(* The publisher's lookup.  The code returns a sorted list; the order and  *)
(* the repetition of an address held by two FIPs are left out.             *)
ActiveFIPsInNetworks(nets) == UNION {activeAddrs(idx, n) : n \in nets \intersect Networks}

Next == \/ \E f \in FIPs, e \in Entry : Upsert(f, e)
        \/ \E f \in FIPs : Delete(f)
        \/ \E table \in Tables : ReplaceAll(table)
        \/ NewTerm \/ LateRefresh

Spec == Init /\ [][Next]_indexVars

-----------------------------------------------------------------------------
(* Properties *)

IndexType == [byUUID  : Tables,
              byAddr  : [AddrKeys -> FIPs \union {NoFIP}],
              netUUID : [Networks -> SUBSET FIPs]]

(* Every map of the Index struct, the gauge and ReplaceAll's result keep   *)
(* their types: in particular a gauge label never goes negative.           *)
TypeOK == /\ idx \in IndexType
          /\ gauge \in [Networks -> Nat]
          /\ delta \in [added : SUBSET Networks, removed : SUBSET Networks,
                        churned : SUBSET Networks]
          /\ later \in BOOLEAN /\ elder \subseteq Networks
          /\ ~later => elder = {}

(* What netUUID has to say of network n, read off the primary map.         *)
entriesOf(i, n) == {f \in FIPs : i.byUUID[f] # NoEntry /\ i.byUUID[f].network = n}

Lockstep(i) == \A n \in Networks : i.netUUID[n] = entriesOf(i, n)

(* The per-network index never holds a UUID whose entry moved to another   *)
(* network or went away, nor misses one, through any mix of Upsert (Mapped *)
(* and network flips included), Delete and ReplaceAll (index.go:76-78).    *)
NetIndexInLockstep == Lockstep(idx)

(* The address set a table announces for network n. *)
TableAddrs(table, n) ==
    {table[f].address : f \in {g \in FIPs : /\ table[g] # NoEntry
                                            /\ table[g].network = n
                                            /\ table[g].mapped
                                            /\ table[g].address # NoAddress}}

(* What the publisher announces for a set of networks is exactly the       *)
(* addresses of the mapped entries on them: none missing, none left over   *)
(* from an entry that was unmapped, moved or released.                     *)
LookupMatchesEntries ==
    \A nets \in SUBSET Networks :
        ActiveFIPsInNetworks(nets) = UNION {TableAddrs(idx.byUUID, n) : n \in nets}

(* The gauge of a network equals the number of active entries the lookup   *)
(* would find there, although each operation recomputes it only for the    *)
(* networks it believes it touched.  metrics.go:40 has it that the gauge   *)
(* "always tracks" them; what keeps it from doing so is that it outlives   *)
(* the Index: a label set in an earlier term, or late by a loop of one,    *)
(* stays until an entry of this Index changes on that network.             *)
GaugeTracksUnlessElder ==
    \A n \in Networks \ elder : gauge[n] = Cardinality(activeFIPs(idx, n))

Reported(d) == d.added \union d.removed \union d.churned

(* A ReplaceAll reports a network if and only if the set of addresses to   *)
(* announce for it changed, so that the poller's callback neither misses a *)
(* network nor republishes for nothing.                                    *)
ReplaceAllReportsChanges ==
    [][ReplaceAll(idx'.byUUID) =>
         Reported(delta') = {n \in Networks : TableAddrs(idx.byUUID, n) # TableAddrs(idx.byUUID, n)'}
      ]_indexVars
=============================================================================
