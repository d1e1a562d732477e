--------------------------- MODULE DNSMemoryProofs ---------------------------
(***************************************************************************)
(* Proofs about DNSMemory, for any sets of zones and names and any finite  *)
(* set of records: the two secondary indexes and the denormalised counts   *)
(* never drift from the rows they are derived from.                        *)
(***************************************************************************)
EXTENDS DNSMemory, FiniteSetTheorems, TLAPS

(* The three properties need one another: the cascade of DeleteZone goes   *)
(* by recordsByZ, the counts are taken from it, and DeleteRecord reads the *)
(* zone a record names.                                                    *)
IInv == TypeOK /\ ForeignKeys /\ NamesInLockstep /\ CountsAccurate

ZoneRow == [name : Names, records : Nat]

(* The records of a zone can be counted. *)
LEMMA RecordsCountable ==
    ASSUME NEW S \in SUBSET Records
    PROVE  IsFiniteSet(S) /\ Cardinality(S) \in Nat
  BY DNSAssumption, FS_Subset, FS_CardinalityType

(* A zone that exists is a row, never the absent value. *)
LEMMA ZoneRows ==
    ASSUME TypeOK, NEW z \in Zones, zones[z] # NoZone
    PROVE  zones[z] \in ZoneRow /\ zones[z].name \in Names /\ zones[z].records \in Nat
  BY DEF TypeOK, ZoneRow

-----------------------------------------------------------------------------
(* CreateZone adds a zone without records under a free name. *)
LEMMA CreateZonePreserves ==
    ASSUME IInv, NEW z \in Zones, NEW n \in Names, CreateZone(z, n)
    PROVE  IInv'
  <1> DEFINE new == [name |-> n, records |-> 0]
  <1>1. new \in ZoneRow /\ new.name = n /\ new.records = 0 /\ new # NoZone
    BY DNSAssumption DEF ZoneRow
  <1>2. /\ zones[z] = NoZone /\ zoneByName[n] = NoZone
        /\ zones' = [zones EXCEPT ![z] = new]
        /\ zoneByName' = [zoneByName EXCEPT ![n] = z]
        /\ recordsByZ' = [recordsByZ EXCEPT ![z] = {}]
        /\ records' = records
    BY DEF CreateZone
  <1> HIDE DEF new
  <1>3. \A r \in Records : records[r] # z
    BY <1>2, DNSAssumption DEF IInv, TypeOK, ForeignKeys
  <1>4. TypeOK'
    BY <1>1, <1>2 DEF IInv, TypeOK, ZoneRow
  <1>5. ForeignKeys'
    BY <1>1, <1>2, <1>3 DEF IInv, TypeOK, ForeignKeys
  <1>6. NamesInLockstep'
    <2>1. ASSUME NEW y \in Zones, y # z, zones[y] # NoZone
          PROVE  zones[y].name # n
      BY <2>1, <1>2, DNSAssumption DEF IInv, TypeOK, NamesInLockstep
    <2> QED BY <1>1, <1>2, <2>1, ZoneRows, DNSAssumption DEF IInv, TypeOK, NamesInLockstep
  <1>7. CountsAccurate'
    <2>1. {r \in Records : records'[r] = z} = {}
      BY <1>2, <1>3
    <2>2. zones'[z].records = Cardinality({r \in Records : records'[r] = z})
      BY <2>1, <1>1, <1>2, FS_EmptySet DEF IInv, TypeOK
    <2>3. ASSUME NEW y \in Zones, y # z, zones'[y] # NoZone
          PROVE  zones'[y].records = Cardinality({r \in Records : records'[r] = y})
      BY <2>3, <1>2 DEF IInv, TypeOK, CountsAccurate
    <2> QED BY <2>2, <2>3 DEF CountsAccurate
  <1> QED BY <1>4, <1>5, <1>6, <1>7 DEF IInv

(* DeleteZone takes the zone's records and its name along. *)
LEMMA DeleteZonePreserves ==
    ASSUME IInv, NEW z \in Zones, DeleteZone(z)
    PROVE  IInv'
  <1> DEFINE n == zones[z].name
  <1>1. /\ zones[z] # NoZone /\ zones' = [zones EXCEPT ![z] = NoZone]
        /\ zoneByName' = [zoneByName EXCEPT ![n] = NoZone]
        /\ recordsByZ' = [recordsByZ EXCEPT ![z] = {}]
        /\ records' = [r \in Records |-> IF r \in recordsByZ[z] THEN NoZone ELSE records[r]]
    BY DEF DeleteZone
  <1>2. n \in Names /\ zoneByName[n] = z
    BY <1>1, ZoneRows DEF IInv, NamesInLockstep
  <1> HIDE DEF n
  <1>3. \A r \in Records : records'[r] = IF records[r] = z THEN NoZone ELSE records[r]
    BY <1>1 DEF IInv, ForeignKeys
  <1>4. TypeOK'
    BY <1>1, <1>2 DEF IInv, TypeOK
  <1>5. ForeignKeys'
    <2>1. \A r \in Records : records'[r] # NoZone => zones'[records'[r]] # NoZone
      BY <1>1, <1>3 DEF IInv, TypeOK, ForeignKeys
    <2>2. recordsByZ'[z] = {r \in Records : records'[r] = z}
      BY <1>1, <1>3, DNSAssumption DEF IInv, TypeOK
    <2>3. ASSUME NEW y \in Zones, y # z
          PROVE  recordsByZ'[y] = {r \in Records : records'[r] = y}
      BY <2>3, <1>1, <1>3, DNSAssumption DEF IInv, TypeOK, ForeignKeys
    <2> QED BY <2>1, <2>2, <2>3 DEF ForeignKeys
  <1>6. NamesInLockstep'
    <2>1. ASSUME NEW y \in Zones, y # z, zones[y] # NoZone
          PROVE  zones[y].name # n
      BY <2>1, <1>2 DEF IInv, NamesInLockstep
    <2>2. ASSUME NEW m \in Names, m # n, zoneByName[m] # NoZone
          PROVE  zoneByName[m] # z
      BY <2>2, <1>1 DEF IInv, NamesInLockstep, n
    <2> QED BY <1>1, <1>2, <2>1, <2>2, ZoneRows DEF IInv, TypeOK, NamesInLockstep
  <1>7. CountsAccurate'
    <2>1. ASSUME NEW y \in Zones, zones'[y] # NoZone
          PROVE  zones'[y].records = Cardinality({r \in Records : records'[r] = y})
      <3>1. y # z /\ zones'[y] = zones[y]
        BY <2>1, <1>1 DEF IInv, TypeOK
      <3>2. {r \in Records : records'[r] = y} = {r \in Records : records[r] = y}
        BY <3>1, <1>3, DNSAssumption
      <3> QED BY <2>1, <3>1, <3>2 DEF IInv, CountsAccurate
    <2> QED BY <2>1 DEF CountsAccurate
  <1> QED BY <1>4, <1>5, <1>6, <1>7 DEF IInv

(* CreateRecord keeps the zone's index and its count in step. *)
LEMMA CreateRecordPreserves ==
    ASSUME IInv, NEW r \in Records, NEW z \in Zones, CreateRecord(r, z)
    PROVE  IInv'
  <1> DEFINE new == [name |-> zones[z].name, records |-> Cardinality(recordsByZ[z] \union {r})]
  <1>1. /\ records[r] = NoZone /\ zones[z] # NoZone
        /\ records' = [records EXCEPT ![r] = z]
        /\ recordsByZ' = [recordsByZ EXCEPT ![z] = recordsByZ[z] \union {r}]
        /\ zones' = [zones EXCEPT ![z] = new]
        /\ zoneByName' = zoneByName
    BY DEF CreateRecord
  <1>2. recordsByZ[z] \union {r} \in SUBSET Records
    BY DEF IInv, TypeOK
  <1>3. Cardinality(recordsByZ[z] \union {r}) \in Nat
    BY <1>2, RecordsCountable
  <1>4. /\ new \in ZoneRow /\ new # NoZone /\ new.name = zones[z].name
        /\ new.records = Cardinality(recordsByZ[z] \union {r})
    BY <1>1, <1>3, ZoneRows, DNSAssumption DEF IInv, ZoneRow
  <1> HIDE DEF new
  <1>5. TypeOK'
    BY <1>1, <1>2, <1>4 DEF IInv, TypeOK, ZoneRow
  <1>6. ForeignKeys'
    <2>1. \A s \in Records : records'[s] # NoZone => zones'[records'[s]] # NoZone
      BY <1>1, <1>4 DEF IInv, TypeOK, ForeignKeys
    <2>2. recordsByZ'[z] = {s \in Records : records'[s] = z}
      BY <1>1 DEF IInv, TypeOK, ForeignKeys
    <2>3. ASSUME NEW y \in Zones, y # z
          PROVE  recordsByZ'[y] = {s \in Records : records'[s] = y}
      BY <2>3, <1>1, DNSAssumption DEF IInv, TypeOK, ForeignKeys
    <2> QED BY <2>1, <2>2, <2>3 DEF ForeignKeys
  <1>7. NamesInLockstep'
    <2>1. \A y \in Zones : /\ zones'[y] # NoZone <=> zones[y] # NoZone
                           /\ zones[y] # NoZone => zones'[y].name = zones[y].name
      BY <1>1, <1>4 DEF IInv, TypeOK
    <2> QED BY <1>1, <2>1 DEF IInv, TypeOK, NamesInLockstep
  <1>8. CountsAccurate'
    <2>1. ASSUME NEW y \in Zones, y # z, zones'[y] # NoZone
          PROVE  zones'[y].records = Cardinality({s \in Records : records'[s] = y})
      <3>1. zones'[y] = zones[y] /\ recordsByZ'[y] = recordsByZ[y]
        BY <2>1, <1>1 DEF IInv, TypeOK
      <3>2. {s \in Records : records'[s] = y} = {s \in Records : records[s] = y}
        BY <3>1, <1>6 DEF ForeignKeys, IInv
      <3> QED BY <2>1, <3>1, <3>2 DEF IInv, CountsAccurate
    <2>2. recordsByZ'[z] = recordsByZ[z] \union {r} /\ zones'[z] = new
      BY <1>1 DEF IInv, TypeOK
    <2>3. {s \in Records : records'[s] = z} = recordsByZ[z] \union {r}
      BY <2>2, <1>6 DEF ForeignKeys
    <2>4. zones'[z].records = Cardinality({s \in Records : records'[s] = z})
      BY <2>2, <2>3, <1>4
    <2> QED BY <2>1, <2>4 DEF CountsAccurate
  <1> QED BY <1>5, <1>6, <1>7, <1>8 DEF IInv

(* DeleteRecord keeps them in step as well. *)
LEMMA DeleteRecordPreserves ==
    ASSUME IInv, NEW r \in Records, DeleteRecord(r)
    PROVE  IInv'
  <1> DEFINE z == records[r]
             new == [name |-> zones[z].name, records |-> Cardinality(recordsByZ[z] \ {r})]
  <1>1. z \in Zones /\ zones[z] # NoZone
    BY DEF DeleteRecord, IInv, TypeOK, ForeignKeys
  <1>2. /\ records' = [records EXCEPT ![r] = NoZone]
        /\ recordsByZ' = [recordsByZ EXCEPT ![z] = recordsByZ[z] \ {r}]
        /\ zones' = [zones EXCEPT ![z] = new]
        /\ zoneByName' = zoneByName
    BY <1>1 DEF DeleteRecord
  <1>3. recordsByZ[z] \ {r} \in SUBSET Records
    BY <1>1 DEF IInv, TypeOK
  <1>4. Cardinality(recordsByZ[z] \ {r}) \in Nat
    BY <1>3, RecordsCountable
  <1>5. /\ new \in ZoneRow /\ new # NoZone /\ new.name = zones[z].name
        /\ new.records = Cardinality(recordsByZ[z] \ {r})
    BY <1>1, <1>4, ZoneRows, DNSAssumption DEF IInv, ZoneRow
  <1> HIDE DEF new
  <1>6. TypeOK'
    BY <1>1, <1>2, <1>3, <1>5 DEF IInv, TypeOK, ZoneRow
  <1>7. ForeignKeys'
    <2>1. \A s \in Records : records'[s] # NoZone => zones'[records'[s]] # NoZone
      BY <1>1, <1>2, <1>5 DEF IInv, TypeOK, ForeignKeys
    <2>2. recordsByZ'[z] = {s \in Records : records'[s] = z}
      BY <1>1, <1>2, DNSAssumption DEF IInv, TypeOK, ForeignKeys
    <2>3. ASSUME NEW y \in Zones, y # z
          PROVE  recordsByZ'[y] = {s \in Records : records'[s] = y}
      BY <2>3, <1>1, <1>2, DNSAssumption DEF IInv, TypeOK, ForeignKeys
    <2> QED BY <2>1, <2>2, <2>3 DEF ForeignKeys
  <1>8. NamesInLockstep'
    <2>1. \A y \in Zones : /\ zones'[y] # NoZone <=> zones[y] # NoZone
                           /\ zones[y] # NoZone => zones'[y].name = zones[y].name
      BY <1>1, <1>2, <1>5 DEF IInv, TypeOK
    <2> QED BY <1>2, <2>1 DEF IInv, TypeOK, NamesInLockstep
  <1>9. CountsAccurate'
    <2>1. ASSUME NEW y \in Zones, y # z, zones'[y] # NoZone
          PROVE  zones'[y].records = Cardinality({s \in Records : records'[s] = y})
      <3>1. zones'[y] = zones[y] /\ recordsByZ'[y] = recordsByZ[y]
        BY <2>1, <1>1, <1>2 DEF IInv, TypeOK
      <3>2. {s \in Records : records'[s] = y} = {s \in Records : records[s] = y}
        BY <3>1, <1>7 DEF ForeignKeys, IInv
      <3> QED BY <2>1, <3>1, <3>2 DEF IInv, CountsAccurate
    <2>2. recordsByZ'[z] = recordsByZ[z] \ {r} /\ zones'[z] = new
      BY <1>1, <1>2 DEF IInv, TypeOK
    <2>3. {s \in Records : records'[s] = z} = recordsByZ[z] \ {r}
      BY <2>2, <1>1, <1>7 DEF ForeignKeys
    <2>4. zones'[z].records = Cardinality({s \in Records : records'[s] = z})
      BY <2>2, <2>3, <1>5
    <2> QED BY <2>1, <2>4 DEF CountsAccurate
  <1> QED BY <1>6, <1>7, <1>8, <1>9 DEF IInv

-----------------------------------------------------------------------------
(* IInv holds initially and survives every operation. *)
LEMMA IInvInit == Init => IInv
  <1> SUFFICES ASSUME Init PROVE IInv
    OBVIOUS
  <1>1. TypeOK
    BY DEF Init, TypeOK
  <1>2. ForeignKeys /\ NamesInLockstep /\ CountsAccurate
    BY DNSAssumption DEF Init, ForeignKeys, NamesInLockstep, CountsAccurate
  <1> QED BY <1>1, <1>2 DEF IInv

LEMMA IInvStep == IInv /\ [Next]_vars => IInv'
  <1> SUFFICES ASSUME IInv, [Next]_vars PROVE IInv'
    OBVIOUS
  <1>1. CASE Next
    BY <1>1, CreateZonePreserves, DeleteZonePreserves, CreateRecordPreserves,
       DeleteRecordPreserves DEF Next
  <1>2. CASE UNCHANGED vars
    BY <1>2 DEF IInv, TypeOK, ForeignKeys, NamesInLockstep, CountsAccurate, vars
  <1> QED BY <1>1, <1>2

LEMMA IInvAlways == Spec => []IInv
  BY IInvInit, IInvStep, PTL DEF Spec

(* The four maps keep their types: no operation stores anything but a row  *)
(* under a UUID, and a count is always a number of records.                *)
THEOREM TypeCorrect == Spec => []TypeOK
  <1>1. IInv => TypeOK
    BY DEF IInv
  <1> QED BY IInvAlways, <1>1, PTL

(* A record belongs to a zone that exists, and recordsByZ lists exactly a  *)
(* zone's records, after any sequence of creations and deletions: the      *)
(* cascade of DeleteZone misses no record and takes none of another zone.  *)
THEOREM ForeignKeysHold == Spec => []ForeignKeys
  <1>1. IInv => ForeignKeys
    BY DEF IInv
  <1> QED BY IInvAlways, <1>1, PTL

(* zoneByName names exactly the zones that exist, each once. *)
THEOREM NamesStayInLockstep == Spec => []NamesInLockstep
  <1>1. IInv => NamesInLockstep
    BY DEF IInv
  <1> QED BY IInvAlways, <1>1, PTL

(* The count of a zone is the number of its records.  The etcd store,      *)
(* which counts in the same way without the mutex, does not have this.     *)
THEOREM CountsStayAccurate == Spec => []CountsAccurate
  <1>1. IInv => CountsAccurate
    BY DEF IInv
  <1> QED BY IInvAlways, <1>1, PTL
=============================================================================
