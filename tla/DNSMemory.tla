------------------------------ MODULE DNSMemory ------------------------------
(***************************************************************************)
(* The in-memory DNS store (internal/store/dns/memory.go): zones, records  *)
(* and two secondary indexes under one mutex, so each operation is one     *)
(* action.  It is also the contract the etcd store is meant to honour      *)
(* (memory.go:12-14): DNSStore is checked against it.                      *)
(*                                                                         *)
(* A zone's name stands for (project, name); the fields nothing changes go *)
(* with it.  A record is the zone it belongs to.  A UUID deleted here      *)
(* leaves no trace, so using it again stands for minting another.  A key   *)
(* absent from recordsByZ maps to {}.  Failed calls change nothing.        *)
(***************************************************************************)
EXTENDS Naturals, FiniteSets

CONSTANTS Zones, Records, Names, NoZone

ASSUME DNSAssumption ==
    /\ IsFiniteSet(Records)
    /\ NoZone \notin Zones
    /\ NoZone \notin [name : Names, records : Nat]

VARIABLES
    zones,       \* uuid -> zone: its name and its denormalised record count
    zoneByName,  \* name -> zone uuid
    records,     \* record uuid -> zone uuid
    recordsByZ   \* zone uuid -> set of record uuids

vars == <<zones, zoneByName, records, recordsByZ>>

Init == /\ zones = [z \in Zones |-> NoZone]
        /\ zoneByName = [n \in Names |-> NoZone]
        /\ records = [r \in Records |-> NoZone]
        /\ recordsByZ = [z \in Zones |-> {}]

-----------------------------------------------------------------------------
CreateZone(z, n) ==
    /\ zones[z] = NoZone
    /\ zoneByName[n] = NoZone
    /\ zones' = [zones EXCEPT ![z] = [name |-> n, records |-> 0]]
    /\ zoneByName' = [zoneByName EXCEPT ![n] = z]
    /\ recordsByZ' = [recordsByZ EXCEPT ![z] = {}]
    /\ UNCHANGED records

(* Mutant: the records are left to be collected later. *)
DeleteZoneAlone(z) ==
    /\ zones[z] # NoZone
    /\ zones' = [zones EXCEPT ![z] = NoZone]
    /\ zoneByName' = [zoneByName EXCEPT ![zones[z].name] = NoZone]
    /\ UNCHANGED <<records, recordsByZ>>

(* Mutant: the name of the deleted zone stays taken. *)
DeleteZoneKeepName(z) ==
    /\ zones[z] # NoZone
    /\ records' = [r \in Records |-> IF r \in recordsByZ[z] THEN NoZone ELSE records[r]]
    /\ recordsByZ' = [recordsByZ EXCEPT ![z] = {}]
    /\ zones' = [zones EXCEPT ![z] = NoZone]
    /\ UNCHANGED zoneByName

(* The cascade goes by recordsByZ. *)
DeleteZone(z) ==
    /\ zones[z] # NoZone
    /\ records' = [r \in Records |-> IF r \in recordsByZ[z] THEN NoZone ELSE records[r]]
    /\ recordsByZ' = [recordsByZ EXCEPT ![z] = {}]
    /\ zones' = [zones EXCEPT ![z] = NoZone]
    /\ zoneByName' = [zoneByName EXCEPT ![zones[z].name] = NoZone]

(* Mutant: the count is taken before the record is added. *)
CreateRecordCountFirst(r, z) ==
    /\ records[r] = NoZone
    /\ zones[z] # NoZone
    /\ records' = [records EXCEPT ![r] = z]
    /\ recordsByZ' = [recordsByZ EXCEPT ![z] = @ \union {r}]
    /\ zones' = [zones EXCEPT ![z] = [name |-> zones[z].name,
                                      records |-> Cardinality(recordsByZ[z])]]
    /\ UNCHANGED zoneByName

CreateRecord(r, z) ==
    /\ records[r] = NoZone
    /\ zones[z] # NoZone
    /\ records' = [records EXCEPT ![r] = z]
    /\ recordsByZ' = [recordsByZ EXCEPT ![z] = @ \union {r}]
    /\ zones' = [zones EXCEPT ![z] = [name |-> zones[z].name,
                                      records |-> Cardinality(recordsByZ[z] \union {r})]]
    /\ UNCHANGED zoneByName

(* Mutant: the count is decremented twice. *)
DeleteRecordTwice(r) ==
    LET z == records[r]
    IN /\ z # NoZone
       /\ records' = [records EXCEPT ![r] = NoZone]
       /\ recordsByZ' = [recordsByZ EXCEPT ![z] = @ \ {r}]
       /\ zones' = [zones EXCEPT ![z] = [name |-> zones[z].name,
                                         records |-> zones[z].records - 2]]
       /\ UNCHANGED zoneByName

DeleteRecord(r) ==
    LET z == records[r]
    IN /\ z # NoZone
       /\ records' = [records EXCEPT ![r] = NoZone]
       /\ recordsByZ' = [recordsByZ EXCEPT ![z] = @ \ {r}]
       /\ zones' = IF zones[z] = NoZone THEN zones
                   ELSE [zones EXCEPT ![z] = [name |-> zones[z].name,
                                              records |-> Cardinality(recordsByZ[z] \ {r})]]
       /\ UNCHANGED zoneByName

Next == \/ \E z \in Zones, n \in Names : CreateZone(z, n)
        \/ \E z \in Zones : DeleteZone(z)
        \/ \E r \in Records, z \in Zones : CreateRecord(r, z)
        \/ \E r \in Records : DeleteRecord(r)

Spec == Init /\ [][Next]_vars

-----------------------------------------------------------------------------
(* Properties *)

(* The types of the four maps. *)
TypeOK ==
    /\ zones \in [Zones -> [name : Names, records : Nat] \union {NoZone}]
    /\ zoneByName \in [Names -> Zones \union {NoZone}]
    /\ records \in [Records -> Zones \union {NoZone}]
    /\ recordsByZ \in [Zones -> SUBSET Records]

(* "Foreign-key invariants live HERE" (memory.go:12-13): every record      *)
(* belongs to a zone that exists, and recordsByZ, which the cascade trusts, *)
(* lists exactly a zone's records.                                         *)
ForeignKeys ==
    /\ \A r \in Records : records[r] # NoZone => zones[records[r]] # NoZone
    /\ \A z \in Zones : recordsByZ[z] = {r \in Records : records[r] = z}

(* zoneByName names exactly the zones that exist: no two zones share a     *)
(* name, and the name of a deleted zone is free again.                     *)
NamesInLockstep ==
    /\ \A z \in Zones : zones[z] # NoZone => zoneByName[zones[z].name] = z
    /\ \A n \in Names : zoneByName[n] # NoZone =>
         zones[zoneByName[n]] # NoZone /\ zones[zoneByName[n]].name = n

(* The denormalised count of a zone is the number of its records.          *)
CountsAccurate ==
    \A z \in Zones : zones[z] # NoZone =>
        zones[z].records = Cardinality({r \in Records : records[r] = z})
=============================================================================
