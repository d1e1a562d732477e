---------------------------- MODULE LBStoreProofs ----------------------------
(***************************************************************************)
(* Proofs about LBStore, for any sets of load balancers, handlers, names   *)
(* and backend lists and any number of attempts.                           *)
(***************************************************************************)
EXTENDS LBStore, TLAPS

(* A UUID being created is known to no other call that could write it. *)
Freshness ==
    /\ deleted \subseteq minted
    /\ \A u \in LBs : rows[u] # NoLB => u \in minted
    /\ \A h \in Handlers : pc[h] \in {"scan", "put"} =>
         req[h].lb \in minted /\ rows[req[h].lb] = NoLB /\ req[h].lb \notin deleted
    /\ \A g, h \in Handlers :
         (g # h /\ pc[g] \in {"scan", "put"} /\ pc[h] \in {"scan", "put"})
            => req[g].lb # req[h].lb

(* No row, and no row read, is stamped with a revision still to come. *)
RevisionsBounded ==
    /\ \A u \in LBs : rows[u] # NoLB => rows[u].rev <= rev
    /\ \A h \in Handlers : pc[h] = "cas" =>
         seen[h] # NoLB /\ seen[h].rev <= rev /\ readAt[h] <= rev

(* A ModRevision identifies one value of a row: if the row's still equals  *)
(* the one read, the row is the one read.  And a row nobody wrote since is *)
(* the one read.                                                           *)
ReadsIdentified ==
    \A h \in Handlers : pc[h] = "cas" =>
        /\ ModRevisionMatches(h) => rows[req[h].lb] = seen[h]
        /\ readAt[h] = rev => rows[req[h].lb] = seen[h]

(* Each failed attempt was overtaken by a write of its own. *)
Overtaken ==
    \A h \in Handlers :
        /\ began[h] <= rev
        /\ pc[h] \in {"get", "cas"} => /\ attempt[h] < maxAttempts
                                       /\ rev >= began[h] + attempt[h]
        /\ pc[h] = "cas" => readAt[h] >= began[h] + attempt[h]

IInv == /\ TypeOK
        /\ DeletedStaysDeleted
        /\ Freshness
        /\ RevisionsBounded
        /\ ReadsIdentified
        /\ Overtaken
        /\ ConflictMeansOvertaken

-----------------------------------------------------------------------------
(* A Create call arrives with a UUID nobody has. *)
LEMMA CallCreatePreserves ==
    ASSUME IInv, NEW h \in Handlers, CallCreate(h)
    PROVE  IInv'
  <1> USE AttemptsAssumption DEF Request
  <1>1. TypeOK'
    BY DEF IInv, TypeOK, CallCreate, Call, etcdVars
  <1>2. DeletedStaysDeleted'
    BY DEF IInv, DeletedStaysDeleted, TypeOK, Freshness, CallCreate, Call, etcdVars
  <1>3. Freshness'
    BY DEF IInv, Freshness, TypeOK, CallCreate, Call, etcdVars
  <1>4. RevisionsBounded'
    BY DEF IInv, RevisionsBounded, TypeOK, ModRevisionMatches, CallCreate, Call, etcdVars
  <1>5. ReadsIdentified'
    BY DEF IInv, ReadsIdentified, TypeOK, ModRevisionMatches, RevisionsBounded, CallCreate, Call, etcdVars
  <1>6. Overtaken'
    BY DEF IInv, Overtaken, TypeOK, RevisionsBounded, ReadsIdentified, ModRevisionMatches, CallCreate, Call, etcdVars
  <1>7. ConflictMeansOvertaken'
    BY DEF IInv, ConflictMeansOvertaken, TypeOK, Overtaken, ReadsIdentified, RevisionsBounded, ModRevisionMatches, CallCreate, Call, etcdVars
  <1> QED BY <1>1, <1>2, <1>3, <1>4, <1>5, <1>6, <1>7 DEF IInv

(* A Delete call arrives. *)
LEMMA CallDeletePreserves ==
    ASSUME IInv, NEW h \in Handlers, CallDelete(h)
    PROVE  IInv'
  <1> USE AttemptsAssumption DEF Request
  <1>1. TypeOK'
    BY DEF IInv, TypeOK, CallDelete, Call, etcdVars
  <1>2. DeletedStaysDeleted'
    BY DEF IInv, DeletedStaysDeleted, TypeOK, Freshness, CallDelete, Call, etcdVars
  <1>3. Freshness'
    BY DEF IInv, Freshness, TypeOK, CallDelete, Call, etcdVars
  <1>4. RevisionsBounded'
    BY DEF IInv, RevisionsBounded, TypeOK, ModRevisionMatches, CallDelete, Call, etcdVars
  <1>5. ReadsIdentified'
    BY DEF IInv, ReadsIdentified, TypeOK, ModRevisionMatches, RevisionsBounded, CallDelete, Call, etcdVars
  <1>6. Overtaken'
    BY DEF IInv, Overtaken, TypeOK, RevisionsBounded, ReadsIdentified, ModRevisionMatches, CallDelete, Call, etcdVars
  <1>7. ConflictMeansOvertaken'
    BY DEF IInv, ConflictMeansOvertaken, TypeOK, Overtaken, ReadsIdentified, RevisionsBounded, ModRevisionMatches, CallDelete, Call, etcdVars
  <1> QED BY <1>1, <1>2, <1>3, <1>4, <1>5, <1>6, <1>7 DEF IInv

(* A SetBackends call arrives. *)
LEMMA CallSetBackendsPreserves ==
    ASSUME IInv, NEW h \in Handlers, CallSetBackends(h)
    PROVE  IInv'
  <1> USE AttemptsAssumption DEF Request
  <1>1. TypeOK'
    BY DEF IInv, TypeOK, CallSetBackends, Call, etcdVars
  <1>2. DeletedStaysDeleted'
    BY DEF IInv, DeletedStaysDeleted, TypeOK, Freshness, CallSetBackends, Call, etcdVars
  <1>3. Freshness'
    BY DEF IInv, Freshness, TypeOK, CallSetBackends, Call, etcdVars
  <1>4. RevisionsBounded'
    BY DEF IInv, RevisionsBounded, TypeOK, ModRevisionMatches, CallSetBackends, Call, etcdVars
  <1>5. ReadsIdentified'
    BY DEF IInv, ReadsIdentified, TypeOK, ModRevisionMatches, RevisionsBounded, CallSetBackends, Call, etcdVars
  <1>6. Overtaken'
    BY DEF IInv, Overtaken, TypeOK, RevisionsBounded, ReadsIdentified, ModRevisionMatches, CallSetBackends, Call, etcdVars
  <1>7. ConflictMeansOvertaken'
    BY DEF IInv, ConflictMeansOvertaken, TypeOK, Overtaken, ReadsIdentified, RevisionsBounded, ModRevisionMatches, CallSetBackends, Call, etcdVars
  <1> QED BY <1>1, <1>2, <1>3, <1>4, <1>5, <1>6, <1>7 DEF IInv

(* The uniqueness scan changes nothing in etcd. *)
LEMMA CreateScanPreserves ==
    ASSUME IInv, NEW h \in Handlers, CreateScan(h)
    PROVE  IInv'
  <1> USE AttemptsAssumption DEF Request
  <1>1. TypeOK'
    BY DEF IInv, TypeOK, CreateScan, Return, etcdVars, handlerVars
  <1>2. DeletedStaysDeleted'
    BY DEF IInv, DeletedStaysDeleted, TypeOK, Freshness, CreateScan, Return, etcdVars, handlerVars
  <1>3. Freshness'
    BY DEF IInv, Freshness, TypeOK, CreateScan, Return, etcdVars, handlerVars
  <1>4. RevisionsBounded'
    BY DEF IInv, RevisionsBounded, TypeOK, ModRevisionMatches, CreateScan, Return, etcdVars, handlerVars
  <1>5. ReadsIdentified'
    BY DEF IInv, ReadsIdentified, TypeOK, ModRevisionMatches, RevisionsBounded, CreateScan, Return, etcdVars, handlerVars
  <1>6. Overtaken'
    BY DEF IInv, Overtaken, TypeOK, RevisionsBounded, ReadsIdentified, ModRevisionMatches, CreateScan, Return, etcdVars, handlerVars
  <1>7. ConflictMeansOvertaken'
    BY DEF IInv, ConflictMeansOvertaken, TypeOK, Overtaken, ReadsIdentified, RevisionsBounded, ModRevisionMatches, CreateScan, Return, etcdVars, handlerVars
  <1> QED BY <1>1, <1>2, <1>3, <1>4, <1>5, <1>6, <1>7 DEF IInv

(* The put of a new row. *)
LEMMA CreateTxnPreserves ==
    ASSUME IInv, NEW h \in Handlers, CreateTxn(h)
    PROVE  IInv'
  <1> USE AttemptsAssumption, NoLBAssumption DEF Request
  <1> DEFINE u == req[h].lb
             new == [name |-> req[h].name, backends |-> req[h].backends, rev |-> rev + 1]
  <1>1. /\ u \in LBs /\ rows[u] = NoLB /\ u \notin deleted /\ u \in minted
        /\ pc[h] = "put" /\ rev \in Nat
    BY DEF CreateTxn, IInv, TypeOK, Freshness
  <1>2. new \in Row /\ new.rev = rev + 1 /\ new # NoLB
    BY <1>1 DEF IInv, TypeOK, Row
  <1>3. rows' = [rows EXCEPT ![u] = new] /\ rev' = rev + 1
    BY <1>1 DEF CreateTxn
  <1>4. /\ pc' = [pc EXCEPT ![h] = "idle"]
        /\ result' \in {[result EXCEPT ![h] = "ok"], [result EXCEPT ![h] = "error"]}
        /\ UNCHANGED <<deleted, minted, calls, req, began, seen, attempt, readAt>>
    BY <1>1 DEF CreateTxn, Return, ReturnWritten, handlerVars
  <1> HIDE DEF new, u
  <1>5. TypeOK'
    BY <1>1, <1>2, <1>3, <1>4 DEF IInv, TypeOK
  <1>6. DeletedStaysDeleted'
    BY <1>1, <1>3, <1>4 DEF IInv, TypeOK, DeletedStaysDeleted
  <1>7. Freshness'
    BY <1>1, <1>2, <1>3, <1>4 DEF IInv, TypeOK, Freshness, u
  <1>8. RevisionsBounded'
    <2>1. \A v \in LBs : rows'[v] # NoLB => rows'[v].rev <= rev'
      <3>1. ASSUME NEW v \in LBs, v # u, rows'[v] # NoLB PROVE rows'[v].rev <= rev'
        BY <3>1, <1>1, <1>3 DEF IInv, TypeOK, RevisionsBounded, Row
      <3>2. rows'[u].rev <= rev'
        BY <1>1, <1>2, <1>3 DEF IInv, TypeOK
      <3> QED BY <3>1, <3>2
    <2>2. \A g \in Handlers : pc'[g] = "cas" =>
            seen'[g] # NoLB /\ seen'[g].rev <= rev' /\ readAt'[g] <= rev'
      BY <1>1, <1>3, <1>4 DEF IInv, TypeOK, RevisionsBounded, Row
    <2> QED BY <2>1, <2>2 DEF RevisionsBounded
  <1>9. ReadsIdentified'
    BY <1>1, <1>2, <1>3, <1>4 DEF IInv, TypeOK, ReadsIdentified, RevisionsBounded,
                                 ModRevisionMatches, Row
  <1>10. Overtaken'
    BY <1>1, <1>3, <1>4 DEF IInv, TypeOK, Overtaken
  <1>11. ConflictMeansOvertaken'
    BY <1>1, <1>3, <1>4 DEF IInv, TypeOK, ConflictMeansOvertaken
  <1> QED BY <1>5, <1>6, <1>7, <1>8, <1>9, <1>10, <1>11 DEF IInv

(* The removal of a row. *)
LEMMA DeletePreserves ==
    ASSUME IInv, NEW h \in Handlers, Delete(h)
    PROVE  IInv'
  <1> USE AttemptsAssumption, NoLBAssumption DEF Request
  <1> DEFINE u == req[h].lb
  <1>1. u \in LBs /\ pc[h] = "delete" /\ rev \in Nat
    BY DEF Delete, IInv, TypeOK
  <1>2. /\ pc' = [pc EXCEPT ![h] = "idle"]
        /\ \E o \in {"ok", "error", "notfound"} : result' = [result EXCEPT ![h] = o]
        /\ UNCHANGED <<minted, calls, req, began, seen, attempt, readAt>>
    BY DEF Delete, Return, ReturnWritten, handlerVars
  <1>3. \/ rows' = rows /\ rev' = rev /\ deleted' = deleted
        \/ /\ rows[u] # NoLB /\ rows' = [rows EXCEPT ![u] = NoLB]
           /\ rev' = rev + 1 /\ deleted' = deleted \union {u}
    BY DEF Delete, etcdVars
  <1> HIDE DEF u
  <1>5. TypeOK'
    BY <1>1, <1>2, <1>3 DEF IInv, TypeOK
  <1>6. DeletedStaysDeleted'
    BY <1>1, <1>3 DEF IInv, TypeOK, DeletedStaysDeleted
  <1>7. Freshness'
    BY <1>1, <1>2, <1>3 DEF IInv, TypeOK, Freshness
  <1>8. RevisionsBounded'
    <2>1. \A v \in LBs : rows'[v] # NoLB => rows'[v] = rows[v] /\ rows[v] \in Row
      BY <1>1, <1>3 DEF IInv, TypeOK
    <2>2. \A v \in LBs : rows'[v] # NoLB => rows'[v].rev <= rev'
      BY <2>1, <1>1, <1>3 DEF IInv, RevisionsBounded, Row
    <2>3. \A g \in Handlers : pc'[g] = "cas" =>
            seen'[g] # NoLB /\ seen'[g].rev <= rev' /\ readAt'[g] <= rev'
      BY <1>1, <1>2, <1>3 DEF IInv, TypeOK, RevisionsBounded, Row
    <2> QED BY <2>2, <2>3 DEF RevisionsBounded
  <1>9. ReadsIdentified'
    BY <1>1, <1>2, <1>3 DEF IInv, TypeOK, ReadsIdentified, RevisionsBounded,
                           ModRevisionMatches
  <1>10. Overtaken'
    BY <1>1, <1>2, <1>3 DEF IInv, TypeOK, Overtaken
  <1>11. ConflictMeansOvertaken'
    BY <1>1, <1>2, <1>3 DEF IInv, TypeOK, ConflictMeansOvertaken
  <1> QED BY <1>5, <1>6, <1>7, <1>8, <1>9, <1>10, <1>11 DEF IInv

(* The read of a SetBackends attempt. *)
LEMMA SetBackendsGetPreserves ==
    ASSUME IInv, NEW h \in Handlers, SetBackendsGet(h)
    PROVE  IInv'
  <1> USE AttemptsAssumption DEF Request
  <1>1. TypeOK'
    BY DEF IInv, TypeOK, SetBackendsGet, Return, etcdVars, handlerVars
  <1>2. DeletedStaysDeleted'
    BY DEF IInv, DeletedStaysDeleted, TypeOK, Freshness, SetBackendsGet, Return, etcdVars, handlerVars
  <1>3. Freshness'
    BY DEF IInv, Freshness, TypeOK, SetBackendsGet, Return, etcdVars, handlerVars
  <1>4. RevisionsBounded'
    BY DEF IInv, RevisionsBounded, TypeOK, ModRevisionMatches, SetBackendsGet, Return, etcdVars, handlerVars
  <1>5. ReadsIdentified'
    BY DEF IInv, ReadsIdentified, TypeOK, ModRevisionMatches, RevisionsBounded, SetBackendsGet, Return, etcdVars, handlerVars
  <1>6. Overtaken'
    BY DEF IInv, Overtaken, TypeOK, RevisionsBounded, ReadsIdentified, ModRevisionMatches, SetBackendsGet, Return, etcdVars, handlerVars
  <1>7. ConflictMeansOvertaken'
    BY DEF IInv, ConflictMeansOvertaken, TypeOK, Overtaken, ReadsIdentified, RevisionsBounded, ModRevisionMatches, SetBackendsGet, Return, etcdVars, handlerVars
  <1> QED BY <1>1, <1>2, <1>3, <1>4, <1>5, <1>6, <1>7 DEF IInv

(* The guarded write of a SetBackends attempt. *)
LEMMA SetBackendsCasPreserves ==
    ASSUME IInv, NEW h \in Handlers, SetBackendsCas(h)
    PROVE  IInv'
  <1> USE AttemptsAssumption, NoLBAssumption DEF Request
  <1> DEFINE u == req[h].lb
             new == [name |-> seen[h].name, backends |-> req[h].backends, rev |-> rev + 1]
  <1>1. /\ u \in LBs /\ pc[h] = "cas" /\ rev \in Nat /\ seen[h] \in Row
        /\ UNCHANGED <<deleted, minted, calls, req, began, seen, readAt>>
    BY DEF SetBackendsCas, IInv, TypeOK, RevisionsBounded, handlerVars
  <1>2. CASE ModRevisionMatches(h)
    <2>1. new \in Row /\ new.rev = rev + 1 /\ new # NoLB
      BY <1>1 DEF IInv, TypeOK, Row
    <2>2. rows[u] # NoLB /\ u \in minted /\ u \notin deleted
      BY <1>1, <1>2 DEF ModRevisionMatches, IInv, Freshness, DeletedStaysDeleted
    <2>3. rows' = [rows EXCEPT ![u] = new] /\ rev' = rev + 1 /\ attempt' = attempt
      BY <1>2 DEF SetBackendsCas
    <2>4. /\ pc' = [pc EXCEPT ![h] = "idle"]
          /\ result' \in {[result EXCEPT ![h] = "ok"], [result EXCEPT ![h] = "error"]}
      BY <1>2 DEF SetBackendsCas, Return, ReturnWritten
    <2> HIDE DEF new, u
    <2>5. TypeOK'
      BY <1>1, <2>1, <2>3, <2>4 DEF IInv, TypeOK
    <2>6. DeletedStaysDeleted'
      BY <1>1, <2>2, <2>3 DEF IInv, TypeOK, DeletedStaysDeleted
    <2>7. Freshness'
      BY <1>1, <2>1, <2>2, <2>3, <2>4 DEF IInv, TypeOK, Freshness
    <2>8. RevisionsBounded'
      <3>1. ASSUME NEW v \in LBs, v # u, rows'[v] # NoLB PROVE rows'[v].rev <= rev'
        BY <3>1, <1>1, <2>3 DEF IInv, TypeOK, RevisionsBounded, Row
      <3>2. rows'[u].rev <= rev'
        BY <1>1, <2>1, <2>3 DEF IInv, TypeOK
      <3>3. \A g \in Handlers : pc'[g] = "cas" =>
              seen'[g] # NoLB /\ seen'[g].rev <= rev' /\ readAt'[g] <= rev'
        BY <1>1, <2>3, <2>4 DEF IInv, TypeOK, RevisionsBounded, Row
      <3> QED BY <3>1, <3>2, <3>3 DEF RevisionsBounded
    <2>9. ReadsIdentified'
      BY <1>1, <2>1, <2>3, <2>4 DEF IInv, TypeOK, ReadsIdentified, RevisionsBounded,
                                   ModRevisionMatches, Row
    <2>10. Overtaken'
      BY <1>1, <2>3, <2>4 DEF IInv, TypeOK, Overtaken
    <2>11. ConflictMeansOvertaken'
      BY <1>1, <2>3, <2>4 DEF IInv, TypeOK, ConflictMeansOvertaken
    <2> QED BY <2>5, <2>6, <2>7, <2>8, <2>9, <2>10, <2>11 DEF IInv
  <1>3. CASE ~ModRevisionMatches(h)
    <2>1. rows' = rows /\ rev' = rev /\ attempt' = [attempt EXCEPT ![h] = @ + 1]
      BY <1>3 DEF SetBackendsCas
    <2>2. /\ attempt[h] + 1 < maxAttempts =>
               pc' = [pc EXCEPT ![h] = "get"] /\ result' = result
          /\ ~(attempt[h] + 1 < maxAttempts) =>
               pc' = [pc EXCEPT ![h] = "idle"] /\ result' = [result EXCEPT ![h] = "conflict"]
      BY <1>3 DEF SetBackendsCas, Return
    <2>3. attempt[h] \in Nat /\ attempt[h] < maxAttempts /\ began[h] \in Nat
      BY <1>1 DEF IInv, Overtaken, TypeOK
    <2>4. rev >= began[h] + attempt[h] + 1
      <3>1. rows[u] # seen[h]
        BY <1>1, <1>3 DEF ModRevisionMatches
      <3>2. readAt[h] # rev /\ readAt[h] <= rev /\ readAt[h] \in Nat
        BY <1>1, <3>1 DEF IInv, ReadsIdentified, RevisionsBounded, TypeOK
      <3>3. readAt[h] >= began[h] + attempt[h]
        BY <1>1 DEF IInv, Overtaken
      <3> QED BY <1>1, <2>3, <3>2, <3>3
    <2>5. TypeOK'
      <3> HIDE DEF u, new
      <3>1. attempt[h] + 1 \in 0..maxAttempts
        BY <2>3
      <3>2. attempt' \in [Handlers -> 0..maxAttempts]
        BY <2>1, <3>1 DEF IInv, TypeOK
      <3>3. /\ pc' \in [Handlers -> {"idle", "scan", "put", "delete", "get", "cas"}]
            /\ result' \in [Handlers -> {"none", "ok", "error", "exists", "notfound", "conflict"}]
        BY <2>2 DEF IInv, TypeOK
      <3> QED BY <1>1, <2>1, <3>2, <3>3 DEF IInv, TypeOK
    <2>6. DeletedStaysDeleted'
      BY <1>1, <2>1 DEF IInv, DeletedStaysDeleted
    <2>7. Freshness'
      BY <1>1, <2>1, <2>2 DEF IInv, TypeOK, Freshness
    <2>8. RevisionsBounded'
      BY <1>1, <2>1, <2>2 DEF IInv, TypeOK, RevisionsBounded
    <2>9. ReadsIdentified'
      BY <1>1, <2>1, <2>2 DEF IInv, TypeOK, ReadsIdentified, ModRevisionMatches
    <2>10. Overtaken'
      BY <1>1, <2>1, <2>2, <2>3, <2>4 DEF IInv, TypeOK, Overtaken
    <2>11. ConflictMeansOvertaken'
      BY <1>1, <2>1, <2>2, <2>3, <2>4 DEF IInv, TypeOK, ConflictMeansOvertaken
    <2> QED BY <2>5, <2>6, <2>7, <2>8, <2>9, <2>10, <2>11 DEF IInv
  <1> QED BY <1>2, <1>3

(* A failed request. *)
LEMMA EtcdErrorPreserves ==
    ASSUME IInv, NEW h \in Handlers, EtcdError(h)
    PROVE  IInv'
  <1> USE AttemptsAssumption DEF Request
  <1>1. TypeOK'
    BY DEF IInv, TypeOK, EtcdError, Return, etcdVars, handlerVars
  <1>2. DeletedStaysDeleted'
    BY DEF IInv, DeletedStaysDeleted, TypeOK, Freshness, EtcdError, Return, etcdVars, handlerVars
  <1>3. Freshness'
    BY DEF IInv, Freshness, TypeOK, EtcdError, Return, etcdVars, handlerVars
  <1>4. RevisionsBounded'
    BY DEF IInv, RevisionsBounded, TypeOK, ModRevisionMatches, EtcdError, Return, etcdVars, handlerVars
  <1>5. ReadsIdentified'
    BY DEF IInv, ReadsIdentified, TypeOK, ModRevisionMatches, RevisionsBounded, EtcdError, Return, etcdVars, handlerVars
  <1>6. Overtaken'
    BY DEF IInv, Overtaken, TypeOK, RevisionsBounded, ReadsIdentified, ModRevisionMatches, EtcdError, Return, etcdVars, handlerVars
  <1>7. ConflictMeansOvertaken'
    BY DEF IInv, ConflictMeansOvertaken, TypeOK, Overtaken, ReadsIdentified, RevisionsBounded, ModRevisionMatches, EtcdError, Return, etcdVars, handlerVars
  <1> QED BY <1>1, <1>2, <1>3, <1>4, <1>5, <1>6, <1>7 DEF IInv

-----------------------------------------------------------------------------
(* IInv holds initially and survives every step. *)
LEMMA IInvInit == Init => IInv
  <1> USE AttemptsAssumption, NoLBAssumption
  <1> SUFFICES ASSUME Init PROVE IInv
    OBVIOUS
  <1>1. TypeOK
    BY DEF Init, TypeOK
  <1>2. DeletedStaysDeleted /\ Freshness /\ RevisionsBounded /\ ReadsIdentified
    BY DEF Init, DeletedStaysDeleted, Freshness, RevisionsBounded, ReadsIdentified
  <1>3. Overtaken /\ ConflictMeansOvertaken
    BY DEF Init, Overtaken, ConflictMeansOvertaken
  <1> QED BY <1>1, <1>2, <1>3 DEF IInv

LEMMA IInvStep == IInv /\ [Next]_vars => IInv'
  <1> SUFFICES ASSUME IInv, [Next]_vars PROVE IInv'
    OBVIOUS
  <1>1. CASE Next
    <2> PICK h \in Handlers : \/ CallCreate(h) \/ CallDelete(h) \/ CallSetBackends(h)
                              \/ CreateScan(h) \/ CreateTxn(h) \/ Delete(h)
                              \/ SetBackendsGet(h) \/ SetBackendsCas(h) \/ EtcdError(h)
      BY <1>1 DEF Next
    <2> QED BY CallCreatePreserves, CallDeletePreserves, CallSetBackendsPreserves,
               CreateScanPreserves, CreateTxnPreserves, DeletePreserves,
               SetBackendsGetPreserves, SetBackendsCasPreserves, EtcdErrorPreserves
  <1>2. CASE UNCHANGED vars
    BY <1>2 DEF IInv, TypeOK, DeletedStaysDeleted, Freshness, RevisionsBounded,
                ReadsIdentified, ModRevisionMatches, Overtaken, ConflictMeansOvertaken, vars
  <1> QED BY <1>1, <1>2

LEMMA IInvAlways == Spec => []IInv
  BY IInvInit, IInvStep, PTL DEF Spec

(* The store's and the handlers' state keeps its types, for any number of  *)
(* handlers and calls.                                                     *)
THEOREM TypeCorrect == Spec => []TypeOK
  <1>1. IInv => TypeOK
    BY DEF IInv
  <1> QED BY IInvAlways, <1>1, PTL

(* No interleaving of Create, Delete and SetBackends brings a deleted load *)
(* balancer back.                                                          *)
THEOREM DeletionIsFinal == Spec => []DeletedStaysDeleted
  <1>1. IInv => DeletedStaysDeleted
    BY DEF IInv
  <1> QED BY IInvAlways, <1>1, PTL

(* SetBackends gives up only when maxAttempts other writes overtook it. *)
THEOREM ConflictsAreEarned == Spec => []ConflictMeansOvertaken
  <1>1. IInv => ConflictMeansOvertaken
    BY DEF IInv
  <1> QED BY IInvAlways, <1>1, PTL

-----------------------------------------------------------------------------
(* Refinement.  What a step does to the rows, seen through tableOf.        *)

(* A row read back without its revision. *)
Content(r) == IF r = NoLB THEN NoLB ELSE [name |-> r.name, backends |-> r.backends]

LEMMA TableUpdate ==
    ASSUME TypeOK, NEW u \in LBs, NEW r, rows' = [rows EXCEPT ![u] = r]
    PROVE  tableOf' = [tableOf EXCEPT ![u] = Content(r)]
  BY DEF TypeOK, tableOf, Content

(* A row that is present is present in the table, with its contents. *)
LEMMA PresentRow ==
    ASSUME TypeOK, NEW u \in LBs, rows[u] # NoLB
    PROVE  /\ tableOf[u] = [name |-> rows[u].name, backends |-> rows[u].backends]
           /\ tableOf[u] # NoLB
  <1>1. rows[u] \in Row
    BY DEF TypeOK
  <1>2. [name |-> rows[u].name, backends |-> rows[u].backends]
            \in [name : Names, backends : BackendLists]
    BY <1>1 DEF Row
  <1> QED BY <1>2, NoLBAssumption DEF tableOf

(* A put inserts a row under a UUID never removed. *)
LEMMA CreateTxnRefines ==
    ASSUME IInv, NEW h \in Handlers, CreateTxn(h)
    PROVE  \E u \in LBs : Register!Insert(u)
  <1> USE NoLBAssumption
  <1> DEFINE u == req[h].lb
             new == [name |-> req[h].name, backends |-> req[h].backends, rev |-> rev + 1]
  <1>1. u \in LBs /\ rows[u] = NoLB /\ u \notin deleted /\ rev \in Nat
    BY DEF CreateTxn, IInv, TypeOK, Freshness, Request
  <1>2. new \in Row /\ req[h].name \in Names /\ req[h].backends \in BackendLists
    BY <1>1 DEF IInv, TypeOK, Row, Request
  <1>3. rows' = [rows EXCEPT ![u] = new] /\ deleted' = deleted
    BY <1>1 DEF CreateTxn
  <1>4. Content(new) = [name |-> req[h].name, backends |-> req[h].backends]
    BY <1>2 DEF Content
  <1>5. tableOf[u] = NoLB
    BY <1>1 DEF tableOf
  <1>6. tableOf' = [tableOf EXCEPT ![u] = Content(new)]
    BY <1>1, <1>3, TableUpdate DEF IInv
  <1> QED BY <1>1, <1>2, <1>3, <1>4, <1>5, <1>6 DEF Register!Insert

(* A removal removes. *)
LEMMA DeleteRefines ==
    ASSUME IInv, NEW h \in Handlers, Delete(h)
    PROVE  (\E u \in LBs : Register!Remove(u)) \/ UNCHANGED <<tableOf, deleted>>
  <1> USE NoLBAssumption
  <1> DEFINE u == req[h].lb
  <1>1. u \in LBs
    BY DEF IInv, TypeOK, Request
  <1>2. CASE rows[u] = NoLB
    BY <1>2 DEF Delete, etcdVars, tableOf
  <1>3. CASE rows[u] # NoLB
    <2>1. rows' = [rows EXCEPT ![u] = NoLB] /\ deleted' = deleted \union {u}
      BY <1>3 DEF Delete
    <2>2. tableOf' = [tableOf EXCEPT ![u] = NoLB]
      BY <1>1, <2>1, TableUpdate DEF IInv, Content
    <2>5. tableOf[u] # NoLB
      BY <1>1, <1>3, PresentRow DEF IInv
    <2> QED BY <1>1, <2>1, <2>2, <2>5 DEF Register!Remove
  <1> QED BY <1>2, <1>3

(* A guarded write replaces the backend list of the row it read, which is  *)
(* the row still there.                                                    *)
LEMMA SetBackendsCasRefines ==
    ASSUME IInv, NEW h \in Handlers, SetBackendsCas(h)
    PROVE  (\E u \in LBs : Register!Replace(u)) \/ UNCHANGED <<tableOf, deleted>>
  <1> USE NoLBAssumption
  <1> DEFINE u == req[h].lb
             new == [name |-> seen[h].name, backends |-> req[h].backends, rev |-> rev + 1]
  <1>1. u \in LBs /\ req[h].backends \in BackendLists /\ rev \in Nat
    BY DEF IInv, TypeOK, Request
  <1>2. CASE ~ModRevisionMatches(h)
    BY <1>2 DEF SetBackendsCas, tableOf
  <1>3. CASE ModRevisionMatches(h)
    <2>1. rows[u] # NoLB /\ rows[u] = seen[h]
      BY <1>3 DEF SetBackendsCas, ModRevisionMatches, IInv, ReadsIdentified
    <2>2. rows' = [rows EXCEPT ![u] = new] /\ deleted' = deleted
      BY <1>3 DEF SetBackendsCas
    <2>3. new \in Row
      BY <1>1, <2>1 DEF IInv, TypeOK, Row
    <2>4. Content(new) = [name |-> rows[u].name, backends |-> req[h].backends]
      BY <2>1, <2>3 DEF Content
    <2>5. tableOf' = [tableOf EXCEPT ![u] = Content(new)]
      BY <1>1, <2>2, TableUpdate DEF IInv
    <2>6. /\ tableOf[u] # NoLB
          /\ tableOf[u] = [name |-> rows[u].name, backends |-> rows[u].backends]
      BY <1>1, <2>1, PresentRow DEF IInv
    <2> HIDE DEF u, new
    <2>7. tableOf[u].name = rows[u].name
      BY <2>6
    <2> QED BY <1>1, <2>2, <2>4, <2>5, <2>6, <2>7 DEF Register!Replace
  <1> QED BY <1>2, <1>3

(* The etcd store, with all its interleavings, implements the indivisible  *)
(* table of LBRegister: SetBackends loses no update and writes no stale    *)
(* field, and Create and Delete take effect once.                          *)
THEOREM StoreImplementsRegister == Spec => ImplementsRegister
  <1>1. Init => Register!Init
    BY DEF Init, Register!Init, tableOf
  <1>2. IInv /\ [Next]_vars => [Register!Next]_<<tableOf, deleted>>
    <2> SUFFICES ASSUME IInv, [Next]_vars
                 PROVE  Register!Next \/ UNCHANGED <<tableOf, deleted>>
      OBVIOUS
    <2>1. CASE UNCHANGED vars
      BY <2>1 DEF vars, tableOf
    <2>2. ASSUME NEW h \in Handlers,
                 \/ CallCreate(h) \/ CallDelete(h) \/ CallSetBackends(h)
                 \/ CreateScan(h) \/ SetBackendsGet(h) \/ EtcdError(h)
          PROVE  UNCHANGED <<tableOf, deleted>>
      BY <2>2 DEF CallCreate, CallDelete, CallSetBackends, Call, CreateScan,
                  SetBackendsGet, EtcdError, etcdVars, tableOf
    <2>3. ASSUME NEW h \in Handlers, CreateTxn(h) \/ Delete(h) \/ SetBackendsCas(h)
          PROVE  Register!Next \/ UNCHANGED <<tableOf, deleted>>
      BY <2>3, CreateTxnRefines, DeleteRefines, SetBackendsCasRefines DEF Register!Next
    <2> QED BY <2>1, <2>2, <2>3 DEF Next
  <1> QED BY IInvAlways, <1>1, <1>2, PTL DEF Spec, ImplementsRegister, Register!Spec

=============================================================================
