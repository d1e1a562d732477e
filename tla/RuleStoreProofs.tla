--------------------------- MODULE RuleStoreProofs ---------------------------
(***************************************************************************)
(* Proofs about RuleStore, for any sets of rules, names and handlers: how  *)
(* far the scan-then-put of Create keeps names unique, and that until it   *)
(* fails to, the etcd store implements the memory store.                   *)
(***************************************************************************)
EXTENDS RuleStore, TLAPS

(* A UUID that is being created is stored under no name and was never      *)
(* deleted, and no other handler works on it.                              *)
Freshness ==
    /\ \A u \in Rules : rules[u] # None => u \in minted
    /\ \A u \in deleted : rules[u] = None
    /\ \A h \in Handlers : job[h].pc \in {"scan", "put"} =>
         /\ job[h].rule \in minted \ deleted /\ job[h].name \in Names
         /\ rules[job[h].rule] = None
    /\ \A g, h \in Handlers :
         (g # h /\ job[g].pc \in {"scan", "put"} /\ job[h].pc \in {"scan", "put"})
            => job[g].rule # job[h].rule

(* What the scan found is still true when the put is sent, unless the name *)
(* is contested: nobody else is past the scan of the name, so nobody can   *)
(* have put it in between.                                                 *)
ScanStillTrue ==
    \A h \in Handlers : (job[h].pc = "put" /\ job[h].name \notin contested) =>
        ~Taken(job[h].name) /\ ~PastScan(h, job[h].name)

IInv == TypeOK /\ Freshness /\ ScanStillTrue /\ DuplicatesAreContested

-----------------------------------------------------------------------------
(* A Create call arrives with a fresh UUID. *)
LEMMA CallCreatePreserves ==
    ASSUME IInv, NEW h \in Handlers, CallCreate(h)
    PROVE  IInv'
  <1> PICK u \in Rules \ minted, n \in Names :
             /\ minted' = minted \union {u}
             /\ job' = [job EXCEPT ![h] = [pc |-> "scan", rule |-> u, name |-> n]]
    BY DEF CallCreate
  <1>1. rules' = rules /\ deleted' = deleted /\ contested' = contested
    BY DEF CallCreate
  <1>2. \A g \in Handlers : job'[g] = IF g = h THEN [pc |-> "scan", rule |-> u, name |-> n]
                                     ELSE job[g]
    BY DEF IInv, TypeOK
  <1>3. TypeOK'
    BY <1>1 DEF IInv, TypeOK
  <1>4. Freshness'
    BY <1>1, <1>2 DEF IInv, TypeOK, Freshness
  <1>5. ScanStillTrue'
    BY <1>1, <1>2 DEF IInv, ScanStillTrue, Taken, PastScan
  <1>6. DuplicatesAreContested'
    BY <1>1 DEF IInv, DuplicatesAreContested, Unique
  <1> QED BY <1>3, <1>4, <1>5, <1>6 DEF IInv

(* A handler gives up: the scan found the name, a request failed, or the   *)
(* process stopped.                                                        *)
LEMMA ReturnPreserves ==
    ASSUME IInv, NEW h \in Handlers, Return(h), UNCHANGED <<rules, minted, deleted, contested>>
    PROVE  IInv'
  <1>1. \A g \in Handlers : job'[g] = IF g = h THEN Idle ELSE job[g]
    BY DEF IInv, TypeOK, Return
  <1>2. TypeOK'
    BY DEF IInv, TypeOK, Return, Idle
  <1>3. Freshness'
    BY <1>1 DEF IInv, TypeOK, Freshness, Idle
  <1>4. ScanStillTrue'
    BY <1>1 DEF IInv, ScanStillTrue, Taken, PastScan, Idle
  <1>5. DuplicatesAreContested'
    BY DEF IInv, DuplicatesAreContested, Unique
  <1> QED BY <1>2, <1>3, <1>4, <1>5 DEF IInv

(* The scan finds the name free: either no other Create of it has scanned, *)
(* or the name is contested from here on.                                  *)
LEMMA CreateScanPreserves ==
    ASSUME IInv, NEW h \in Handlers, CreateScan(h)
    PROVE  IInv'
  <1> DEFINE n == job[h].name
  <1>1. CASE Taken(n)
    BY <1>1, ReturnPreserves DEF CreateScan
  <1>2. CASE ~Taken(n)
    <2>1. /\ job[h].pc = "scan" /\ n \in Names
          /\ job' = [job EXCEPT ![h].pc = "put"]
          /\ contested' = contested \union {m \in {n} : PastScan(h, m)}
          /\ rules' = rules /\ minted' = minted /\ deleted' = deleted
      BY <1>2 DEF CreateScan, IInv, Freshness
    <2>2. /\ \A g \in Handlers \ {h} : job'[g] = job[g]
          /\ job'[h].pc = "put" /\ job'[h].name = n /\ job'[h].rule = job[h].rule
      BY <2>1 DEF IInv, TypeOK
    <2>3. TypeOK'
      BY <2>1 DEF IInv, TypeOK
    <2>4. Freshness'
      BY <2>1, <2>2 DEF IInv, TypeOK, Freshness
    <2>5. ScanStillTrue'
      <3> SUFFICES ASSUME NEW g \in Handlers, job'[g].pc = "put", job'[g].name \notin contested'
                   PROVE  ~Taken(job[g].name)' /\ ~PastScan(g, job[g].name)'
        BY DEF ScanStillTrue
      <3>1. CASE g = h
        <4>1. n \notin contested /\ ~PastScan(h, n)
          BY <3>1, <2>1, <2>2
        <4> QED BY <3>1, <4>1, <1>2, <2>1, <2>2 DEF Taken, PastScan
      <3>2. CASE g # h
        <4>1. job'[g] = job[g] /\ job[g].name \notin contested
          BY <3>2, <2>1, <2>2
        <4>2. ~Taken(job[g].name) /\ ~PastScan(g, job[g].name)
          BY <3>2, <4>1, <2>2 DEF IInv, ScanStillTrue
        <4>3. job[g].name # n
          BY <3>2, <4>1, <2>1 DEF PastScan
        <4> QED BY <3>2, <4>1, <4>2, <4>3, <2>1, <2>2 DEF Taken, PastScan
      <3> QED BY <3>1, <3>2
    <2>6. DuplicatesAreContested'
      BY <2>1 DEF IInv, DuplicatesAreContested, Unique
    <2> QED BY <2>3, <2>4, <2>5, <2>6 DEF IInv
  <1> QED BY <1>1, <1>2

(* The put: a name that is not contested is free, and no other Create of   *)
(* it is past its scan.                                                    *)
LEMMA CreateTxnPreserves ==
    ASSUME IInv, NEW h \in Handlers, CreateTxn(h)
    PROVE  IInv'
  <1> DEFINE u == job[h].rule
             n == job[h].name
  <1>1. /\ job[h].pc = "put" /\ u \in minted \ deleted /\ u \in Rules /\ n \in Names
        /\ rules[u] = None
        /\ rules' = [rules EXCEPT ![u] = n]
        /\ job' = [job EXCEPT ![h] = Idle]
        /\ minted' = minted /\ deleted' = deleted /\ contested' = contested
    BY DEF CreateTxn, Return, IInv, Freshness, TypeOK
  <1>2. \A g \in Handlers : job'[g] = IF g = h THEN Idle ELSE job[g]
    BY <1>1 DEF IInv, TypeOK
  <1>3. n \notin contested => ~Taken(n) /\ ~PastScan(h, n)
    BY <1>1 DEF IInv, ScanStillTrue
  <1>4. \A g \in Handlers \ {h} : job[g].pc \in {"scan", "put"} => job[g].rule # u
    BY <1>1 DEF IInv, Freshness
  <1>5. \A t \in Rules : rules'[t] = IF t = u THEN n ELSE rules[t]
    BY <1>1 DEF IInv, TypeOK
  <1> HIDE DEF u, n
  <1>6. TypeOK'
    BY <1>1 DEF IInv, TypeOK, Idle
  <1>7. Freshness'
    BY <1>1, <1>2, <1>4, <1>5 DEF IInv, TypeOK, Freshness, Idle
  <1>8. ScanStillTrue'
    <2> SUFFICES ASSUME NEW g \in Handlers, job'[g].pc = "put", job'[g].name \notin contested'
                 PROVE  ~Taken(job[g].name)' /\ ~PastScan(g, job[g].name)'
      BY DEF ScanStillTrue
    <2>1. g # h /\ job'[g] = job[g]
      BY <1>2 DEF Idle
    <2>2. ~Taken(job[g].name) /\ ~PastScan(g, job[g].name)
      BY <2>1, <1>1 DEF IInv, ScanStillTrue
    <2>3. job[g].name # n
      BY <2>1, <2>2, <1>1 DEF PastScan, n
    <2>4. ~Taken(job[g].name)'
      BY <2>1, <2>2, <2>3, <1>5 DEF Taken
    <2>5. ~PastScan(g, job[g].name)'
      BY <2>1, <2>2, <1>2 DEF PastScan, Idle
    <2> QED BY <2>4, <2>5
  <1>9. DuplicatesAreContested'
    <2> SUFFICES ASSUME NEW m \in Names \ contested, NEW s \in Rules, NEW t \in Rules,
                        rules'[s] = m, rules'[t] = m
                 PROVE  s = t
      BY <1>1 DEF DuplicatesAreContested, Unique
    <2>1. CASE m = n
      BY <2>1, <1>3, <1>5 DEF Taken
    <2>2. CASE m # n
      BY <2>2, <1>5 DEF IInv, DuplicatesAreContested, Unique
    <2> QED BY <2>1, <2>2
  <1> QED BY <1>6, <1>7, <1>8, <1>9 DEF IInv

(* A rule is deleted. *)
LEMMA DeletePreserves ==
    ASSUME IInv, NEW u \in Rules, Delete(u)
    PROVE  IInv'
  <1>1. /\ u \in minted /\ rules[u] # None
        /\ rules' = [rules EXCEPT ![u] = None] /\ deleted' = deleted \union {u}
        /\ minted' = minted /\ job' = job /\ contested' = contested
    BY DEF Delete
  <1>2. \A t \in Rules : rules'[t] = IF t = u THEN None ELSE rules[t]
    BY <1>1 DEF IInv, TypeOK
  <1>3. TypeOK'
    BY <1>1 DEF IInv, TypeOK
  <1>4. Freshness'
    BY <1>1, <1>2 DEF IInv, TypeOK, Freshness
  <1>5. ScanStillTrue'
    <2>1. \A n \in Names : Taken(n)' => Taken(n)
      BY <1>2, NoneAssumption DEF Taken
    <2>2. \A h \in Handlers : job[h].pc = "put" => job[h].name \in Names
      BY DEF IInv, Freshness
    <2> QED BY <1>1, <2>1, <2>2 DEF IInv, ScanStillTrue, PastScan
  <1>6. DuplicatesAreContested'
    BY <1>1, <1>2, NoneAssumption DEF IInv, DuplicatesAreContested, Unique
  <1> QED BY <1>3, <1>4, <1>5, <1>6 DEF IInv

-----------------------------------------------------------------------------
(* IInv holds initially and survives every step. *)
LEMMA IInvInit == Init => IInv
  <1> SUFFICES ASSUME Init PROVE IInv
    OBVIOUS
  <1>1. TypeOK
    BY DEF Init, TypeOK, Idle
  <1>2. Freshness /\ ScanStillTrue
    BY DEF Init, Freshness, ScanStillTrue, Idle
  <1>3. DuplicatesAreContested
    BY NoneAssumption DEF Init, DuplicatesAreContested, Unique
  <1> QED BY <1>1, <1>2, <1>3 DEF IInv

LEMMA IInvStep == IInv /\ [Next]_vars => IInv'
  <1> SUFFICES ASSUME IInv, [Next]_vars PROVE IInv'
    OBVIOUS
  <1>1. ASSUME NEW h \in Handlers, EtcdFails(h) PROVE IInv'
    BY <1>1, ReturnPreserves DEF EtcdFails
  <1>2. CASE Next
    BY <1>1, <1>2, CallCreatePreserves, CreateScanPreserves, CreateTxnPreserves,
       DeletePreserves DEF Next
  <1>3. CASE UNCHANGED vars
    BY <1>3 DEF IInv, TypeOK, Freshness, ScanStillTrue, DuplicatesAreContested, Taken,
                PastScan, Unique, vars
  <1> QED BY <1>2, <1>3

LEMMA IInvAlways == Spec => []IInv
  BY IInvInit, IInvStep, PTL DEF Spec

(* The store's and the handlers' state keeps its types. *)
THEOREM TypeCorrect == Spec => []TypeOK
  <1>1. IInv => TypeOK
    BY DEF IInv
  <1> QED BY IInvAlways, <1>1, PTL

(* Two rules share a name only if two Creates of that name were between    *)
(* scan and put together, whatever else the handlers do, whatever fails    *)
(* and however many of them there are.                                     *)
THEOREM DuplicatesNeedARace == Spec => []DuplicatesAreContested
  <1>1. IInv => DuplicatesAreContested
    BY DEF IInv
  <1> QED BY IInvAlways, <1>1, PTL

-----------------------------------------------------------------------------
(* Refinement *)

(* The memory store's row of a rule called n. *)
RowNamed(n) == [name |-> n, kept |-> "rule", value |-> "none"]

(* The owner of a name only one rule has. *)
LEMMA SoleOwner ==
    ASSUME NEW f, NEW n, NEW u \in Rules, f[u] = n,
           \A t \in Rules : f[t] = n => t = u
    PROVE  (CHOOSE t \in Rules : f[t] = n) = u
  OBVIOUS

(* While no name is contested, the name index of the memory store is the   *)
(* inverse of what etcd holds.                                             *)
LEMMA OwnerInverts ==
    ASSUME IInv, contested = {}, NEW n \in Names
    PROVE  /\ \A u \in Rules : rules[u] = n => ownerOf(n) = u
           /\ ~Taken(n) => ownerOf(n) = None
  <1>1. ASSUME NEW u \in Rules, rules[u] = n PROVE ownerOf(n) = u
    <2>1. \A t \in Rules : rules[t] = n => t = u
      BY <1>1 DEF IInv, DuplicatesAreContested, Unique
    <2>2. (CHOOSE t \in Rules : rules[t] = n) = u
      BY <1>1, <2>1, SoleOwner
    <2> QED BY <1>1, <2>2 DEF ownerOf, Taken
  <1> QED BY <1>1 DEF ownerOf

(* The put is the memory store's Create. *)
LEMMA CreateTxnRefines ==
    ASSUME IInv, IInv', contested = {}, contested' = {}, NEW h \in Handlers, CreateTxn(h)
    PROVE  Table!Next
  <1> DEFINE u == job[h].rule
             n == job[h].name
             r == RowNamed(n)
  <1>1. /\ u \in Rules /\ u \notin deleted /\ n \in Names /\ rules[u] = None
        /\ rules' = [rules EXCEPT ![u] = n] /\ deleted' = deleted
        /\ ~Taken(n)
    BY DEF CreateTxn, IInv, Freshness, TypeOK, ScanStillTrue
  <1> HIDE DEF u, n
  <1>2. \A t \in Rules : rules'[t] = IF t = u THEN n ELSE rules[t]
    BY <1>1 DEF IInv, TypeOK
  <1>3. r \in Table!Row /\ r.name = n
    BY <1>1 DEF Table!Row, RowNamed
  <1>4. [t \in Rules |-> rowOf(t)][u] = None
    BY <1>1 DEF rowOf
  <1>5. [m \in Names |-> ownerOf(m)][r.name] = None
    BY <1>1, <1>3, OwnerInverts
  <1>6. [t \in Rules |-> rowOf(t)]' = [[t \in Rules |-> rowOf(t)] EXCEPT ![u] = r]
    <2>1. \A t \in Rules : rowOf(t)' = IF t = u THEN r ELSE rowOf(t)
      BY <1>1, <1>2, NoneAssumption DEF rowOf, RowNamed
    <2> QED BY <1>1, <2>1
  <1>7. [m \in Names |-> ownerOf(m)]' = [[m \in Names |-> ownerOf(m)] EXCEPT ![r.name] = u]
    <2>1. ASSUME NEW m \in Names PROVE ownerOf(m)' = IF m = n THEN u ELSE ownerOf(m)
      <3>1. ASSUME NEW t \in Rules, rules'[t] = m PROVE ownerOf(m)' = t
        <4>1. \A s \in Rules : rules'[s] = m => s = t
          BY <3>1 DEF IInv, DuplicatesAreContested, Unique
        <4>2. (CHOOSE s \in Rules : rules'[s] = m) = t
          BY <3>1, <4>1, SoleOwner
        <4> QED BY <3>1, <4>2 DEF ownerOf, Taken
      <3>2. CASE m = n
        BY <3>1, <3>2, <1>1, <1>2
      <3>3. CASE m # n /\ Taken(m)
        <4>1. PICK t \in Rules : rules[t] = m
          BY <3>3 DEF Taken
        <4>2. rules'[t] = m
          BY <4>1, <3>3, <1>1, <1>2, NoneAssumption
        <4> QED BY <3>1, <3>3, <4>1, <4>2, OwnerInverts
      <3>4. CASE m # n /\ ~Taken(m)
        <4>1. ~Taken(m)'
          BY <3>4, <1>1, <1>2 DEF Taken
        <4> QED BY <3>4, <4>1 DEF ownerOf
      <3> QED BY <3>2, <3>3, <3>4
    <2> QED BY <1>1, <1>3, <2>1
  <1>8. Table!Create(u, r)
    BY <1>1, <1>4, <1>5, <1>6, <1>7 DEF Table!Create
  <1> QED BY <1>1, <1>3, <1>8 DEF Table!Next

(* The deletion is the memory store's Delete. *)
LEMMA DeleteRefines ==
    ASSUME IInv, IInv', contested = {}, contested' = {}, NEW u \in Rules, Delete(u)
    PROVE  Table!Next
  <1> DEFINE n == rules[u]
  <1>1. /\ n # None /\ n \in Names
        /\ rules' = [rules EXCEPT ![u] = None] /\ deleted' = deleted \union {u}
    BY DEF Delete, IInv, TypeOK
  <1>2. \A t \in Rules : rules'[t] = IF t = u THEN None ELSE rules[t]
    BY <1>1 DEF IInv, TypeOK
  <1>3. rowOf(u) = RowNamed(n) /\ RowNamed(n) # None /\ RowNamed(n).name = n
    BY <1>1, NoneAssumption DEF rowOf, RowNamed
  <1>4. \A t \in Rules : t # u => rules[t] # n
    BY <1>1 DEF IInv, DuplicatesAreContested, Unique
  <1> HIDE DEF n
  <1>5. [t \in Rules |-> rowOf(t)]' = [[t \in Rules |-> rowOf(t)] EXCEPT ![u] = None]
    <2>1. \A t \in Rules : rowOf(t)' = IF t = u THEN None ELSE rowOf(t)
      BY <1>2 DEF rowOf
    <2> QED BY <2>1
  <1>6. [m \in Names |-> ownerOf(m)]' = [[m \in Names |-> ownerOf(m)] EXCEPT ![n] = None]
    <2>1. ASSUME NEW m \in Names PROVE ownerOf(m)' = IF m = n THEN None ELSE ownerOf(m)
      <3>1. ASSUME ~Taken(m)' PROVE ownerOf(m)' = None
        BY <3>1 DEF ownerOf
      <3>2. CASE m = n \/ ~Taken(m)
        <4>1. ~Taken(m)'
          BY <3>2, <1>1, <1>2, <1>4, NoneAssumption DEF Taken
        <4>2. ~Taken(m) => ownerOf(m) = None
          BY DEF ownerOf
        <4> QED BY <3>1, <3>2, <4>1, <4>2
      <3>3. CASE m # n /\ Taken(m)
        <4>1. PICK t \in Rules : rules[t] = m
          BY <3>3 DEF Taken
        <4>2. t # u /\ rules'[t] = m
          BY <4>1, <3>3, <1>2 DEF n
        <4>3. \A s \in Rules : rules'[s] = m => s = t
          BY <4>2, <1>1 DEF IInv, DuplicatesAreContested, Unique
        <4>4. (CHOOSE s \in Rules : rules'[s] = m) = t
          BY <4>2, <4>3, SoleOwner
        <4>5. ownerOf(m)' = t
          BY <4>2, <4>4 DEF ownerOf, Taken
        <4> QED BY <3>3, <4>1, <4>5, OwnerInverts
      <3> QED BY <3>2, <3>3
    <2> QED BY <1>1, <2>1
  <1>7. Table!Delete(u)
    <2>1. [t \in Rules |-> rowOf(t)][u] = RowNamed(n)
      BY <1>3
    <2> QED BY <1>1, <1>3, <1>5, <1>6, <2>1 DEF Table!Delete
  <1> QED BY <1>7 DEF Table!Next

(* The etcd store implements the memory store until two Creates of one     *)
(* name race: each put and each deletion is one indivisible operation of   *)
(* the memory store's two maps, and nothing else changes them.             *)
THEOREM StoreImplementsTable == Spec => ImplementsTable
  <1>1. Init => Table!Init
    BY NoneAssumption DEF Init, Table!Init, rowOf, ownerOf, Taken
  <1>2. IInv /\ IInv' /\ [Next]_vars =>
          [contested' = {} => (Table!Next \/ UNCHANGED rules)]_vars
    <2> SUFFICES ASSUME IInv, IInv', Next, contested' = {}
                 PROVE  Table!Next \/ UNCHANGED rules
      BY DEF vars
    <2>1. ASSUME NEW h \in Handlers, CallCreate(h) \/ CreateScan(h) \/ EtcdFails(h)
          PROVE  UNCHANGED rules
      BY <2>1 DEF CallCreate, CreateScan, EtcdFails
    <2>2. ASSUME NEW h \in Handlers, CreateTxn(h) PROVE Table!Next
      BY <2>2, CreateTxnRefines DEF CreateTxn
    <2>3. ASSUME NEW u \in Rules, Delete(u) PROVE Table!Next
      BY <2>3, DeleteRefines DEF Delete
    <2> QED BY <2>1, <2>2, <2>3 DEF Next
  <1> QED BY IInvAlways, <1>1, <1>2, PTL DEF Spec, ImplementsTable
=============================================================================
