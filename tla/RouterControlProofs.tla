------------------------- MODULE RouterControlProofs -------------------------
(***************************************************************************)
(* Proofs about RouterControl, for any sets of routers, names and          *)
(* instances, any replica cap, and any number of calls and failures.       *)
(***************************************************************************)
EXTENDS RouterControl, FiniteSetTheorems, SequenceTheorems, TLAPS

(* The values in a sequence. *)
Members(s) == {s[k] : k \in DOMAIN s}

Entry == [uuid : Routers, row : Row]

JobRecord == [pc     : Labels,
              uuid   : Routers \union {NoRouter},
              row    : Row \union {NoRouter},
              report : Statuses,
              names  : Seq(VMs),
              todo   : Seq(Entry)]

(* Two rows of one router: only the status ever changes. *)
Same(r, s) == r.name = s.name /\ r.class = s.class /\ r.replicas = s.replicas

-----------------------------------------------------------------------------
(* The stages of a call: before the row exists, with a row in hand that    *)
(* will be written, published or ensured, and after the row is gone.       *)
Fresh   == {"scan", "put"}
Using   == {"publish", "register", "start", "statusPut"}
Tearing == {"withdraw", "stop", "remove"}

(* What instance i has in hand. *)
InHand(i) == IF job[i].pc \in Using THEN {[uuid |-> job[i].uuid, row |-> job[i].row]} ELSE {}
Holding(i) == Members(job[i].todo) \union InHand(i)

(* Which of an instance's local variables mean something, and when. *)
Shape(i) ==
    /\ job[i].pc \notin {"register", "start", "stop", "remove"} => job[i].names = <<>>
    /\ job[i].pc \notin {"publish", "register", "start", "resync", "callback"}
          => job[i].todo = <<>>
    /\ job[i].pc \in {"start", "remove"} => job[i].names # <<>>
    /\ job[i].pc \in {"resync", "callback"} => job[i].todo # <<>>
    /\ job[i].pc \notin {"boot", "idle", "resync", "list", "callback"} => job[i].uuid \in minted
    /\ job[i].pc \in Tearing => job[i].uuid \in deleted
    /\ \A vm \in Members(job[i].names) : vm[1] = job[i].uuid

(* A router that is being created is not there yet. *)
FreshOK(i) ==
    job[i].pc \in Fresh => /\ job[i].row \in Row /\ job[i].row.class \in Classes
                           /\ rows[job[i].uuid] = NoRouter /\ job[i].uuid \notin deleted

(* A row in hand is that of a router that is there, but for its status, or *)
(* of one whose removal overlapped.                                        *)
HeldOK(i) ==
    \A e \in Holding(i) :
        /\ e.uuid \in minted /\ e.row \in Row
        /\ e.uuid \in deleted => e.uuid \in disturbed
        /\ e.uuid \notin deleted => rows[e.uuid] # NoRouter /\ Same(e.row, rows[e.uuid])

(* Ensure has started every micro-VM that is not among the names left. *)
EnsureOK(i) ==
    (job[i].pc \in {"register", "start"} /\ job[i].uuid \notin deleted /\ HasVMs(job[i].row))
        => Members(vmNamesFor(job[i].uuid, job[i].row.replicas))
             \subseteq running \union Members(job[i].names)

(* Destroy comes after the withdrawal, and has deleted every micro-VM that *)
(* is not among the names left.                                            *)
DestroyOK(i) ==
    (job[i].pc \in {"stop", "remove"} /\ job[i].uuid \notin disturbed)
        => config[job[i].uuid] # "state" /\ vmsOf(job[i].uuid) \subseteq Members(job[i].names)

JobOK(i) == Shape(i) /\ FreshOK(i) /\ HeldOK(i) /\ EnsureOK(i) /\ DestroyOK(i)

(* What is stored was minted, and a router removed without a disturbance   *)
(* is not stored.                                                          *)
StoredOK ==
    /\ IsFiniteSet(minted)
    /\ \A u \in Routers : rows[u] # NoRouter => u \in minted
    /\ \A u \in deleted \ disturbed : rows[u] = NoRouter

(* No two instances create one router. *)
FreshApart ==
    \A i, j \in Instances :
        (i # j /\ job[i].pc \in Fresh /\ job[j].pc \in Fresh) => job[i].uuid # job[j].uuid

IInv == /\ TypeOK
        /\ StoredOK
        /\ FreshApart
        /\ \A i \in Instances : JobOK(i)
        /\ EnsuredRuns
        /\ LeaksAreExplained

-----------------------------------------------------------------------------
(* Sequences *)

LEMMA MembersEmpty == Members(<<>>) = {}
  BY DEF Members

LEMMA MembersTyped ==
    ASSUME NEW S, NEW s \in Seq(S)
    PROVE  Members(s) \subseteq S
  BY DEF Members

(* A sequence that is not empty is its head and its tail. *)
LEMMA MembersSplit ==
    ASSUME NEW S, NEW s \in Seq(S), s # <<>>
    PROVE  /\ Head(s) \in S /\ Tail(s) \in Seq(S)
           /\ Members(s) = {Head(s)} \union Members(Tail(s))
  <1>1. /\ Len(s) \in Nat /\ Len(s) >= 1 /\ DOMAIN s = 1..Len(s) /\ Head(s) = s[1]
        /\ Head(s) \in S /\ Tail(s) \in Seq(S)
    OBVIOUS
  <1>2. DOMAIN Tail(s) = 1..(Len(s) - 1) /\ \A k \in 1..(Len(s) - 1) : Tail(s)[k] = s[k + 1]
    BY <1>1
  <1>3. ASSUME NEW x \in Members(s) PROVE x \in {Head(s)} \union Members(Tail(s))
    <2>1. PICK k \in 1..Len(s) : x = s[k]
      BY <1>1 DEF Members
    <2>2. CASE k = 1
      BY <2>1, <2>2, <1>1
    <2>3. CASE k # 1
      <3>1. k - 1 \in 1..(Len(s) - 1) /\ s[(k - 1) + 1] = s[k]
        BY <1>1, <2>3
      <3> QED BY <2>1, <3>1, <1>2 DEF Members
    <2> QED BY <2>2, <2>3
  <1>4. Members(Tail(s)) \subseteq Members(s)
    <2>1. \A k \in 1..(Len(s) - 1) : k + 1 \in 1..Len(s)
      BY <1>1
    <2> QED BY <1>1, <1>2, <2>1 DEF Members
  <1>5. Head(s) \in Members(s)
    BY <1>1 DEF Members
  <1> QED BY <1>1, <1>3, <1>4, <1>5

-----------------------------------------------------------------------------
(* The micro-VM names *)

(* Ensure's names are the router's own. *)
LEMMA EnsuredNames ==
    ASSUME NEW u \in Routers, NEW n \in 1..maxReplicas
    PROVE  /\ vmNamesFor(u, n) \in Seq(VMs)
           /\ \A vm \in Members(vmNamesFor(u, n)) : vm[1] = u
  <1> USE BoundsAssumption
  <1>1. CASE n <= 1
    BY <1>1 DEF vmNamesFor, vmBareName, VMs, Members
  <1>2. CASE ~(n <= 1)
    <2>1. vmNamesFor(u, n) = [k \in 1..n |-> <<u, k>>]
      BY <1>2 DEF vmNamesFor, replicaNames
    <2>2. \A k \in 1..n : <<u, k>> \in VMs
      BY DEF VMs
    <2> QED BY <2>1, <2>2 DEF Members
  <1> QED BY <1>1, <1>2

(* Destroy's names are the router's own, and all of them. *)
LEMMA ProbedNames ==
    ASSUME NEW u \in Routers
    PROVE  /\ probedNames(u) \in Seq(VMs)
           /\ \A vm \in Members(probedNames(u)) : vm[1] = u
           /\ \A vm \in VMs : vm[1] = u => vm \in Members(probedNames(u))
  <1> USE BoundsAssumption
  <1> DEFINE s == [k \in 1..maxReplicas |-> <<u, k>>]
  <1>1. <<u, 0>> \in VMs /\ \A k \in 1..maxReplicas : <<u, k>> \in VMs
    BY DEF VMs
  <1>2. s \in Seq(VMs) /\ Len(s) = maxReplicas /\ <<<<u, 0>>>> \in Seq(VMs)
    BY <1>1
  <1>3. probedNames(u) = <<<<u, 0>>>> \o s
    BY DEF probedNames, vmBareName, replicaNames
  <1>4. /\ probedNames(u) \in Seq(VMs)
        /\ DOMAIN probedNames(u) = 1..(maxReplicas + 1)
        /\ \A k \in 1..(maxReplicas + 1) : probedNames(u)[k] = <<u, k - 1>>
    BY <1>2, <1>3
  <1>5. ASSUME NEW vm \in VMs, vm[1] = u PROVE vm \in Members(probedNames(u))
    <2>1. vm[2] \in 0..maxReplicas /\ vm = <<u, vm[2]>>
      BY <1>5 DEF VMs
    <2>2. vm[2] + 1 \in 1..(maxReplicas + 1) /\ (vm[2] + 1) - 1 = vm[2]
      BY <2>1
    <2> QED BY <1>4, <2>1, <2>2 DEF Members
  <1> QED BY <1>4, <1>5 DEF Members

-----------------------------------------------------------------------------
(* What a step may do to the others.  A router whose removal went          *)
(* undisturbed gets no micro-VM and no state any more; one that is not     *)
(* removed keeps its row, but for the status, and its running micro-VMs.   *)

TornBy(i, u) == job[i].uuid = u /\ job[i].pc \in Tearing
Clean(u) == vmsOf(u) = {} /\ config[u] # "state"
Runs(u) == rows[u] # NoRouter /\ (HasVMs(rows[u]) => allRunning(u))

Grows == minted \subseteq minted' /\ deleted \subseteq deleted' /\ disturbed \subseteq disturbed'

KeepsRouters ==
    /\ \A u \in Routers \ deleted' :
         rows[u] # NoRouter => rows'[u] # NoRouter /\ Same(rows[u], rows'[u])
    /\ \A vm \in running : vm[1] \notin deleted' => vm \in running'
    /\ \A u \in deleted \ disturbed' : /\ config[u] # "state" => config'[u] # "state"
                                       /\ \A vm \in vms' : vm[1] = u => vm \in vms

(* The other instances stay where they are, what they create stays theirs, *)
(* and a removal under their hands is on record.                           *)
KeepsOthers(i) ==
    \A j \in Instances \ {i} :
        /\ job'[j] = job[j]
        /\ job[j].pc \in Fresh => /\ rows'[job[j].uuid] = NoRouter
                                  /\ job[j].uuid \notin deleted'
        /\ \A e \in Holding(j) : e.uuid \in deleted' \ deleted => e.uuid \in disturbed'

(* What the step's own instance owes: a fresh UUID, a clean end, and       *)
(* running micro-VMs when it says so.                                      *)
OwnWork(i) ==
    /\ job'[i].pc \in Fresh => \/ job[i].pc \in Fresh /\ job'[i].uuid = job[i].uuid
                               \/ job'[i].uuid \notin minted
    /\ \A u \in deleted' \ disturbed' :
         (TornBy(i, u) \/ u \notin deleted) => TornBy(i, u)' \/ Clean(u)'
    /\ \A u \in ensured' \ ensured : u \notin deleted' => Runs(u)'

(* A row's micro-VM names, read as a set. *)
LEMMA RunningNames ==
    ASSUME NEW u
    PROVE  allRunning(u) <=>
             rows[u] # NoRouter /\ Members(vmNamesFor(u, rows[u].replicas)) \subseteq running
  BY DEF allRunning, Members

(* A job that is left alone stays well formed. *)
LEMMA OtherJobOK ==
    ASSUME IInv, NEW i \in Instances, Grows, KeepsRouters, KeepsOthers(i),
           NEW j \in Instances \ {i}
    PROVE  JobOK(j)'
  <1>1. JobOK(j) /\ job'[j] = job[j]
    BY DEF IInv, KeepsOthers
  <1>2. Holding(j)' = Holding(j) /\ \A e \in Holding(j) : e.uuid \in minted /\ e.row \in Row
    BY <1>1 DEF Holding, InHand, JobOK, HeldOK
  <1>3. minted \subseteq Routers
    BY DEF IInv, TypeOK
  <1>4. Shape(j)'
    BY <1>1 DEF JobOK, Shape, Grows
  <1>5. FreshOK(j)'
    BY <1>1 DEF JobOK, FreshOK, KeepsOthers
  <1>6. HeldOK(j)'
    <2> SUFFICES ASSUME NEW e \in Holding(j)
                 PROVE  /\ e.uuid \in minted' /\ e.row \in Row
                        /\ e.uuid \in deleted' => e.uuid \in disturbed'
                        /\ e.uuid \notin deleted' => /\ rows'[e.uuid] # NoRouter
                                                     /\ Same(e.row, rows'[e.uuid])
      BY <1>2 DEF HeldOK
    <2>1. e.uuid \in minted' /\ e.row \in Row
      BY <1>2 DEF Grows
    <2>2. e.uuid \in deleted' => e.uuid \in disturbed'
      BY <1>1 DEF JobOK, HeldOK, KeepsOthers, Grows
    <2>3. ASSUME e.uuid \notin deleted'
          PROVE  rows'[e.uuid] # NoRouter /\ Same(e.row, rows'[e.uuid])
      <3>1. rows[e.uuid] # NoRouter /\ Same(e.row, rows[e.uuid])
        BY <2>3, <1>1 DEF JobOK, HeldOK, Grows
      <3>2. rows'[e.uuid] # NoRouter /\ Same(rows[e.uuid], rows'[e.uuid])
        BY <2>3, <3>1, <1>2, <1>3 DEF KeepsRouters
      <3> QED BY <3>1, <3>2 DEF Same
    <2> QED BY <2>1, <2>2, <2>3
  <1>7. EnsureOK(j)'
    <2> SUFFICES ASSUME job[j].pc \in {"register", "start"}, job[j].uuid \notin deleted',
                        HasVMs(job[j].row)
                 PROVE  Members(vmNamesFor(job[j].uuid, job[j].row.replicas))
                          \subseteq running' \union Members(job[j].names)
      BY <1>1 DEF EnsureOK
    <2>1. [uuid |-> job[j].uuid, row |-> job[j].row] \in Holding(j)
      BY DEF Holding, InHand, Using
    <2>2. job[j].uuid \in Routers /\ job[j].row \in Row
      BY <2>1, <1>2, <1>3
    <2>3. \A vm \in Members(vmNamesFor(job[j].uuid, job[j].row.replicas)) : vm[1] = job[j].uuid
      BY <2>2, EnsuredNames DEF Row
    <2>4. Members(vmNamesFor(job[j].uuid, job[j].row.replicas))
            \subseteq running \union Members(job[j].names)
      BY <1>1 DEF JobOK, EnsureOK, Grows
    <2> QED BY <2>3, <2>4 DEF KeepsRouters
  <1>8. DestroyOK(j)'
    BY <1>1 DEF JobOK, DestroyOK, Shape, Tearing, KeepsRouters, Grows, vmsOf
  <1> QED BY <1>4, <1>5, <1>6, <1>7, <1>8 DEF JobOK

(* The invariant survives a step that keeps the others and does its own    *)
(* work.                                                                   *)
LEMMA StepPreserves ==
    ASSUME IInv, NEW i \in Instances, TypeOK', StoredOK', JobOK(i)',
           Grows, KeepsRouters, KeepsOthers(i), OwnWork(i)
    PROVE  IInv'
  <1>1. \A j \in Instances : JobOK(j)'
    BY OtherJobOK
  <1>2. FreshApart'
    <2>1. \A j \in Instances \ {i} : /\ job'[j] = job[j]
                                     /\ job[j].pc \in Fresh => job[j].uuid \in minted
      BY DEF KeepsOthers, IInv, JobOK, Shape, Fresh
    <2>2. \A j \in Instances \ {i} :
            (job[j].pc \in Fresh /\ job'[i].pc \in Fresh) => job[j].uuid # job'[i].uuid
      BY <2>1 DEF OwnWork, IInv, FreshApart
    <2> QED BY <2>1, <2>2 DEF IInv, FreshApart
  <1>3. EnsuredRuns'
    <2> SUFFICES ASSUME NEW u \in ensured' \ deleted' PROVE Runs(u)'
      BY DEF EnsuredRuns, Runs
    <2>1. CASE u \notin ensured
      BY <2>1 DEF OwnWork
    <2>2. CASE u \in ensured
      <3>1. u \in Routers /\ u \notin deleted
        BY <2>2 DEF IInv, TypeOK, Grows
      <3>2. rows[u] # NoRouter /\ (HasVMs(rows[u]) => allRunning(u))
        BY <2>2, <3>1 DEF IInv, EnsuredRuns
      <3>3. rows'[u] # NoRouter /\ Same(rows[u], rows'[u])
        BY <3>1, <3>2 DEF KeepsRouters
      <3>4. ASSUME HasVMs(rows'[u]) PROVE allRunning(u)'
        <4>1. HasVMs(rows[u]) /\ rows'[u].replicas = rows[u].replicas
          BY <3>3, <3>4 DEF Same, HasVMs
        <4>2. Members(vmNamesFor(u, rows[u].replicas)) \subseteq running
          BY <3>2, <4>1, RunningNames
        <4>3. rows[u].replicas \in 1..maxReplicas
          BY <3>1, <3>2 DEF IInv, TypeOK, Row
        <4>4. \A vm \in Members(vmNamesFor(u, rows[u].replicas)) : vm[1] = u
          BY <3>1, <4>3, EnsuredNames
        <4>5. Members(vmNamesFor(u, rows'[u].replicas)) \subseteq running'
          BY <4>1, <4>2, <4>4 DEF KeepsRouters
        <4> QED BY <3>3, <4>5 DEF allRunning, Members
      <3> QED BY <3>3, <3>4 DEF Runs
    <2> QED BY <2>1, <2>2
  <1>4. LeaksAreExplained'
    <2> SUFFICES ASSUME NEW u \in deleted' \ disturbed'
                 PROVE  (\E j \in Instances : TornBy(j, u)') \/ Clean(u)'
      BY DEF LeaksAreExplained, TearingDown, TornBy, Tearing, Clean
    <2>1. CASE TornBy(i, u) \/ u \notin deleted
      BY <2>1 DEF OwnWork
    <2>2. CASE ~TornBy(i, u) /\ u \in deleted
      <3>1. (\E j \in Instances : TornBy(j, u)) \/ Clean(u)
        BY <2>2 DEF IInv, LeaksAreExplained, TearingDown, TornBy, Tearing, Clean, Grows
      <3>2. Clean(u) => Clean(u)'
        BY <2>2 DEF KeepsRouters, Clean, vmsOf
      <3>3. \A j \in Instances \ {i} : TornBy(j, u) => TornBy(j, u)'
        BY DEF KeepsOthers, TornBy
      <3> QED BY <2>2, <3>1, <3>2, <3>3
    <2> QED BY <2>1, <2>2
  <1> QED BY <1>1, <1>2, <1>3, <1>4 DEF IInv

(* A step that touches neither etcd, NATS nor weft. *)
LEMMA QuietPreserves ==
    ASSUME IInv, NEW i \in Instances, TypeOK', JobOK(i)',
           \A j \in Instances \ {i} : job'[j] = job[j],
           UNCHANGED <<rows, config, vms, running, minted, deleted, ensured, disturbed>>,
           job'[i].pc \in Fresh => job[i].pc \in Fresh /\ job'[i].uuid = job[i].uuid,
           \A u \in deleted \ disturbed : TornBy(i, u) => TornBy(i, u)' \/ Clean(u)
    PROVE  IInv'
  <1>1. StoredOK'
    BY DEF IInv, StoredOK
  <1>2. Grows /\ KeepsRouters
    BY DEF Grows, KeepsRouters, Same
  <1>3. KeepsOthers(i)
    BY DEF KeepsOthers, IInv, JobOK, FreshOK
  <1>4. \A u \in deleted : Clean(u)' <=> Clean(u)
    BY DEF Clean, vmsOf
  <1>5. OwnWork(i)
    BY <1>4 DEF OwnWork
  <1> QED BY <1>1, <1>2, <1>3, <1>5, StepPreserves

-----------------------------------------------------------------------------
(* What an instance does next *)

(* One instance's record is replaced. *)
LEMMA JobUpdate ==
    ASSUME IInv, NEW i \in Instances, NEW r \in JobRecord, job' = [job EXCEPT ![i] = r]
    PROVE  /\ job[i] \in JobRecord
           /\ job' \in [Instances -> JobRecord] /\ job'[i] = r
           /\ \A j \in Instances \ {i} : job'[j] = job[j]
  <1>1. job \in [Instances -> JobRecord]
    BY DEF IInv, TypeOK, JobRecord, Entry
  <1> QED BY <1>1

(* An instance that has nothing in hand. *)
LEMMA RestingOK ==
    ASSUME IInv, NEW i \in Instances, NEW pc \in {"boot", "idle"},
           job' = [job EXCEPT ![i] = At(pc)]
    PROVE  At(pc) \in JobRecord /\ JobOK(i)'
  <1>1. At(pc) \in JobRecord
    BY DEF At, JobRecord, Labels, Statuses
  <1>2. job'[i] = At(pc)
    BY <1>1, JobUpdate
  <1>3. /\ job'[i].pc = pc /\ job'[i].names = <<>> /\ job'[i].todo = <<>>
    BY <1>2 DEF At
  <1>4. Holding(i)' = {}
    BY <1>3, MembersEmpty DEF Holding, InHand, Using, Members
  <1>5. Shape(i)'
    BY <1>3, MembersEmpty DEF Shape, Tearing, Members
  <1>6. FreshOK(i)' /\ HeldOK(i)' /\ EnsureOK(i)' /\ DestroyOK(i)'
    BY <1>3, <1>4 DEF FreshOK, Fresh, HeldOK, EnsureOK, DestroyOK
  <1> QED BY <1>1, <1>5, <1>6 DEF JobOK

(* A step of one instance that touches neither etcd, NATS nor weft. *)
LEMMA QuietStep ==
    ASSUME IInv, NEW i \in Instances, NEW r \in JobRecord, job' = [job EXCEPT ![i] = r],
           calls' \in 0..MaxCalls, failures' \in 0..MaxFailures,
           UNCHANGED <<rows, config, vms, running, minted, deleted, ensured, disturbed>>,
           JobOK(i)',
           r.pc \in Fresh => job[i].pc \in Fresh /\ r.uuid = job[i].uuid,
           \A u \in deleted \ disturbed :
             TornBy(i, u) => (r.uuid = u /\ r.pc \in Tearing) \/ Clean(u)
    PROVE  IInv'
  <1>1. /\ job' \in [Instances -> JobRecord] /\ job'[i] = r
        /\ \A j \in Instances \ {i} : job'[j] = job[j]
    BY JobUpdate
  <1>2. TypeOK'
    BY <1>1 DEF IInv, TypeOK, JobRecord, Entry
  <1>3. \A u \in deleted \ disturbed : TornBy(i, u) => TornBy(i, u)' \/ Clean(u)
    BY <1>1 DEF TornBy
  <1> QED BY <1>1, <1>2, <1>3, QuietPreserves

(* A call returns, having torn nothing down or left nothing behind. *)
LEMMA ReturnQuietly ==
    ASSUME IInv, NEW i \in Instances, Return(i),
           calls' \in 0..MaxCalls, failures' \in 0..MaxFailures,
           UNCHANGED <<rows, config, vms, running, minted, deleted, ensured, disturbed>>,
           \A u \in deleted \ disturbed : TornBy(i, u) => Clean(u)
    PROVE  IInv'
  <1>1. At("idle") \in JobRecord /\ JobOK(i)' /\ job' = [job EXCEPT ![i] = At("idle")]
    BY RestingOK DEF Return
  <1>2. At("idle").pc \notin Fresh
    BY DEF At, Fresh
  <1> HIDE DEF At
  <1> QED BY <1>1, <1>2, QuietStep

(* The counters stay in their bounds. *)
LEMMA Counters ==
    ASSUME IInv
    PROVE  /\ calls \in 0..MaxCalls /\ failures \in 0..MaxFailures
           /\ (calls < MaxCalls /\ calls' = calls + 1) => calls' \in 0..MaxCalls
           /\ Fail => failures' \in 0..MaxFailures
  BY BoundsAssumption DEF IInv, TypeOK, Fail

-----------------------------------------------------------------------------
(* Calls, lookups and returns *)

LEMMA CallDeleteRouterOK ==
    ASSUME IInv, NEW i \in Instances, CallDeleteRouter(i)
    PROVE  IInv'
  <1>1. PICK u \in minted : job' = [job EXCEPT ![i].pc = "delete", ![i].uuid = u]
    BY DEF CallDeleteRouter
  <1> DEFINE r == [job[i] EXCEPT !.pc = "delete", !.uuid = u]
  <1>2. /\ job[i] \in JobRecord /\ job[i].pc = "idle" /\ job[i].names = <<>>
        /\ job[i].todo = <<>>
    BY DEF IInv, TypeOK, JobRecord, Entry, CallDeleteRouter, Arrive, JobOK, Shape
  <1>3. /\ r \in JobRecord /\ r.pc = "delete" /\ r.uuid = u /\ r.names = <<>> /\ r.todo = <<>>
    BY <1>2 DEF IInv, TypeOK, JobRecord, Labels
  <1>4. job' = [job EXCEPT ![i] = r]
    BY <1>1
  <1> HIDE DEF r
  <1>5. job'[i] = r
    BY <1>3, <1>4, JobUpdate
  <1>6. /\ calls' \in 0..MaxCalls /\ failures' \in 0..MaxFailures
        /\ UNCHANGED <<rows, config, vms, running, minted, deleted, ensured, disturbed>>
    BY Counters DEF CallDeleteRouter, Arrive, etcdNats, weft, history
  <1>7. JobOK(i)'
    BY <1>3, <1>5, <1>6, MembersEmpty
      DEF JobOK, Shape, Tearing, FreshOK, Fresh, HeldOK, Holding, InHand, Using, EnsureOK,
          DestroyOK, Members
  <1> QED BY <1>2, <1>3, <1>4, <1>6, <1>7, QuietStep DEF Fresh, TornBy, Tearing

LEMMA StatusArrivesOK ==
    ASSUME IInv, NEW i \in Instances, StatusArrives(i)
    PROVE  IInv'
  <1>1. PICK u \in minted, peers \in Reports :
          job' = [job EXCEPT ![i].pc = "statusGet", ![i].uuid = u,
                             ![i].report = rollupStatus(peers)]
    BY DEF StatusArrives
  <1> DEFINE r == [job[i] EXCEPT !.pc = "statusGet", !.uuid = u, !.report = rollupStatus(peers)]
  <1>2. /\ job[i] \in JobRecord /\ job[i].pc = "idle" /\ job[i].names = <<>>
        /\ job[i].todo = <<>>
    BY DEF IInv, TypeOK, JobRecord, Entry, StatusArrives, Arrive, JobOK, Shape
  <1>3. rollupStatus(peers) \in Statuses
    BY DEF rollupStatus, Statuses
  <1>4. /\ r \in JobRecord /\ r.pc = "statusGet" /\ r.uuid = u /\ r.names = <<>>
        /\ r.todo = <<>>
    BY <1>2, <1>3 DEF IInv, TypeOK, JobRecord, Labels
  <1>5. job' = [job EXCEPT ![i] = r]
    BY <1>1
  <1> HIDE DEF r
  <1>6. job'[i] = r
    BY <1>4, <1>5, JobUpdate
  <1>7. /\ calls' \in 0..MaxCalls /\ failures' \in 0..MaxFailures
        /\ UNCHANGED <<rows, config, vms, running, minted, deleted, ensured, disturbed>>
    BY Counters DEF StatusArrives, Arrive, etcdNats, weft, history
  <1>8. JobOK(i)'
    BY <1>4, <1>6, <1>7, MembersEmpty
      DEF JobOK, Shape, Tearing, FreshOK, Fresh, HeldOK, Holding, InHand, Using, EnsureOK,
          DestroyOK, Members
  <1> QED BY <1>2, <1>4, <1>5, <1>7, <1>8, QuietStep DEF Fresh, TornBy, Tearing

LEMMA FIPChangedOK ==
    ASSUME IInv, NEW i \in Instances, FIPChanged(i)
    PROVE  IInv'
  <1> DEFINE r == [job[i] EXCEPT !.pc = "list"]
  <1>1. /\ job[i] \in JobRecord /\ job[i].pc = "idle" /\ job[i].names = <<>>
        /\ job[i].todo = <<>>
    BY DEF IInv, TypeOK, JobRecord, Entry, FIPChanged, Arrive, JobOK, Shape
  <1>2. r \in JobRecord /\ r.pc = "list" /\ r.names = <<>> /\ r.todo = <<>>
    BY <1>1 DEF JobRecord, Labels
  <1>3. job' = [job EXCEPT ![i] = r]
    BY DEF FIPChanged, Step
  <1> HIDE DEF r
  <1>4. job'[i] = r
    BY <1>2, <1>3, JobUpdate
  <1>5. /\ calls' \in 0..MaxCalls /\ failures' \in 0..MaxFailures
        /\ UNCHANGED <<rows, config, vms, running, minted, deleted, ensured, disturbed>>
    BY Counters DEF FIPChanged, Arrive, etcdNats, weft, history
  <1>6. JobOK(i)'
    BY <1>2, <1>4, MembersEmpty
      DEF JobOK, Shape, Tearing, FreshOK, Fresh, HeldOK, Holding, InHand, Using, EnsureOK,
          DestroyOK, Members
  <1> QED BY <1>1, <1>2, <1>3, <1>5, <1>6, QuietStep DEF Fresh, TornBy, Tearing

LEMMA NotFoundOK ==
    ASSUME IInv, NEW i \in Instances, NotFound(i) \/ EtcdFails(i)
    PROVE  IInv'
  <1>1. /\ Return(i) /\ job[i].pc \notin Tearing
        /\ UNCHANGED <<rows, config, vms, running, minted, deleted, ensured, disturbed>>
    BY DEF NotFound, EtcdFails, etcdNats, weft, history, Tearing
  <1>2. calls' \in 0..MaxCalls /\ failures' \in 0..MaxFailures
    BY Counters DEF NotFound, EtcdFails
  <1> QED BY <1>1, <1>2, ReturnQuietly DEF TornBy

LEMMA DestroyDoneOK ==
    ASSUME IInv, NEW i \in Instances, DestroyDone(i)
    PROVE  IInv'
  <1>1. /\ Return(i) /\ job[i].pc = "stop" /\ job[i].names = <<>>
        /\ UNCHANGED <<rows, config, vms, running, minted, deleted, ensured, disturbed>>
    BY DEF DestroyDone, etcdNats, weft, history
  <1>2. calls' \in 0..MaxCalls /\ failures' \in 0..MaxFailures
    BY Counters DEF DestroyDone
  <1>3. \A u \in deleted \ disturbed : TornBy(i, u) => Clean(u)
    <2>1. DestroyOK(i)
      BY DEF IInv, JobOK
    <2>2. Members(job[i].names) = {}
      BY <1>1, MembersEmpty
    <2> QED BY <1>1, <2>1, <2>2 DEF TornBy, DestroyOK, Clean
  <1> QED BY <1>1, <1>2, <1>3, ReturnQuietly

LEMMA CreateScanOK ==
    ASSUME IInv, NEW i \in Instances, CreateScan(i)
    PROVE  IInv'
  <1>1. /\ job[i].pc = "scan" /\ (Return(i) \/ Step(i, "put"))
        /\ UNCHANGED <<rows, config, vms, running, minted, deleted, ensured, disturbed>>
    BY DEF CreateScan, etcdNats, weft, history
  <1>2. calls' \in 0..MaxCalls /\ failures' \in 0..MaxFailures
    BY Counters DEF CreateScan
  <1>3. CASE Return(i)
    BY <1>1, <1>2, <1>3, ReturnQuietly DEF TornBy, Tearing
  <1>4. CASE Step(i, "put")
    <2> DEFINE r == [job[i] EXCEPT !.pc = "put"]
    <2>1. job[i] \in JobRecord /\ JobOK(i)
      BY DEF IInv, TypeOK, JobRecord, Entry
    <2>2. /\ r \in JobRecord /\ r.pc = "put" /\ r.uuid = job[i].uuid /\ r.row = job[i].row
          /\ r.names = job[i].names /\ r.todo = job[i].todo
      BY <2>1 DEF JobRecord, Labels
    <2>3. job' = [job EXCEPT ![i] = r]
      BY <1>4 DEF Step
    <2> HIDE DEF r
    <2>4. job'[i] = r
      BY <2>2, <2>3, JobUpdate
    <2>5. job[i].names = <<>> /\ job[i].todo = <<>>
      BY <1>1, <2>1 DEF JobOK, Shape
    <2>6. Shape(i)'
      BY <1>1, <2>1, <2>2, <2>4, <2>5 DEF JobOK, Shape, Tearing
    <2>7. FreshOK(i)'
      BY <1>1, <2>1, <2>2, <2>4 DEF JobOK, FreshOK, Fresh
    <2>8. HeldOK(i)' /\ EnsureOK(i)' /\ DestroyOK(i)'
      BY <2>2, <2>4, <2>5, MembersEmpty DEF HeldOK, Holding, InHand, Using, EnsureOK, DestroyOK, Members
    <2>9. JobOK(i)'
      BY <2>6, <2>7, <2>8 DEF JobOK
    <2> QED BY <1>1, <1>2, <2>2, <2>3, <2>9, QuietStep DEF Fresh, TornBy, Tearing
  <1> QED BY <1>1, <1>3, <1>4

(* A status report that finds the row holds it from here on. *)
LEMMA StatusGetOK ==
    ASSUME IInv, NEW i \in Instances, StatusGet(i)
    PROVE  IInv'
  <1> DEFINE u == job[i].uuid
  <1> DEFINE row == [rows[u] EXCEPT !.status = job[i].report]
  <1> DEFINE r == [job[i] EXCEPT !.pc = "statusPut", !.row = row]
  <1>1. /\ job[i].pc = "statusGet" /\ rows[u] # NoRouter
        /\ job' = [job EXCEPT ![i] = r]
        /\ UNCHANGED <<rows, config, vms, running, minted, deleted, ensured, disturbed>>
    BY DEF StatusGet, etcdNats, weft, history
  <1>2. calls' \in 0..MaxCalls /\ failures' \in 0..MaxFailures
    BY Counters DEF StatusGet
  <1>3. job[i] \in JobRecord /\ JobOK(i) /\ StoredOK /\ minted \subseteq Routers
    BY DEF IInv, TypeOK, JobRecord, Entry
  <1>4. u \in minted /\ u \in Routers /\ job[i].names = <<>> /\ job[i].todo = <<>>
    BY <1>1, <1>3 DEF JobOK, Shape
  <1>5. u \in deleted => u \in disturbed
    BY <1>1, <1>3 DEF StoredOK
  <1>6. rows[u] \in Row
    BY <1>1, <1>4 DEF IInv, TypeOK
  <1>7. row \in Row /\ Same(row, rows[u])
    <2>1. job[i].report \in Statuses
      BY <1>3 DEF JobRecord
    <2> QED BY <2>1, <1>6 DEF Row, Same
  <1> HIDE DEF row
  <1>8. /\ r \in JobRecord /\ r.pc = "statusPut" /\ r.uuid = u /\ r.row = row
        /\ r.names = <<>> /\ r.todo = <<>>
    BY <1>3, <1>4, <1>7 DEF JobRecord, Labels
  <1> HIDE DEF r
  <1>9. job'[i] = r
    BY <1>1, <1>8, JobUpdate
  <1>10. JobOK(i)'
    <2>1. Shape(i)'
      BY <1>1, <1>4, <1>8, <1>9, MembersEmpty DEF Shape, Tearing, Members
    <2>2. HeldOK(i)'
      <3>1. Holding(i)' = {[uuid |-> u, row |-> row]}
        BY <1>8, <1>9, MembersEmpty DEF Holding, InHand, Using, Members
      <3> QED BY <1>1, <1>4, <1>5, <1>7, <3>1 DEF HeldOK
    <2>3. FreshOK(i)' /\ EnsureOK(i)' /\ DestroyOK(i)'
      BY <1>8, <1>9 DEF FreshOK, Fresh, EnsureOK, DestroyOK
    <2> QED BY <2>1, <2>2, <2>3 DEF JobOK
  <1> QED BY <1>1, <1>2, <1>8, <1>10, QuietStep DEF Fresh, TornBy, Tearing

(* Destroy goes on to DeleteVM when StopVM fails. *)
LEMMA StopFailsOK ==
    ASSUME IInv, NEW i \in Instances, StopFails(i)
    PROVE  IInv'
  <1> DEFINE r == [job[i] EXCEPT !.pc = "remove"]
  <1>1. /\ job[i].pc = "stop" /\ job[i].names # <<>> /\ job' = [job EXCEPT ![i] = r]
        /\ UNCHANGED <<rows, config, vms, running, minted, deleted, ensured, disturbed>>
    BY DEF StopFails, Step, etcdNats, weft, history
  <1>2. calls' \in 0..MaxCalls /\ failures' \in 0..MaxFailures
    BY Counters DEF StopFails
  <1>3. job[i] \in JobRecord /\ JobOK(i)
    BY DEF IInv, TypeOK, JobRecord, Entry
  <1>4. /\ r \in JobRecord /\ r.pc = "remove" /\ r.uuid = job[i].uuid /\ r.row = job[i].row
        /\ r.names = job[i].names /\ r.todo = job[i].todo
    BY <1>3 DEF JobRecord, Labels
  <1> HIDE DEF r
  <1>5. job'[i] = r
    BY <1>1, <1>4, JobUpdate
  <1>6. JobOK(i)'
    <2>1. Shape(i)'
      BY <1>1, <1>3, <1>4, <1>5 DEF JobOK, Shape, Tearing
    <2>2. HeldOK(i)'
      BY <1>1, <1>3, <1>4, <1>5, MembersEmpty DEF JobOK, Shape, HeldOK, Holding, InHand, Using, Members
    <2>3. FreshOK(i)' /\ EnsureOK(i)' /\ DestroyOK(i)'
      BY <1>1, <1>3, <1>4, <1>5 DEF JobOK, FreshOK, Fresh, EnsureOK, DestroyOK, vmsOf
    <2> QED BY <2>1, <2>2, <2>3 DEF JobOK
  <1> QED BY <1>1, <1>2, <1>4, <1>6, QuietStep DEF Fresh, TornBy, Tearing

-----------------------------------------------------------------------------
(* The resync sweep and the callback's *)

(* A listing has entries of stored routers, as they are stored. *)
LEMMA ListingOK ==
    ASSUME IInv, NEW us \in SUBSET stored, NEW s \in Listings(us)
    PROVE  /\ s \in Seq(Entry)
           /\ \A e \in Members(s) : /\ e.uuid \in Routers /\ rows[e.uuid] # NoRouter
                                    /\ e.row = rows[e.uuid]
  <1>1. IsFiniteSet(us)
    <2>1. us \subseteq minted /\ IsFiniteSet(minted)
      BY DEF IInv, StoredOK, stored
    <2> QED BY <2>1, FS_Subset
  <1>2. Cardinality(us) \in Nat
    BY <1>1, FS_CardinalityType
  <1>3. PICK o \in [1..Cardinality(us) -> us] :
          s = [k \in DOMAIN o |-> [uuid |-> o[k], row |-> rows[o[k]]]]
    BY DEF Listings
  <1> DEFINE n == Cardinality(us)
  <1>4. ASSUME NEW k \in 1..n
        PROVE  /\ o[k] \in Routers /\ rows[o[k]] # NoRouter
               /\ [uuid |-> o[k], row |-> rows[o[k]]] \in Entry
    <2>1. o[k] \in Routers /\ rows[o[k]] # NoRouter
      BY <1>3 DEF stored
    <2>2. rows[o[k]] \in Row
      BY <2>1 DEF IInv, TypeOK
    <2> QED BY <2>1, <2>2 DEF Entry
  <1>5. DOMAIN o = 1..n
    BY <1>3
  <1> HIDE DEF n
  <1>6. s = [k \in 1..n |-> [uuid |-> o[k], row |-> rows[o[k]]]]
    BY <1>3, <1>5
  <1>7. n \in Nat
    BY <1>2 DEF n
  <1>8. s \in Seq(Entry)
    BY <1>4, <1>6, <1>7
  <1>9. ASSUME NEW e \in Members(s)
        PROVE  e.uuid \in Routers /\ rows[e.uuid] # NoRouter /\ e.row = rows[e.uuid]
    <2>1. PICK k \in 1..n : e = [uuid |-> o[k], row |-> rows[o[k]]]
      BY <1>6 DEF Members
    <2> QED BY <2>1, <1>4
  <1> QED BY <1>8, <1>9

LEMMA ListOK ==
    ASSUME IInv, NEW i \in Instances, ResyncList(i) \/ CallbackList(i)
    PROVE  IInv'
  <1>0. PICK us \in SUBSET stored, sweep \in {"resync", "callback"} :
          \E s \in Listings(us) :
            job' = [job EXCEPT ![i].pc = IF s = <<>> THEN "idle" ELSE sweep, ![i].todo = s]
    BY DEF ResyncList, CallbackList
  <1>1. PICK s \in Listings(us) :
          job' = [job EXCEPT ![i].pc = IF s = <<>> THEN "idle" ELSE sweep, ![i].todo = s]
    BY <1>0
  <1> DEFINE pc == IF s = <<>> THEN "idle" ELSE sweep
  <1> DEFINE r == [job[i] EXCEPT !.pc = pc, !.todo = s]
  <1>2. /\ job[i].pc \in {"boot", "list"} /\ job' = [job EXCEPT ![i] = r]
        /\ UNCHANGED <<rows, config, vms, running, minted, deleted, ensured, disturbed>>
    BY <1>1 DEF ResyncList, CallbackList, etcdNats, weft, history
  <1>3. calls' \in 0..MaxCalls /\ failures' \in 0..MaxFailures
    BY Counters DEF ResyncList, CallbackList
  <1>4. /\ job[i] \in JobRecord /\ job[i].names = <<>> /\ StoredOK
    BY <1>2 DEF IInv, TypeOK, JobRecord, Entry, JobOK, Shape
  <1>5. /\ s \in Seq(Entry)
        /\ \A e \in Members(s) : /\ e.uuid \in Routers /\ rows[e.uuid] # NoRouter
                                 /\ e.row = rows[e.uuid]
    BY ListingOK
  <1>6. pc \in {"idle", "resync", "callback"} /\ (pc # "idle" <=> s # <<>>)
    BY <1>0
  <1> HIDE DEF pc
  <1>7. /\ r \in JobRecord /\ r.pc = pc /\ r.names = <<>> /\ r.todo = s
    BY <1>4, <1>5, <1>6 DEF JobRecord, Labels
  <1> HIDE DEF r
  <1>8. job'[i] = r
    BY <1>2, <1>7, JobUpdate
  <1>9. JobOK(i)'
    <2>1. Shape(i)'
      BY <1>6, <1>7, <1>8, MembersEmpty DEF Shape, Tearing, Members
    <2>2. HeldOK(i)'
      <3>1. Holding(i)' = Members(s)
        BY <1>6, <1>7, <1>8 DEF Holding, InHand, Using, Members
      <3>2. ASSUME NEW e \in Members(s)
            PROVE  /\ e.uuid \in minted /\ e.row \in Row
                   /\ e.uuid \in deleted => e.uuid \in disturbed
                   /\ rows[e.uuid] # NoRouter /\ Same(e.row, rows[e.uuid])
        <4>1. e.uuid \in Routers /\ rows[e.uuid] # NoRouter /\ e.row = rows[e.uuid]
          BY <1>5
        <4>2. rows[e.uuid] \in Row
          BY <4>1 DEF IInv, TypeOK
        <4> QED BY <4>1, <4>2, <1>4 DEF StoredOK, Same
      <3> QED BY <3>1, <3>2, <1>2 DEF HeldOK
    <2>3. FreshOK(i)' /\ EnsureOK(i)' /\ DestroyOK(i)'
      BY <1>6, <1>7, <1>8 DEF FreshOK, Fresh, EnsureOK, DestroyOK
    <2> QED BY <2>1, <2>2, <2>3 DEF JobOK
  <1> QED BY <1>2, <1>3, <1>6, <1>7, <1>9, QuietStep DEF Fresh, TornBy, Tearing

LEMMA ResyncNextOK ==
    ASSUME IInv, NEW i \in Instances, ResyncNext(i)
    PROVE  IInv'
  <1> DEFINE todo == job[i].todo
  <1> DEFINE r == [job[i] EXCEPT !.pc = "publish", !.uuid = Head(todo).uuid,
                                 !.row = Head(todo).row, !.todo = Tail(todo)]
  <1>1. job[i] \in JobRecord /\ JobOK(i)
    BY DEF IInv, TypeOK, JobRecord, Entry
  <1>2. /\ job[i].pc = "resync" /\ job' = [job EXCEPT ![i] = r]
        /\ UNCHANGED <<rows, config, vms, running, minted, deleted, ensured, disturbed>>
    BY DEF ResyncNext, etcdNats, weft, history
  <1>3. calls' \in 0..MaxCalls /\ failures' \in 0..MaxFailures
    BY Counters DEF ResyncNext
  <1>4. todo \in Seq(Entry) /\ todo # <<>> /\ job[i].names = <<>>
    BY <1>1, <1>2 DEF JobOK, Shape, JobRecord
  <1>5. /\ Head(todo) \in Entry /\ Tail(todo) \in Seq(Entry)
        /\ Members(todo) = {Head(todo)} \union Members(Tail(todo))
    BY <1>4, MembersSplit
  <1> DEFINE h == Head(todo)  t == Tail(todo)
  <1>6. /\ r \in JobRecord /\ r.pc = "publish" /\ r.uuid = h.uuid /\ r.row = h.row
        /\ r.names = <<>> /\ r.todo = t
    BY <1>1, <1>4, <1>5 DEF JobRecord, Labels, Entry
  <1>7. h = [uuid |-> h.uuid, row |-> h.row]
    BY <1>5 DEF Entry
  <1>8. Members(todo) = {h} \union Members(t)
    BY <1>5
  <1> HIDE DEF r, h, t
  <1>9. job'[i] = r
    BY <1>2, <1>6, JobUpdate
  <1>10. Holding(i) = Members(todo) /\ HeldOK(i)
    BY <1>1, <1>2 DEF JobOK, Holding, InHand, Using
  <1>11. Holding(i)' = Holding(i)
    <2>1. Holding(i)' = Members(t) \union {[uuid |-> h.uuid, row |-> h.row]}
      BY <1>6, <1>9 DEF Holding, InHand, Using, Members
    <2> QED BY <2>1, <1>7, <1>8, <1>10
  <1>12. JobOK(i)'
    <2>1. HeldOK(i)'
      BY <1>2, <1>10, <1>11 DEF HeldOK
    <2>2. h.uuid \in minted
      BY <1>8, <1>10 DEF HeldOK
    <2>3. Shape(i)'
      BY <1>2, <1>6, <1>9, <2>2, MembersEmpty DEF Shape, Tearing, Members
    <2>4. FreshOK(i)' /\ EnsureOK(i)' /\ DestroyOK(i)'
      BY <1>6, <1>9 DEF FreshOK, Fresh, EnsureOK, DestroyOK
    <2> QED BY <2>1, <2>3, <2>4 DEF JobOK
  <1> QED BY <1>2, <1>3, <1>6, <1>12, QuietStep DEF Fresh, TornBy, Tearing

-----------------------------------------------------------------------------
(* The publisher and the lifecycle *)

(* A step on NATS or weft that adds nothing to a router removed without a  *)
(* disturbance and takes nothing from one that is not removed.             *)
LEMMA WeftStep ==
    ASSUME IInv, NEW i \in Instances, NEW r \in JobRecord, job' = [job EXCEPT ![i] = r],
           calls' \in 0..MaxCalls, failures' \in 0..MaxFailures,
           config' \in [Routers -> {"none", "state", "empty"}],
           vms' \subseteq VMs, running' \subseteq vms',
           UNCHANGED <<rows, minted, deleted, ensured>>,
           disturbed \subseteq disturbed', disturbed' \subseteq deleted,
           JobOK(i)', r.pc \notin Fresh,
           \A vm \in running : vm[1] \notin deleted => vm \in running',
           \A u \in deleted \ disturbed' :
             /\ config[u] # "state" => config'[u] # "state"
             /\ \A vm \in vms' : vm[1] = u => vm \in vms
             /\ TornBy(i, u) => r.uuid = u /\ r.pc \in Tearing
    PROVE  IInv'
  <1>1. /\ job' \in [Instances -> JobRecord] /\ job'[i] = r
        /\ \A j \in Instances \ {i} : job'[j] = job[j]
    BY JobUpdate
  <1>2. TypeOK'
    BY <1>1 DEF IInv, TypeOK, JobRecord, Entry
  <1>3. StoredOK'
    BY DEF IInv, StoredOK
  <1>4. Grows /\ KeepsRouters
    BY DEF Grows, KeepsRouters, Same
  <1>5. KeepsOthers(i)
    BY <1>1 DEF KeepsOthers, IInv, JobOK, FreshOK
  <1>6. OwnWork(i)
    BY <1>1 DEF OwnWork, TornBy
  <1> QED BY <1>1, <1>2, <1>3, <1>4, <1>5, <1>6, StepPreserves

(* What is known of the row an instance is using. *)
LEMMA InUse ==
    ASSUME IInv, NEW i \in Instances, job[i].pc \in Using
    PROVE  /\ job[i].uuid \in minted /\ job[i].uuid \in Routers /\ job[i].row \in Row
           /\ job[i].uuid \in deleted => job[i].uuid \in disturbed
           /\ job[i].uuid \notin deleted =>
                rows[job[i].uuid] # NoRouter /\ Same(job[i].row, rows[job[i].uuid])
  <1>1. HeldOK(i) /\ minted \subseteq Routers
    BY DEF IInv, TypeOK, JobOK
  <1>2. [uuid |-> job[i].uuid, row |-> job[i].row] \in Holding(i)
    BY DEF Holding, InHand
  <1> QED BY <1>1, <1>2 DEF HeldOK

(* Ensure begins with all the names of the row in hand. *)
LEMMA ToEnsureJob ==
    ASSUME IInv, NEW i \in Instances, job[i].pc = "publish", ToEnsure(i),
           UNCHANGED <<rows, minted, deleted, disturbed>>
    PROVE  \E r \in JobRecord : /\ job' = [job EXCEPT ![i] = r]
                                /\ r.pc = "register" /\ JobOK(i)'
  <1> DEFINE u == job[i].uuid  row == job[i].row
  <1> DEFINE names == IF HasVMs(row) THEN vmNamesFor(u, row.replicas) ELSE <<>>
  <1> DEFINE r == [job[i] EXCEPT !.pc = "register", !.names = names]
  <1>1. job[i] \in JobRecord /\ JobOK(i)
    BY DEF IInv, TypeOK, JobRecord, Entry
  <1>2. u \in minted /\ u \in Routers /\ row \in Row /\ row.replicas \in 1..maxReplicas
    <2>1. u \in minted /\ u \in Routers /\ row \in Row
      BY InUse DEF Using
    <2> QED BY <2>1 DEF Row
  <1>3. names \in Seq(VMs) /\ \A vm \in Members(names) : vm[1] = u
    BY <1>2, EnsuredNames, MembersEmpty
  <1>4. HasVMs(row) => names = vmNamesFor(u, row.replicas)
    OBVIOUS
  <1>5. job' = [job EXCEPT ![i] = r]
    BY DEF ToEnsure
  <1> HIDE DEF names
  <1>6. /\ r \in JobRecord /\ r.pc = "register" /\ r.uuid = u /\ r.row = row
        /\ r.names = names /\ r.todo = job[i].todo
    BY <1>1, <1>3 DEF JobRecord, Labels
  <1> HIDE DEF r
  <1>7. job'[i] = r
    BY <1>5, <1>6, JobUpdate
  <1>8. Shape(i)'
    BY <1>2, <1>3, <1>6, <1>7 DEF Shape, Tearing, Members
  <1>9. Holding(i)' = Holding(i) /\ HeldOK(i)
    BY <1>1, <1>6, <1>7 DEF Holding, InHand, Using, JobOK, Members
  <1>10. HeldOK(i)'
    BY <1>9 DEF HeldOK
  <1>11. EnsureOK(i)'
    BY <1>4, <1>6, <1>7 DEF EnsureOK, Members
  <1>12. FreshOK(i)' /\ DestroyOK(i)'
    BY <1>6, <1>7 DEF FreshOK, Fresh, DestroyOK
  <1> QED BY <1>5, <1>6, <1>8, <1>10, <1>11, <1>12 DEF JobOK

LEMMA PublishOK ==
    ASSUME IInv, NEW i \in Instances, Publish(i) \/ PublishFails(i)
    PROVE  IInv'
  <1>1. /\ job[i].pc = "publish" /\ ToEnsure(i)
        /\ UNCHANGED <<rows, vms, running, minted, deleted, ensured, disturbed>>
        /\ \/ UNCHANGED config
           \/ config' = [config EXCEPT ![job[i].uuid] = "state"]
    BY DEF Publish, PublishFails, etcdNats, weft, history
  <1>2. calls' \in 0..MaxCalls /\ failures' \in 0..MaxFailures
    BY Counters DEF Publish, PublishFails
  <1>3. PICK r \in JobRecord : job' = [job EXCEPT ![i] = r] /\ r.pc = "register" /\ JobOK(i)'
    BY <1>1, ToEnsureJob
  <1>4. config \in [Routers -> {"none", "state", "empty"}]
        /\ vms \subseteq VMs /\ running \subseteq vms /\ disturbed \subseteq deleted
        /\ deleted \subseteq Routers
    BY DEF IInv, TypeOK
  <1>5. job[i].uuid \in deleted => job[i].uuid \in disturbed
    BY <1>1, InUse DEF Using
  <1>6. /\ config' \in [Routers -> {"none", "state", "empty"}]
        /\ \A u \in deleted \ disturbed : config'[u] = config[u]
    BY <1>1, <1>4, <1>5
  <1>7. \A u : ~TornBy(i, u)
    BY <1>1 DEF TornBy, Tearing
  <1> QED BY <1>1, <1>2, <1>3, <1>4, <1>6, <1>7, WeftStep DEF Fresh

(* The callback publishes a row it listed, that of a router which is still *)
(* there or whose removal overlapped the callback.                         *)
LEMMA CallbackPublishOK ==
    ASSUME IInv, NEW i \in Instances, CallbackPublish(i) \/ CallbackPublishFails(i)
    PROVE  IInv'
  <1> DEFINE todo == job[i].todo
             h == Head(todo)
             t == Tail(todo)
             pc == IF t = <<>> THEN "idle" ELSE "callback"
             r == [job[i] EXCEPT !.pc = pc, !.todo = t]
  <1>1. job[i] \in JobRecord /\ JobOK(i)
    BY DEF IInv, TypeOK, JobRecord, Entry
  <1>2. /\ job[i].pc = "callback" /\ job' = [job EXCEPT ![i] = r]
        /\ UNCHANGED <<rows, vms, running, minted, deleted, ensured, disturbed>>
        /\ UNCHANGED config \/ config' = [config EXCEPT ![h.uuid] = "state"]
    BY DEF CallbackPublish, CallbackPublishFails, CallbackNext, etcdNats, weft, history
  <1>3. calls' \in 0..MaxCalls /\ failures' \in 0..MaxFailures
    BY Counters DEF CallbackPublish, CallbackPublishFails
  <1>4. todo \in Seq(Entry) /\ todo # <<>> /\ job[i].names = <<>>
    BY <1>1, <1>2 DEF JobOK, Shape, JobRecord
  <1>5. h \in Entry /\ t \in Seq(Entry) /\ Members(todo) = {h} \union Members(t)
    BY <1>4, MembersSplit
  <1>6. pc \in {"idle", "callback"} /\ (pc # "idle" <=> t # <<>>)
    OBVIOUS
  <1> HIDE DEF pc, h, t
  <1>7. r \in JobRecord /\ r.pc = pc /\ r.names = <<>> /\ r.todo = t
    BY <1>1, <1>4, <1>5, <1>6 DEF JobRecord, Labels
  <1> HIDE DEF r
  <1>8. job'[i] = r
    BY <1>2, <1>7, JobUpdate
  <1>9. Holding(i) = {h} \union Members(t) /\ HeldOK(i)
    BY <1>1, <1>2, <1>5 DEF JobOK, Holding, InHand, Using
  <1>10. Holding(i)' = Members(t)
    BY <1>6, <1>7, <1>8 DEF Holding, InHand, Using, Members
  <1>11. JobOK(i)'
    <2>1. HeldOK(i)'
      BY <1>2, <1>9, <1>10 DEF HeldOK
    <2>2. Shape(i)'
      BY <1>6, <1>7, <1>8, MembersEmpty DEF Shape, Tearing, Members
    <2>3. FreshOK(i)' /\ EnsureOK(i)' /\ DestroyOK(i)'
      BY <1>6, <1>7, <1>8 DEF FreshOK, Fresh, EnsureOK, DestroyOK
    <2> QED BY <2>1, <2>2, <2>3 DEF JobOK
  <1>12. /\ config \in [Routers -> {"none", "state", "empty"}]
         /\ vms \subseteq VMs /\ running \subseteq vms /\ disturbed \subseteq deleted
         /\ deleted \subseteq Routers
    BY DEF IInv, TypeOK
  <1>13. h.uuid \in deleted => h.uuid \in disturbed
    BY <1>9 DEF HeldOK
  <1>14. /\ config' \in [Routers -> {"none", "state", "empty"}]
         /\ \A u \in deleted \ disturbed : config'[u] = config[u]
    BY <1>2, <1>12, <1>13
  <1>15. (\A u : ~TornBy(i, u)) /\ r.pc \notin Fresh
    BY <1>2, <1>6, <1>7 DEF TornBy, Tearing, Fresh
  <1> QED BY <1>2, <1>3, <1>7, <1>11, <1>12, <1>14, <1>15, WeftStep

(* Destroy begins with every name Ensure may have used. *)
LEMMA ToDestroyJob ==
    ASSUME IInv, NEW i \in Instances, job[i].pc = "withdraw", ToDestroy(i),
           UNCHANGED <<vms, minted, deleted>>,
           config'[job[i].uuid] # "state" \/ job[i].uuid \in disturbed'
    PROVE  \E r \in JobRecord : /\ job' = [job EXCEPT ![i] = r] /\ JobOK(i)'
                                /\ r.pc = "stop" /\ r.uuid = job[i].uuid
  <1> DEFINE u == job[i].uuid  names == probedNames(u)
  <1> DEFINE r == [job[i] EXCEPT !.pc = "stop", !.names = names]
  <1>1. job[i] \in JobRecord /\ JobOK(i) /\ minted \subseteq Routers /\ vms \subseteq VMs
    BY DEF IInv, TypeOK, JobRecord, Entry
  <1>2. u \in minted /\ u \in Routers /\ u \in deleted /\ job[i].todo = <<>>
    BY <1>1 DEF JobOK, Shape, Tearing
  <1>3. /\ names \in Seq(VMs) /\ \A vm \in Members(names) : vm[1] = u
        /\ \A vm \in VMs : vm[1] = u => vm \in Members(names)
    BY <1>2, ProbedNames
  <1>4. job' = [job EXCEPT ![i] = r]
    BY DEF ToDestroy
  <1> HIDE DEF names
  <1>5. /\ r \in JobRecord /\ r.pc = "stop" /\ r.uuid = u
        /\ r.names = names /\ r.todo = <<>>
    BY <1>1, <1>2, <1>3 DEF JobRecord, Labels
  <1> HIDE DEF r
  <1>6. job'[i] = r
    BY <1>4, <1>5, JobUpdate
  <1>7. Shape(i)'
    BY <1>2, <1>3, <1>5, <1>6 DEF Shape, Tearing, Members
  <1>8. HeldOK(i)'
    BY <1>5, <1>6, MembersEmpty DEF HeldOK, Holding, InHand, Using, Members
  <1>9. DestroyOK(i)'
    BY <1>1, <1>3, <1>5, <1>6 DEF DestroyOK, vmsOf, Members
  <1>10. FreshOK(i)' /\ EnsureOK(i)'
    BY <1>5, <1>6 DEF FreshOK, Fresh, EnsureOK
  <1> QED BY <1>4, <1>5, <1>7, <1>8, <1>9, <1>10 DEF JobOK

LEMMA WithdrawOK ==
    ASSUME IInv, NEW i \in Instances, Withdraw(i) \/ WithdrawFails(i)
    PROVE  IInv'
  <1> DEFINE u == job[i].uuid
  <1>1. u \in deleted /\ u \in Routers
    BY DEF IInv, TypeOK, JobOK, Shape, Tearing, Withdraw, WithdrawFails
  <1>2. /\ config \in [Routers -> {"none", "state", "empty"}]
        /\ vms \subseteq VMs /\ running \subseteq vms /\ disturbed \subseteq deleted
        /\ deleted \subseteq Routers
    BY DEF IInv, TypeOK
  <1>3. /\ job[i].pc = "withdraw" /\ ToDestroy(i)
        /\ UNCHANGED <<rows, vms, running, minted, deleted, ensured>>
    BY DEF Withdraw, WithdrawFails, etcdNats, weft, history
  <1>4. \/ config' = [config EXCEPT ![u] = "empty"] /\ disturbed' = disturbed
        \/ config' = config /\ disturbed' = disturbed \union {u}
    BY DEF Withdraw, WithdrawFails, etcdNats, history
  <1>5. calls' \in 0..MaxCalls /\ failures' \in 0..MaxFailures
    BY Counters DEF Withdraw, WithdrawFails
  <1>6. /\ config' \in [Routers -> {"none", "state", "empty"}]
        /\ disturbed \subseteq disturbed' /\ disturbed' \subseteq deleted
        /\ config'[u] # "state" \/ u \in disturbed'
        /\ \A v \in deleted : config[v] # "state" => config'[v] # "state"
    BY <1>1, <1>2, <1>4
  <1>7. PICK r \in JobRecord : /\ job' = [job EXCEPT ![i] = r] /\ JobOK(i)'
                               /\ r.pc = "stop" /\ r.uuid = u
    BY <1>3, <1>6, ToDestroyJob
  <1> QED BY <1>2, <1>3, <1>5, <1>6, <1>7, WeftStep DEF Fresh, TornBy, Tearing

(* Back to the sweep, or home. *)
LEMMA LeaveEnsureJob ==
    ASSUME IInv, NEW i \in Instances, job[i].pc \in {"register", "start"}, LeaveEnsure(i),
           UNCHANGED <<rows, minted, deleted, disturbed>>
    PROVE  \E r \in JobRecord : /\ job' = [job EXCEPT ![i] = r] /\ JobOK(i)'
                                /\ r.pc \in {"idle", "resync"}
  <1> DEFINE todo == job[i].todo
  <1>1. job[i] \in JobRecord /\ JobOK(i)
    BY DEF IInv, TypeOK, JobRecord, Entry
  <1>2. CASE todo = <<>>
    <2>1. job' = [job EXCEPT ![i] = At("idle")]
      BY <1>2 DEF LeaveEnsure
    <2>2. At("idle") \in JobRecord /\ JobOK(i)'
      BY <2>1, RestingOK
    <2>3. At("idle").pc = "idle"
      BY DEF At
    <2> HIDE DEF At
    <2> QED BY <2>1, <2>2, <2>3
  <1>3. CASE todo # <<>>
    <2> DEFINE r == [At("resync") EXCEPT !.todo = todo]
    <2>1. job' = [job EXCEPT ![i] = r]
      BY <1>3 DEF LeaveEnsure
    <2>2. r \in JobRecord /\ r.pc = "resync" /\ r.names = <<>> /\ r.todo = todo
      <3>1. At("resync") \in JobRecord
        BY DEF At, JobRecord, Labels, Statuses
      <3>2. At("resync").pc = "resync" /\ At("resync").names = <<>>
        BY DEF At
      <3>3. todo \in Seq(Entry)
        BY <1>1 DEF JobRecord
      <3> HIDE DEF At, todo
      <3> QED BY <3>1, <3>2, <3>3 DEF JobRecord
    <2> HIDE DEF r
    <2>3. job'[i] = r
      BY <2>1, <2>2, JobUpdate
    <2>4. Shape(i)'
      BY <1>3, <2>2, <2>3, MembersEmpty DEF Shape, Tearing, Members
    <2>5. HeldOK(i)'
      <3>1. Holding(i)' \subseteq Holding(i) /\ HeldOK(i)
        BY <1>1, <2>2, <2>3 DEF Holding, InHand, Using, JobOK, Members
      <3> QED BY <3>1 DEF HeldOK
    <2>6. FreshOK(i)' /\ EnsureOK(i)' /\ DestroyOK(i)'
      BY <2>2, <2>3 DEF FreshOK, Fresh, EnsureOK, DestroyOK
    <2> QED BY <2>1, <2>2, <2>4, <2>5, <2>6 DEF JobOK
  <1> QED BY <1>2, <1>3

(* Ensure's next name belongs to the router. *)
LEMMA NextName ==
    ASSUME IInv, NEW i \in Instances, job[i].names # <<>>
    PROVE  /\ Head(job[i].names) \in VMs /\ Tail(job[i].names) \in Seq(VMs)
           /\ Head(job[i].names)[1] = job[i].uuid
           /\ Members(job[i].names) = {Head(job[i].names)} \union Members(Tail(job[i].names))
  <1>1. job[i].names \in Seq(VMs) /\ Shape(i)
    BY DEF IInv, TypeOK, JobOK
  <1>2. /\ Head(job[i].names) \in VMs /\ Tail(job[i].names) \in Seq(VMs)
        /\ Members(job[i].names) = {Head(job[i].names)} \union Members(Tail(job[i].names))
    BY <1>1, MembersSplit
  <1> QED BY <1>1, <1>2 DEF Shape

LEMMA EnsureRegisterOK ==
    ASSUME IInv, NEW i \in Instances, EnsureRegister(i)
    PROVE  IInv'
  <1> DEFINE h == Head(job[i].names)
  <1> DEFINE r == [job[i] EXCEPT !.pc = "start"]
  <1>1. /\ job[i].pc = "register" /\ job[i].names # <<>> /\ job' = [job EXCEPT ![i] = r]
        /\ vms' = vms \union {h}
        /\ UNCHANGED <<rows, config, running, minted, deleted, ensured, disturbed>>
    BY DEF EnsureRegister, Step, etcdNats, history
  <1>2. calls' \in 0..MaxCalls /\ failures' \in 0..MaxFailures
    BY Counters DEF EnsureRegister
  <1>3. job[i] \in JobRecord /\ JobOK(i)
    BY DEF IInv, TypeOK, JobRecord, Entry
  <1>4. h \in VMs /\ h[1] = job[i].uuid
    BY <1>1, NextName
  <1>5. job[i].uuid \in deleted => job[i].uuid \in disturbed
    BY <1>1, InUse DEF Using
  <1>6. /\ config \in [Routers -> {"none", "state", "empty"}]
        /\ vms \subseteq VMs /\ running \subseteq vms /\ disturbed \subseteq deleted
    BY DEF IInv, TypeOK
  <1>7. /\ r \in JobRecord /\ r.pc = "start" /\ r.uuid = job[i].uuid /\ r.row = job[i].row
        /\ r.names = job[i].names /\ r.todo = job[i].todo
    BY <1>3 DEF JobRecord, Labels
  <1> HIDE DEF r, h
  <1>8. job'[i] = r
    BY <1>1, <1>7, JobUpdate
  <1>9. JobOK(i)'
    <2>1. Shape(i)'
      BY <1>1, <1>3, <1>7, <1>8 DEF JobOK, Shape, Tearing, Members
    <2>2. Holding(i)' = Holding(i) /\ HeldOK(i)
      BY <1>1, <1>3, <1>7, <1>8 DEF Holding, InHand, Using, JobOK, Members
    <2>3. HeldOK(i)'
      BY <1>1, <2>2 DEF HeldOK
    <2>4. EnsureOK(i)'
      BY <1>1, <1>3, <1>7, <1>8 DEF JobOK, EnsureOK, Members
    <2>5. FreshOK(i)' /\ DestroyOK(i)'
      BY <1>7, <1>8 DEF FreshOK, Fresh, DestroyOK
    <2> QED BY <2>1, <2>3, <2>4, <2>5 DEF JobOK
  <1>10. vms' \subseteq VMs /\ running' \subseteq vms'
    BY <1>1, <1>4, <1>6
  <1>11. \A u \in deleted \ disturbed : \A vm \in vms' : vm[1] = u => vm \in vms
    BY <1>1, <1>4, <1>5
  <1>12. \A u : ~TornBy(i, u)
    BY <1>1 DEF TornBy, Tearing
  <1> QED BY <1>1, <1>2, <1>6, <1>7, <1>9, <1>10, <1>11, <1>12, WeftStep DEF Fresh

LEMMA EnsureStartOK ==
    ASSUME IInv, NEW i \in Instances, EnsureStart(i)
    PROVE  IInv'
  <1> DEFINE h == Head(job[i].names)  t == Tail(job[i].names)
  <1> DEFINE r == [job[i] EXCEPT !.pc = "register", !.names = t]
  <1>1. /\ job[i].pc = "start" /\ h \in vms /\ job' = [job EXCEPT ![i] = r]
        /\ running' = running \union {h}
        /\ UNCHANGED <<rows, config, vms, minted, deleted, ensured, disturbed>>
    <2>1. job[i] \in JobRecord
      BY DEF IInv, TypeOK, JobRecord, Entry
    <2> QED BY <2>1 DEF EnsureStart, etcdNats, history
  <1>2. calls' \in 0..MaxCalls /\ failures' \in 0..MaxFailures
    BY Counters DEF EnsureStart
  <1>3. job[i] \in JobRecord /\ JobOK(i)
    BY DEF IInv, TypeOK, JobRecord, Entry
  <1>4. job[i].names # <<>>
    BY <1>1, <1>3 DEF JobOK, Shape
  <1>5. t \in Seq(VMs) /\ Members(job[i].names) = {h} \union Members(t)
    BY <1>4, NextName
  <1>6. /\ config \in [Routers -> {"none", "state", "empty"}]
        /\ vms \subseteq VMs /\ running \subseteq vms /\ disturbed \subseteq deleted
    BY DEF IInv, TypeOK
  <1>7. /\ r \in JobRecord /\ r.pc = "register" /\ r.uuid = job[i].uuid /\ r.row = job[i].row
        /\ r.names = t /\ r.todo = job[i].todo
    BY <1>3, <1>5 DEF JobRecord, Labels
  <1> HIDE DEF r, h, t
  <1>8. job'[i] = r
    BY <1>1, <1>7, JobUpdate
  <1>9. JobOK(i)'
    <2>1. Shape(i)'
      <3>1. \A vm \in Members(t) : vm[1] = job[i].uuid
        BY <1>3, <1>5 DEF JobOK, Shape
      <3> QED BY <1>1, <1>3, <1>7, <1>8, <3>1 DEF JobOK, Shape, Tearing, Members
    <2>2. Holding(i)' = Holding(i) /\ HeldOK(i)
      BY <1>1, <1>3, <1>7, <1>8 DEF Holding, InHand, Using, JobOK, Members
    <2>3. HeldOK(i)'
      BY <1>1, <2>2 DEF HeldOK
    <2>4. EnsureOK(i)'
      <3>1. EnsureOK(i) /\ Members(job[i].names)' = Members(t)
        BY <1>3, <1>7, <1>8 DEF JobOK, Members
      <3> SUFFICES ASSUME job[i].uuid \notin deleted, HasVMs(job[i].row)
                   PROVE  Members(vmNamesFor(job[i].uuid, job[i].row.replicas))
                            \subseteq running' \union Members(t)
        BY <1>1, <1>7, <1>8, <3>1 DEF EnsureOK
      <3>2. Members(vmNamesFor(job[i].uuid, job[i].row.replicas))
              \subseteq running \union Members(job[i].names)
        BY <1>1, <3>1 DEF EnsureOK
      <3> QED BY <1>1, <1>5, <3>2
    <2>5. FreshOK(i)' /\ DestroyOK(i)'
      BY <1>7, <1>8 DEF FreshOK, Fresh, DestroyOK
    <2> QED BY <2>1, <2>3, <2>4, <2>5 DEF JobOK
  <1>10. running' \subseteq vms'
    BY <1>1, <1>6
  <1>11. \A u : ~TornBy(i, u)
    BY <1>1 DEF TornBy, Tearing
  <1> QED BY <1>1, <1>2, <1>6, <1>7, <1>9, <1>10, <1>11, WeftStep DEF Fresh

(* Ensure gives up: a micro-VM may have been registered or started. *)
LEMMA EnsureGivesUpOK ==
    ASSUME IInv, NEW i \in Instances, EnsureGone(i) \/ EnsureFails(i)
    PROVE  IInv'
  <1> DEFINE h == Head(job[i].names)
  <1>1. /\ job[i].pc \in {"register", "start"} /\ LeaveEnsure(i)
        /\ UNCHANGED <<rows, config, minted, deleted, ensured, disturbed>>
    BY DEF EnsureGone, EnsureFails, etcdNats, history, weft
  <1>2. calls' \in 0..MaxCalls /\ failures' \in 0..MaxFailures
    BY Counters DEF EnsureGone, EnsureFails
  <1>3. /\ config \in [Routers -> {"none", "state", "empty"}]
        /\ vms \subseteq VMs /\ running \subseteq vms /\ disturbed \subseteq deleted
    BY DEF IInv, TypeOK
  <1>4. job[i].uuid \in deleted => job[i].uuid \in disturbed
    BY <1>1, InUse DEF Using
  <1>5. \/ UNCHANGED vms
        \/ job[i].names # <<>> /\ vms' = vms \union {h}
    BY DEF EnsureGone, EnsureFails, weft
  <1>6. running \subseteq running' /\ running' \subseteq vms'
    BY <1>3 DEF EnsureGone, EnsureFails, weft
  <1>7. /\ vms' \subseteq VMs
        /\ \A u \in deleted \ disturbed : \A vm \in vms' : vm[1] = u => vm \in vms
    <2>1. CASE UNCHANGED vms
      BY <2>1, <1>3
    <2>2. CASE job[i].names # <<>> /\ vms' = vms \union {h}
      <3>1. h \in VMs /\ h[1] = job[i].uuid
        BY <2>2, NextName
      <3> QED BY <2>2, <3>1, <1>3, <1>4
    <2> QED BY <1>5, <2>1, <2>2
  <1>8. PICK r \in JobRecord : /\ job' = [job EXCEPT ![i] = r] /\ JobOK(i)'
                               /\ r.pc \in {"idle", "resync"}
    BY <1>1, LeaveEnsureJob
  <1>9. \A u : ~TornBy(i, u)
    BY <1>1 DEF TornBy, Tearing
  <1> QED BY <1>1, <1>2, <1>3, <1>6, <1>7, <1>8, <1>9, WeftStep DEF Fresh

(* Ensure ends well: everything it was to start is running. *)
LEMMA EnsureDoneOK ==
    ASSUME IInv, NEW i \in Instances, EnsureDone(i)
    PROVE  IInv'
  <1> DEFINE row == job[i].row
  <1>0. PICK u : u = job[i].uuid
    OBVIOUS
  <1>1. /\ job[i].pc = "register" /\ job[i].names = <<>> /\ LeaveEnsure(i)
        /\ ensured' = ensured \union {u}
        /\ UNCHANGED <<rows, config, vms, running, minted, deleted, disturbed>>
    BY <1>0 DEF EnsureDone, etcdNats, weft
  <1>2. calls' \in 0..MaxCalls /\ failures' \in 0..MaxFailures
    BY Counters DEF EnsureDone
  <1>3. PICK r \in JobRecord : /\ job' = [job EXCEPT ![i] = r] /\ JobOK(i)'
                               /\ r.pc \in {"idle", "resync"}
    BY <1>1, LeaveEnsureJob
  <1>4. /\ job' \in [Instances -> JobRecord] /\ job'[i] = r
        /\ \A j \in Instances \ {i} : job'[j] = job[j]
    BY <1>3, JobUpdate
  <1>5. /\ u \in minted /\ u \in Routers /\ row \in Row
        /\ u \notin deleted => rows[u] # NoRouter /\ Same(row, rows[u])
    BY <1>0, <1>1, InUse DEF Using
  <1>6. TypeOK'
    BY <1>1, <1>2, <1>4, <1>5 DEF IInv, TypeOK, JobRecord, Entry
  <1>7. StoredOK'
    BY <1>1 DEF IInv, StoredOK
  <1>8. Grows /\ KeepsRouters
    BY <1>1 DEF Grows, KeepsRouters, Same
  <1>9. KeepsOthers(i)
    BY <1>1, <1>4 DEF KeepsOthers, IInv, JobOK, FreshOK
  <1>10. ASSUME u \notin deleted PROVE Runs(u)'
    <2>1. rows[u] # NoRouter /\ Same(row, rows[u])
      BY <1>5, <1>10
    <2>2. ASSUME HasVMs(rows[u]) PROVE allRunning(u)
      <3>1. HasVMs(row) /\ row.replicas = rows[u].replicas
        BY <2>1, <2>2 DEF Same, HasVMs
      <3>2. Members(vmNamesFor(u, row.replicas)) \subseteq running \union Members(job[i].names)
        BY <1>0, <1>1, <1>10, <3>1 DEF IInv, JobOK, EnsureOK
      <3>3. Members(job[i].names) = {}
        BY <1>1, MembersEmpty
      <3> QED BY <2>1, <3>1, <3>2, <3>3, RunningNames
    <2>3. Runs(u)' <=> Runs(u)
      BY <1>1 DEF Runs, allRunning, HasVMs
    <2> QED BY <2>1, <2>2, <2>3 DEF Runs
  <1>11. OwnWork(i)
    <2>1. job'[i].pc \notin Fresh /\ \A v : ~TornBy(i, v)
      BY <1>1, <1>3, <1>4 DEF Fresh, TornBy, Tearing
    <2> QED BY <1>1, <1>10, <2>1 DEF OwnWork
  <1> QED BY <1>3, <1>6, <1>7, <1>8, <1>9, <1>11, StepPreserves

LEMMA DestroyStopOK ==
    ASSUME IInv, NEW i \in Instances, DestroyStop(i)
    PROVE  IInv'
  <1> DEFINE h == Head(job[i].names)
  <1> DEFINE r == [job[i] EXCEPT !.pc = "remove"]
  <1>1. /\ job[i].pc = "stop" /\ job[i].names # <<>> /\ job' = [job EXCEPT ![i] = r]
        /\ running' = running \ {h}
        /\ UNCHANGED <<rows, config, vms, minted, deleted, ensured, disturbed>>
    BY DEF DestroyStop, Step, etcdNats, history
  <1>2. calls' \in 0..MaxCalls /\ failures' \in 0..MaxFailures
    BY Counters DEF DestroyStop
  <1>3. job[i] \in JobRecord /\ JobOK(i)
    BY DEF IInv, TypeOK, JobRecord, Entry
  <1>4. h[1] \in deleted
    BY <1>1, <1>3, NextName DEF JobOK, Shape, Tearing
  <1>5. /\ config \in [Routers -> {"none", "state", "empty"}]
        /\ vms \subseteq VMs /\ running \subseteq vms /\ disturbed \subseteq deleted
    BY DEF IInv, TypeOK
  <1>6. /\ r \in JobRecord /\ r.pc = "remove" /\ r.uuid = job[i].uuid /\ r.row = job[i].row
        /\ r.names = job[i].names /\ r.todo = job[i].todo
    BY <1>3 DEF JobRecord, Labels
  <1> HIDE DEF r, h
  <1>7. job'[i] = r
    BY <1>1, <1>6, JobUpdate
  <1>8. JobOK(i)'
    <2>1. Shape(i)'
      BY <1>1, <1>3, <1>6, <1>7 DEF JobOK, Shape, Tearing
    <2>2. HeldOK(i)'
      BY <1>1, <1>3, <1>6, <1>7, MembersEmpty
        DEF JobOK, Shape, HeldOK, Holding, InHand, Using, Members
    <2>3. FreshOK(i)' /\ EnsureOK(i)' /\ DestroyOK(i)'
      BY <1>1, <1>3, <1>6, <1>7 DEF JobOK, FreshOK, Fresh, EnsureOK, DestroyOK, vmsOf
    <2> QED BY <2>1, <2>2, <2>3 DEF JobOK
  <1>9. running' \subseteq vms' /\ \A vm \in running : vm[1] \notin deleted => vm \in running'
    BY <1>1, <1>4, <1>5
  <1> QED BY <1>1, <1>2, <1>5, <1>6, <1>8, <1>9, WeftStep DEF Fresh, TornBy, Tearing

LEMMA DestroyRemoveOK ==
    ASSUME IInv, NEW i \in Instances, DestroyRemove(i)
    PROVE  IInv'
  <1> DEFINE h == Head(job[i].names)  t == Tail(job[i].names)
  <1> DEFINE r == [job[i] EXCEPT !.pc = "stop", !.names = t]
  <1>1. job[i] \in JobRecord /\ JobOK(i)
    BY DEF IInv, TypeOK, JobRecord, Entry
  <1>2. /\ job[i].pc = "remove" /\ job' = [job EXCEPT ![i] = r]
        /\ vms' = vms \ {h} /\ running' = running \ {h}
        /\ UNCHANGED <<rows, config, minted, deleted, ensured, disturbed>>
    BY <1>1 DEF DestroyRemove, etcdNats, history
  <1>3. calls' \in 0..MaxCalls /\ failures' \in 0..MaxFailures
    BY Counters DEF DestroyRemove
  <1>4. job[i].names # <<>> /\ job[i].todo = <<>> /\ job[i].uuid \in deleted
    BY <1>1, <1>2 DEF JobOK, Shape, Tearing
  <1>5. /\ t \in Seq(VMs) /\ h[1] = job[i].uuid
        /\ Members(job[i].names) = {h} \union Members(t)
    BY <1>4, NextName
  <1>6. /\ config \in [Routers -> {"none", "state", "empty"}]
        /\ vms \subseteq VMs /\ running \subseteq vms /\ disturbed \subseteq deleted
    BY DEF IInv, TypeOK
  <1>7. /\ r \in JobRecord /\ r.pc = "stop" /\ r.uuid = job[i].uuid
        /\ r.names = t /\ r.todo = <<>>
    BY <1>1, <1>4, <1>5 DEF JobRecord, Labels
  <1> HIDE DEF r, h, t
  <1>8. job'[i] = r
    BY <1>2, <1>7, JobUpdate
  <1>9. JobOK(i)'
    <2>1. Shape(i)'
      <3>1. \A vm \in Members(t) : vm[1] = job[i].uuid
        BY <1>1, <1>5 DEF JobOK, Shape
      <3> QED BY <1>1, <1>2, <1>4, <1>7, <1>8, <3>1 DEF JobOK, Shape, Tearing, Members
    <2>2. HeldOK(i)'
      BY <1>7, <1>8, MembersEmpty DEF HeldOK, Holding, InHand, Using, Members
    <2>3. DestroyOK(i)'
      <3>1. DestroyOK(i) /\ Members(job[i].names)' = Members(t)
        BY <1>1, <1>7, <1>8 DEF JobOK, Members
      <3> QED BY <1>2, <1>5, <1>7, <1>8, <3>1 DEF DestroyOK, vmsOf
    <2>4. FreshOK(i)' /\ EnsureOK(i)'
      BY <1>7, <1>8 DEF FreshOK, Fresh, EnsureOK
    <2> QED BY <2>1, <2>2, <2>3, <2>4 DEF JobOK
  <1>10. /\ vms' \subseteq VMs /\ running' \subseteq vms' /\ vms' \subseteq vms
         /\ \A vm \in running : vm[1] \notin deleted => vm \in running'
    BY <1>2, <1>4, <1>5, <1>6
  <1> QED BY <1>2, <1>3, <1>6, <1>7, <1>9, <1>10, WeftStep DEF Fresh, TornBy, Tearing

(* A removal that stops halfway is on record. *)
LEMMA HalfwayOK ==
    ASSUME IInv, NEW i \in Instances, RemoveFails(i) \/ Crash(i)
    PROVE  IInv'
  <1>1. PICK pc \in {"boot", "idle"} : job' = [job EXCEPT ![i] = At(pc)]
    BY DEF RemoveFails, Crash, Return
  <1>2. At(pc) \in JobRecord /\ JobOK(i)' /\ At(pc).pc = pc
    <2>1. At(pc) \in JobRecord /\ JobOK(i)'
      BY <1>1, RestingOK
    <2> QED BY <2>1 DEF At
  <1>3. /\ calls' \in 0..MaxCalls /\ failures' \in 0..MaxFailures
        /\ UNCHANGED <<rows, config, vms, running, minted, deleted, ensured>>
    BY Counters DEF RemoveFails, Crash, etcdNats, weft
  <1>4. /\ config \in [Routers -> {"none", "state", "empty"}]
        /\ vms \subseteq VMs /\ running \subseteq vms /\ disturbed \subseteq deleted
    BY DEF IInv, TypeOK
  <1>5. job[i].pc \in Tearing => job[i].uuid \in deleted
    BY DEF IInv, JobOK, Shape
  <1>6. /\ disturbed \subseteq disturbed' /\ disturbed' \subseteq deleted
        /\ job[i].pc \in Tearing => job[i].uuid \in disturbed'
    BY <1>4, <1>5 DEF RemoveFails, Crash, Tearing
  <1> HIDE DEF At
  <1>7. At(pc).pc \notin Fresh
    BY <1>2 DEF Fresh
  <1>8. \A u \in deleted \ disturbed' : ~TornBy(i, u)
    BY <1>6 DEF TornBy
  <1> QED BY <1>1, <1>2, <1>3, <1>4, <1>6, <1>7, <1>8, WeftStep

-----------------------------------------------------------------------------
(* The router store *)

(* A fresh UUID is nobody else's. *)
LEMMA CallCreateRouterOK ==
    ASSUME IInv, NEW i \in Instances, CallCreateRouter(i)
    PROVE  IInv'
  <1>1. PICK u \in Routers \ minted, nm \in Names, c \in Classes, n \in 1..maxReplicas :
          /\ minted' = minted \union {u}
          /\ job' = [job EXCEPT ![i].pc = "scan", ![i].uuid = u,
                                ![i].row = [name |-> nm, class |-> c, replicas |-> n,
                                            status |-> "configuring"]]
    BY DEF CallCreateRouter
  <1> DEFINE row == [name |-> nm, class |-> c, replicas |-> n, status |-> "configuring"]
  <1> DEFINE r == [job[i] EXCEPT !.pc = "scan", !.uuid = u, !.row = row]
  <1>2. job' = [job EXCEPT ![i] = r]
    BY <1>1
  <1>3. /\ job[i].pc = "idle" /\ job[i] \in JobRecord /\ job[i].names = <<>>
        /\ job[i].todo = <<>>
    BY DEF CallCreateRouter, Arrive, IInv, TypeOK, JobRecord, Entry, JobOK, Shape
  <1>4. /\ calls' \in 0..MaxCalls /\ failures' \in 0..MaxFailures
        /\ UNCHANGED <<rows, config, vms, running, deleted, ensured, disturbed>>
    BY Counters DEF CallCreateRouter, Arrive, etcdNats, weft, history
  <1>5. row \in Row /\ row.class \in Classes
    BY ClassesAssumption DEF Row, Statuses
  <1> HIDE DEF row
  <1>6. /\ r \in JobRecord /\ r.pc = "scan" /\ r.uuid = u /\ r.row = row
        /\ r.names = <<>> /\ r.todo = <<>>
    BY <1>3, <1>5 DEF JobRecord, Labels
  <1> HIDE DEF r
  <1>7. /\ job' \in [Instances -> JobRecord] /\ job'[i] = r
        /\ \A j \in Instances \ {i} : job'[j] = job[j]
    BY <1>2, <1>6, JobUpdate
  <1>8. TypeOK'
    BY <1>1, <1>4, <1>7 DEF IInv, TypeOK, JobRecord, Entry
  <1>9. StoredOK'
    <2>1. IsFiniteSet(minted')
      BY <1>1, FS_AddElement DEF IInv, StoredOK
    <2> QED BY <1>1, <1>4, <2>1 DEF IInv, StoredOK
  <1>10. rows[u] = NoRouter /\ u \notin deleted
    BY DEF IInv, StoredOK, TypeOK
  <1>11. JobOK(i)'
    <2>1. Shape(i)'
      <3>1. u \in minted' /\ job'[i].pc = "scan" /\ job'[i].uuid = u
        BY <1>1, <1>6, <1>7
      <3>2. job'[i].names = <<>> /\ job'[i].todo = <<>> /\ Members(<<>>) = {}
        BY <1>6, <1>7, MembersEmpty
      <3> QED BY <3>1, <3>2 DEF Shape, Tearing
    <2>2. FreshOK(i)'
      BY <1>4, <1>5, <1>6, <1>7, <1>10 DEF FreshOK
    <2>3. HeldOK(i)' /\ EnsureOK(i)' /\ DestroyOK(i)'
      BY <1>6, <1>7, MembersEmpty DEF HeldOK, Holding, InHand, Using, EnsureOK, DestroyOK, Members
    <2> QED BY <2>1, <2>2, <2>3 DEF JobOK
  <1>12. Grows /\ KeepsRouters
    BY <1>1, <1>4 DEF Grows, KeepsRouters, Same
  <1>13. KeepsOthers(i)
    BY <1>4, <1>7 DEF KeepsOthers, IInv, JobOK, FreshOK
  <1>14. OwnWork(i)
    BY <1>3, <1>4, <1>6, <1>7 DEF OwnWork, TornBy, Tearing
  <1> QED BY <1>8, <1>9, <1>11, <1>12, <1>13, <1>14, StepPreserves

(* A row is written: a new one, or that of a router that is there or whose *)
(* removal overlapped.                                                     *)
LEMMA RowWritten ==
    ASSUME IInv, NEW i \in Instances, NEW u \in minted, NEW row \in Row,
           NEW r \in JobRecord, job' = [job EXCEPT ![i] = r],
           rows' = [rows EXCEPT ![u] = row],
           calls' \in 0..MaxCalls, failures' \in 0..MaxFailures,
           UNCHANGED <<config, vms, running, minted, deleted, ensured, disturbed>>,
           job[i].pc \notin Tearing, r.pc \notin Fresh, JobOK(i)',
           u \in deleted => u \in disturbed,
           (rows[u] # NoRouter /\ u \notin deleted) => Same(rows[u], row),
           \A j \in Instances \ {i} : job[j].pc \in Fresh => job[j].uuid # u
    PROVE  IInv'
  <1>1. /\ job' \in [Instances -> JobRecord] /\ job'[i] = r
        /\ \A j \in Instances \ {i} : job'[j] = job[j]
    BY JobUpdate
  <1>2. u \in Routers /\ rows \in [Routers -> Row \union {NoRouter}] /\ row # NoRouter
    BY NoRouterAssumption DEF IInv, TypeOK
  <1>3. TypeOK'
    BY <1>1, <1>2 DEF IInv, TypeOK, JobRecord, Entry
  <1>4. rows'[u] = row /\ \A v \in Routers \ {u} : rows'[v] = rows[v]
    BY <1>2
  <1>5. StoredOK'
    <2>1. deleted \subseteq Routers
      BY DEF IInv, TypeOK
    <2> QED BY <1>4, <2>1 DEF IInv, StoredOK
  <1>6. Grows /\ KeepsRouters
    <2>1. \A v \in Routers \ deleted :
            rows[v] # NoRouter => rows'[v] # NoRouter /\ Same(rows[v], rows'[v])
      BY <1>2, <1>4 DEF Same
    <2> QED BY <2>1 DEF Grows, KeepsRouters
  <1>7. KeepsOthers(i)
    <2>1. \A j \in Instances \ {i} : job[j].pc \in Fresh =>
            /\ job[j].uuid \in Routers /\ rows[job[j].uuid] = NoRouter
            /\ job[j].uuid \notin deleted
      BY DEF IInv, JobOK, FreshOK, Shape, TypeOK, Fresh
    <2> QED BY <1>1, <1>4, <2>1 DEF KeepsOthers
  <1>8. OwnWork(i)
    BY <1>1 DEF OwnWork, TornBy
  <1> QED BY <1>3, <1>5, <1>6, <1>7, <1>8, StepPreserves

(* Only its own instance creates a router. *)
LEMMA CreatorAlone ==
    ASSUME IInv, NEW i \in Instances, job[i].pc = "put"
    PROVE  /\ job[i].uuid \in minted /\ job[i].row \in Row /\ job[i].uuid \notin deleted
           /\ rows[job[i].uuid] = NoRouter /\ job[i].todo = <<>> /\ job[i].names = <<>>
           /\ \A j \in Instances \ {i} : job[j].pc \in Fresh => job[j].uuid # job[i].uuid
  <1>1. job[i].uuid \in minted /\ job[i].todo = <<>> /\ job[i].names = <<>>
    BY DEF IInv, JobOK, Shape
  <1>2. job[i].row \in Row /\ job[i].uuid \notin deleted /\ rows[job[i].uuid] = NoRouter
    BY DEF IInv, JobOK, FreshOK, Fresh
  <1>3. \A j \in Instances \ {i} : job[j].pc \in Fresh => job[j].uuid # job[i].uuid
    BY DEF IInv, FreshApart, Fresh
  <1> QED BY <1>1, <1>2, <1>3

(* Nobody creates a router whose status is being written. *)
LEMMA WriterIsNoCreator ==
    ASSUME IInv, NEW i \in Instances, job[i].pc \in Using
    PROVE  \A j \in Instances \ {i} : job[j].pc \in Fresh => job[j].uuid # job[i].uuid
  BY InUse DEF IInv, JobOK, FreshOK

LEMMA CreatePutOK ==
    ASSUME IInv, NEW i \in Instances, CreatePut(i)
    PROVE  IInv'
  <1> DEFINE r == [job[i] EXCEPT !.pc = "publish"]
  <1>0. PICK u, row : u = job[i].uuid /\ row = job[i].row
    OBVIOUS
  <1>1. /\ job[i].pc = "put" /\ rows' = [rows EXCEPT ![u] = row]
        /\ job' = [job EXCEPT ![i] = r]
        /\ UNCHANGED <<config, vms, running, minted, deleted, ensured, disturbed>>
    BY <1>0 DEF CreatePut, Step, weft, history
  <1>2. calls' \in 0..MaxCalls /\ failures' \in 0..MaxFailures
    BY Counters DEF CreatePut
  <1>3. /\ u \in minted /\ row \in Row /\ u \notin deleted /\ rows[u] = NoRouter
        /\ job[i].todo = <<>> /\ job[i].names = <<>>
        /\ \A j \in Instances \ {i} : job[j].pc \in Fresh => job[j].uuid # u
    BY <1>0, <1>1, CreatorAlone
  <1>4. /\ job[i] \in JobRecord /\ u \in Routers /\ row # NoRouter
        /\ rows \in [Routers -> Row \union {NoRouter}]
    BY <1>3, NoRouterAssumption DEF IInv, TypeOK, JobRecord, Entry
  <1>5. /\ r \in JobRecord /\ r.pc = "publish" /\ r.uuid = u /\ r.row = row
        /\ r.names = <<>> /\ r.todo = <<>>
    BY <1>0, <1>3, <1>4 DEF JobRecord, Labels
  <1> HIDE DEF r
  <1>6. job'[i] = r
    BY <1>1, <1>5, JobUpdate
  <1>7. JobOK(i)'
    <2>1. Shape(i)'
      BY <1>1, <1>3, <1>5, <1>6, MembersEmpty DEF Shape, Tearing, Members
    <2>2. HeldOK(i)'
      <3>1. Holding(i)' = {[uuid |-> u, row |-> row]}
        BY <1>5, <1>6, MembersEmpty DEF Holding, InHand, Using, Members
      <3>2. rows'[u] = row
        BY <1>1, <1>4
      <3> QED BY <1>1, <1>3, <1>4, <3>1, <3>2 DEF HeldOK, Same
    <2>3. FreshOK(i)' /\ EnsureOK(i)' /\ DestroyOK(i)'
      BY <1>5, <1>6 DEF FreshOK, Fresh, EnsureOK, DestroyOK
    <2> QED BY <2>1, <2>2, <2>3 DEF JobOK
  <1> QED BY <1>1, <1>2, <1>3, <1>5, <1>7, RowWritten DEF Fresh, Tearing

LEMMA PutAndReturnOK ==
    ASSUME IInv, NEW i \in Instances, StatusPut(i) \/ PutReplyLost(i)
    PROVE  IInv'
  <1>0. PICK u, row : u = job[i].uuid /\ row = job[i].row
    OBVIOUS
  <1>1. /\ rows' = [rows EXCEPT ![u] = row] /\ Return(i)
        /\ UNCHANGED <<config, vms, running, minted, deleted, ensured, disturbed>>
        /\ job[i].pc \in {"put", "statusPut"}
    BY <1>0 DEF StatusPut, PutReplyLost, weft, history
  <1>2. calls' \in 0..MaxCalls /\ failures' \in 0..MaxFailures
    BY Counters DEF StatusPut, PutReplyLost
  <1>3. /\ At("idle") \in JobRecord /\ JobOK(i)' /\ job' = [job EXCEPT ![i] = At("idle")]
        /\ At("idle").pc \notin Fresh
    <2>1. job' = [job EXCEPT ![i] = At("idle")]
      BY <1>1 DEF Return
    <2>2. At("idle").pc \notin Fresh
      BY DEF At, Fresh
    <2> QED BY <2>1, <2>2, RestingOK
  <1> HIDE DEF At
  <1>4. /\ u \in minted /\ row \in Row
        /\ u \in deleted => u \in disturbed
        /\ (rows[u] # NoRouter /\ u \notin deleted) => Same(rows[u], row)
        /\ \A j \in Instances \ {i} : job[j].pc \in Fresh => job[j].uuid # u
    <2>1. CASE job[i].pc = "put"
      BY <1>0, <2>1, CreatorAlone
    <2>2. CASE job[i].pc = "statusPut"
      <3>1. job[i].pc \in Using
        BY <2>2 DEF Using
      <3> QED BY <1>0, <3>1, InUse, WriterIsNoCreator DEF Same
    <2> QED BY <1>1, <2>1, <2>2
  <1> QED BY <1>1, <1>2, <1>3, <1>4, RowWritten DEF Tearing

(* The key is removed.  Whoever holds the row is on record, or the removal *)
(* is.                                                                     *)
LEMMA DeleteOK ==
    ASSUME IInv, NEW i \in Instances, StoreDelete(i) \/ DeleteReplyLost(i)
    PROVE  IInv'
  <1>0. PICK u : u = job[i].uuid
    OBVIOUS
  <1>1. /\ job[i].pc = "delete" /\ rows[u] # NoRouter
        /\ rows' = [rows EXCEPT ![u] = NoRouter] /\ deleted' = deleted \union {u}
        /\ UNCHANGED <<config, vms, running, minted, calls, ensured>>
    BY <1>0 DEF StoreDelete, DeleteReplyLost, DeleteRow, weft
  <1>2. calls' \in 0..MaxCalls /\ failures' \in 0..MaxFailures
    BY <1>1, Counters DEF StoreDelete, DeleteReplyLost
  <1>3. /\ job[i] \in JobRecord /\ JobOK(i) /\ u \in minted /\ u \in Routers
        /\ job[i].names = <<>> /\ job[i].todo = <<>>
    BY <1>0, <1>1 DEF IInv, TypeOK, JobRecord, Entry, JobOK, Shape
  <1>4. /\ disturbed \subseteq disturbed' /\ disturbed' \subseteq disturbed \union {u}
        /\ Overlapped(i, u) => u \in disturbed'
    BY <1>0 DEF StoreDelete, DeleteReplyLost
  <1>5. /\ rows \in [Routers -> Row \union {NoRouter}] /\ deleted \subseteq minted
        /\ minted \subseteq Routers /\ disturbed \subseteq deleted
    BY DEF IInv, TypeOK
  <1>6. rows'[u] = NoRouter /\ \A v \in Routers \ {u} : rows'[v] = rows[v]
    BY <1>1, <1>3, <1>5
  <1>7. \E r \in JobRecord : /\ job' = [job EXCEPT ![i] = r] /\ JobOK(i)' /\ r.pc \notin Fresh
                             /\ u \in disturbed' \/ (r.uuid = u /\ r.pc \in Tearing)
    <2>1. CASE StoreDelete(i)
      <3> DEFINE r == [job[i] EXCEPT !.pc = "withdraw"]
      <3>1. job' = [job EXCEPT ![i] = r]
        BY <2>1 DEF StoreDelete, Step
      <3>2. /\ r \in JobRecord /\ r.pc = "withdraw" /\ r.uuid = u /\ r.names = <<>>
            /\ r.todo = <<>>
        BY <1>0, <1>3 DEF JobRecord, Labels
      <3> HIDE DEF r
      <3>3. job'[i] = r
        BY <3>1, <3>2, JobUpdate
      <3>4. Shape(i)'
        BY <1>1, <1>3, <3>2, <3>3, MembersEmpty DEF Shape, Members
      <3>5. FreshOK(i)' /\ HeldOK(i)' /\ EnsureOK(i)' /\ DestroyOK(i)'
        BY <3>2, <3>3, MembersEmpty
          DEF FreshOK, Fresh, HeldOK, Holding, InHand, Using, EnsureOK, DestroyOK, Members
      <3> QED BY <3>1, <3>2, <3>4, <3>5 DEF JobOK, Fresh, Tearing
    <2>2. CASE DeleteReplyLost(i)
      <3>1. job' = [job EXCEPT ![i] = At("idle")] /\ u \in disturbed'
        BY <1>0, <2>2 DEF DeleteReplyLost, Return
      <3>2. At("idle") \in JobRecord /\ JobOK(i)'
        BY <3>1, RestingOK
      <3>3. At("idle").pc \notin Fresh
        BY DEF At, Fresh
      <3> HIDE DEF At
      <3> QED BY <3>1, <3>2, <3>3
    <2> QED BY <2>1, <2>2
  <1>8. PICK r \in JobRecord : /\ job' = [job EXCEPT ![i] = r] /\ JobOK(i)' /\ r.pc \notin Fresh
                               /\ u \in disturbed' \/ (r.uuid = u /\ r.pc \in Tearing)
    BY <1>7
  <1>9. /\ job' \in [Instances -> JobRecord] /\ job'[i] = r
        /\ \A j \in Instances \ {i} : job'[j] = job[j]
    BY <1>8, JobUpdate
  <1>10. TypeOK'
    BY <1>1, <1>2, <1>3, <1>4, <1>9 DEF IInv, TypeOK, JobRecord, Entry
  <1>11. StoredOK'
    BY <1>1, <1>3, <1>4, <1>5, <1>6 DEF IInv, StoredOK
  <1>12. Grows /\ KeepsRouters
    <2>1. \A v \in Routers \ deleted' :
            rows[v] # NoRouter => rows'[v] # NoRouter /\ Same(rows[v], rows'[v])
      BY <1>1, <1>6 DEF Same
    <2> QED BY <1>1, <1>4, <2>1 DEF Grows, KeepsRouters
  <1>13. KeepsOthers(i)
    <2> SUFFICES ASSUME NEW j \in Instances \ {i}
                 PROVE  /\ job[j].pc \in Fresh => /\ rows'[job[j].uuid] = NoRouter
                                                  /\ job[j].uuid \notin deleted'
                        /\ \A e \in Holding(j) : e.uuid = u => u \in disturbed'
      BY <1>1, <1>9 DEF KeepsOthers
    <2>1. JobOK(j) /\ job[j].todo \in Seq(Entry)
      BY DEF IInv, TypeOK, Entry
    <2>2. ASSUME job[j].pc \in Fresh
          PROVE  rows'[job[j].uuid] = NoRouter /\ job[j].uuid \notin deleted'
      <3>1. /\ rows[job[j].uuid] = NoRouter /\ job[j].uuid \notin deleted
            /\ job[j].uuid \in minted
        BY <2>1, <2>2 DEF JobOK, FreshOK, Shape, Fresh
      <3> QED BY <3>1, <1>1, <1>5, <1>6
    <2>3. ASSUME NEW e \in Holding(j), e.uuid = u PROVE Overlapped(i, u)
      <3>1. CASE e \in Members(job[j].todo)
        BY <2>3, <3>1 DEF Members, Overlapped
      <3>2. CASE e \in InHand(j)
        <4>1. job[j].uuid = u /\ job[j].pc \in Using
          BY <2>3, <3>2 DEF InHand
        <4> QED BY <4>1 DEF Overlapped, Using
      <3> QED BY <3>1, <3>2, <2>3 DEF Holding
    <2> QED BY <2>2, <2>3, <1>4
  <1>14. OwnWork(i)
    <2>1. \A v : ~TornBy(i, v)
      BY <1>1 DEF TornBy, Tearing
    <2> QED BY <1>1, <1>8, <1>9, <2>1 DEF OwnWork, TornBy
  <1> QED BY <1>8, <1>10, <1>11, <1>12, <1>13, <1>14, StepPreserves

-----------------------------------------------------------------------------
(* The invariant *)

LEMMA IInvInit == Init => IInv
  <1> SUFFICES ASSUME Init PROVE IInv
    OBVIOUS
  <1>1. \A i \in Instances : /\ job[i] = At("boot") /\ job[i].pc = "boot"
                             /\ job[i].names = <<>> /\ job[i].todo = <<>>
    BY DEF Init, At
  <1>2. At("boot") \in JobRecord
    BY DEF At, JobRecord, Labels, Statuses
  <1>3. TypeOK
    <2>1. job \in [Instances -> JobRecord]
      BY <1>2 DEF Init
    <2>2. rows \in [Routers -> Row \union {NoRouter}]
      BY DEF Init
    <2>3. config \in [Routers -> {"none", "state", "empty"}]
      BY DEF Init
    <2>4. calls \in 0..MaxCalls /\ failures \in 0..MaxFailures
      BY BoundsAssumption DEF Init
    <2> QED BY <2>1, <2>2, <2>3, <2>4 DEF Init, TypeOK, JobRecord, Entry
  <1>4. StoredOK
    BY FS_EmptySet DEF Init, StoredOK
  <1>5. FreshApart
    BY <1>1 DEF FreshApart, Fresh
  <1>6. ASSUME NEW i \in Instances PROVE JobOK(i)
    <2>1. Members(job[i].names) = {} /\ Holding(i) = {}
      BY <1>1, MembersEmpty DEF Holding, InHand, Using
    <2>2. Shape(i)
      BY <1>1, <2>1 DEF Shape, Tearing
    <2>3. FreshOK(i) /\ HeldOK(i) /\ EnsureOK(i) /\ DestroyOK(i)
      BY <1>1, <2>1 DEF FreshOK, Fresh, HeldOK, EnsureOK, DestroyOK
    <2> QED BY <2>2, <2>3 DEF JobOK
  <1>7. EnsuredRuns /\ LeaksAreExplained
    BY DEF Init, EnsuredRuns, LeaksAreExplained
  <1> QED BY <1>3, <1>4, <1>5, <1>6, <1>7 DEF IInv

(* A stuttering step changes nothing the invariant reads. *)
LEMMA IInvStutter ==
    ASSUME IInv, UNCHANGED vars
    PROVE  IInv'
  <1>1. TypeOK' /\ StoredOK' /\ FreshApart'
    BY DEF vars, IInv, TypeOK, StoredOK, FreshApart
  <1>2. ASSUME NEW i \in Instances PROVE JobOK(i)'
    <2>1. Shape(i)' /\ FreshOK(i)' /\ EnsureOK(i)' /\ DestroyOK(i)'
      BY DEF vars, IInv, JobOK, Shape, FreshOK, EnsureOK, DestroyOK, vmsOf
    <2>2. HeldOK(i)'
      BY DEF vars, IInv, JobOK, HeldOK, Holding, InHand
    <2> QED BY <2>1, <2>2 DEF JobOK
  <1>3. EnsuredRuns' /\ LeaksAreExplained'
    BY DEF vars, IInv, EnsuredRuns, allRunning, LeaksAreExplained, TearingDown, vmsOf
  <1> QED BY <1>1, <1>2, <1>3 DEF IInv

LEMMA IInvStep == IInv /\ [Next]_vars => IInv'
  <1> SUFFICES ASSUME IInv, [Next]_vars PROVE IInv'
    OBVIOUS
  <1>1. CASE UNCHANGED vars
    BY <1>1, IInvStutter
  <1>2. ASSUME NEW i \in Instances, Calls(i) PROVE IInv'
    BY <1>2, CallCreateRouterOK, CallDeleteRouterOK, StatusArrivesOK, FIPChangedOK DEF Calls
  <1>3. ASSUME NEW i \in Instances, Store(i) PROVE IInv'
    BY <1>3, CreateScanOK, CreatePutOK, DeleteOK, NotFoundOK, StatusGetOK, PutAndReturnOK
      DEF Store
  <1>4. ASSUME NEW i \in Instances, Lifecycle(i) PROVE IInv'
    BY <1>4, EnsureRegisterOK, EnsureStartOK, EnsureGivesUpOK, EnsureDoneOK, DestroyStopOK,
       DestroyRemoveOK, DestroyDoneOK DEF Lifecycle
  <1>5. ASSUME NEW i \in Instances, Proceed(i) PROVE IInv'
    BY <1>3, <1>4, <1>5, PublishOK, WithdrawOK, ListOK, ResyncNextOK, CallbackPublishOK
      DEF Proceed
  <1>6. ASSUME NEW i \in Instances, Failure(i) PROVE IInv'
    BY <1>6, NotFoundOK, PutAndReturnOK, DeleteOK, PublishOK, CallbackPublishOK, WithdrawOK,
       EnsureGivesUpOK, StopFailsOK, HalfwayOK DEF Failure
  <1> QED BY <1>1, <1>2, <1>5, <1>6 DEF Next

LEMMA IInvAlways == Spec => []IInv
  BY IInvInit, IInvStep, PTL DEF Spec

(* The stores and the instances keep their types: in particular weft never *)
(* runs a micro-VM that is not in its inventory, and no key is created     *)
(* outside the minted UUIDs.                                               *)
THEOREM TypeCorrect == Spec => []TypeOK
  <1>1. IInv => TypeOK
    BY DEF IInv
  <1> QED BY IInvAlways, <1>1, PTL

(* DeleteRouter (server/router.go) leaves neither a micro-VM nor a desired *)
(* state behind, for every replica cap and however many routers, processes *)
(* and failures, unless it overlapped a call or a floating-IP callback     *)
(* (main.go) that held the row, or did not run to its end.                 *)
THEOREM LeaksExplained == Spec => []LeaksAreExplained
  <1>1. IInv => LeaksAreExplained
    BY DEF IInv
  <1> QED BY IInvAlways, <1>1, PTL

(* A router that is not deleted and for which an Ensure (weftclient.go)    *)
(* returned without an error has all its micro-VMs running.                *)
THEOREM EnsuredKeepsRunning == Spec => []EnsuredRuns
  <1>1. IInv => EnsuredRuns
    BY DEF IInv
  <1> QED BY IInvAlways, <1>1, PTL

-----------------------------------------------------------------------------
(* The memory store's contract.  The two maps are read off rows, so what   *)
(* matters is which routers have which name.                               *)

(* The router a set of routers with one name stands for. *)
Sole(S) == IF S = {} THEN NoRouter ELSE CHOOSE u \in S : TRUE

LEMMA OwnerIsSole ==
    ASSUME NEW n
    PROVE  /\ ownerOf(n) = Sole(namedRouters(n))
           /\ ownerOf(n)' = Sole(namedRouters(n)')
           /\ \A u : Sole({u}) = u
           /\ Sole({}) = NoRouter
  BY DEF ownerOf, Sole

(* A put of a new key, under a name nobody has or is about to have. *)
LEMMA CreateRefines ==
    ASSUME IInv, NEW i \in Instances, job[i].pc = "put", ~NamesClash,
           rows' = [rows EXCEPT ![job[i].uuid] = job[i].row], UNCHANGED deleted
    PROVE  Table!Next
  <1>0. PICK u, row : u = job[i].uuid /\ row = job[i].row
    OBVIOUS
  <1>1. /\ u \in Routers /\ u \notin deleted /\ rows[u] = NoRouter
        /\ row \in Row /\ row.class \in Classes /\ row # NoRouter
        /\ rows \in [Routers -> Row \union {NoRouter}]
    BY <1>0, CreatorAlone, NoRouterAssumption DEF IInv, TypeOK, JobOK, FreshOK, Fresh
  <1> DEFINE n == row.name
  <1> DEFINE v == [name |-> row.name, kept |-> <<row.class, row.replicas>>, value |-> row.status]
  <1>2. n \in Names /\ row.replicas \in 1..maxReplicas /\ row.status \in Statuses
    BY <1>1 DEF Row
  <1>3. v \in Table!Row
    BY <1>1, <1>2 DEF Table!Row
  <1>4. rows'[u] = row /\ \A t \in Routers \ {u} : rows'[t] = rows[t]
    BY <1>0, <1>1
  <1>5. namedRouters(n) = {}
    <2>1. Claims(u, n)
      BY <1>0 DEF Claims
    <2>2. \A t \in namedRouters(n) : t \in Routers /\ t # u /\ Claims(t, n)
      BY <1>1 DEF namedRouters, Claims
    <2> QED BY <1>1, <1>2, <2>1, <2>2 DEF NamesClash
  <1>6. namedRouters(n)' = {u} /\ \A m \in Names \ {n} : namedRouters(m)' = namedRouters(m)
    <2>1. \A m : namedRouters(m)' = {t \in Routers : rows'[t] # NoRouter /\ rows'[t].name = m}
      BY DEF namedRouters
    <2> QED BY <1>1, <1>4, <1>5, <2>1 DEF namedRouters
  <1>7. rowOf(u) = NoRouter /\ rowOf(u)' = v /\ \A t \in Routers \ {u} : rowOf(t)' = rowOf(t)
    BY <1>1, <1>4 DEF rowOf
  <1> HIDE DEF v, n
  <1>8. v.name = n
    BY DEF v, n
  <1>9. Table!Create(u, v)
    <2>1. [t \in Routers |-> rowOf(t)]' = [[t \in Routers |-> rowOf(t)] EXCEPT ![u] = v]
      BY <1>1, <1>7
    <2>2. [m \in Names |-> ownerOf(m)]' = [[m \in Names |-> ownerOf(m)] EXCEPT ![n] = u]
      <3>1. \A m \in Names : ownerOf(m)' = IF m = n THEN u ELSE ownerOf(m)
        BY <1>6, OwnerIsSole
      <3> QED BY <1>2, <3>1 DEF n
    <2>3. ownerOf(n) = NoRouter
      BY <1>5, OwnerIsSole
    <2> QED BY <1>1, <1>2, <1>5, <1>7, <1>8, <2>1, <2>2, <2>3 DEF Table!Create, n
  <1> QED BY <1>1, <1>3, <1>9 DEF Table!Next

(* A stored row reads as a row of the map. *)
LEMMA RowOfPresent ==
    ASSUME NEW u, rows[u] \in Row
    PROVE  rowOf(u) # NoRouter
  <1>1. rows[u] # NoRouter
    BY NoRouterAssumption
  <1>2. rowOf(u) \in [name : Names, kept : {"bgp", "mute", "peer"} \X (1..maxReplicas),
                      value : Statuses]
    BY <1>1 DEF rowOf, Row
  <1> QED BY <1>2, NoRouterAssumption

(* A removal, under a name no other router has. *)
LEMMA DeleteRefines ==
    ASSUME IInv, NEW i \in Instances, ~NamesClash, DeleteRow(i), job[i].pc = "delete"
    PROVE  Table!Next
  <1>0. PICK u : u = job[i].uuid
    OBVIOUS
  <1>1. /\ rows[u] # NoRouter /\ rows' = [rows EXCEPT ![u] = NoRouter]
        /\ deleted' = deleted \union {u}
    BY <1>0 DEF DeleteRow
  <1>2. u \in Routers /\ rows \in [Routers -> Row \union {NoRouter}]
    BY <1>0 DEF IInv, TypeOK, JobOK, Shape
  <1>3. rows[u] \in Row /\ rows[u].name \in Names
    BY <1>1, <1>2 DEF Row
  <1>4. PICK n \in Names : n = rows[u].name
    BY <1>3
  <1>5. rows'[u] = NoRouter /\ \A t \in Routers \ {u} : rows'[t] = rows[t]
    BY <1>1, <1>2
  <1>6. namedRouters(n) = {u}
    <2>1. \A t \in Routers : (rows[t] # NoRouter /\ rows[t].name = n) => t = u
      BY <1>1, <1>2, <1>4 DEF NamesClash, Claims
    <2> QED BY <1>1, <1>2, <1>4, <2>1 DEF namedRouters
  <1>7. namedRouters(n)' = {} /\ \A m \in Names \ {n} : namedRouters(m)' = namedRouters(m)
    <2>1. \A m : namedRouters(m)' = {t \in Routers : rows'[t] # NoRouter /\ rows'[t].name = m}
      BY DEF namedRouters
    <2>2. \A t \in namedRouters(n) : rows'[t] = NoRouter
      BY <1>5, <1>6
    <2>3. namedRouters(n)' = {}
      BY <1>5, <2>1, <2>2 DEF namedRouters
    <2>4. ASSUME NEW m \in Names \ {n} PROVE namedRouters(m)' = namedRouters(m)
      <3>1. \A t \in Routers : (rows'[t] # NoRouter /\ rows'[t].name = m)
                                 <=> (rows[t] # NoRouter /\ rows[t].name = m)
        BY <1>4, <1>5
      <3> QED BY <2>1, <3>1 DEF namedRouters
    <2> QED BY <2>3, <2>4
  <1>8. /\ rowOf(u)' = NoRouter /\ \A t \in Routers \ {u} : rowOf(t)' = rowOf(t)
        /\ rowOf(u).name = n /\ rowOf(u) # NoRouter
    <2>1. rowOf(u)' = NoRouter /\ \A t \in Routers \ {u} : rowOf(t)' = rowOf(t)
      BY <1>5 DEF rowOf
    <2>2. rowOf(u) = [name |-> rows[u].name, kept |-> <<rows[u].class, rows[u].replicas>>,
                      value |-> rows[u].status]
      BY <1>1 DEF rowOf
    <2>3. rowOf(u).name = n
      BY <1>4, <2>2
    <2>4. rowOf(u) # NoRouter
      BY <1>3, <2>2, RowOfPresent
    <2> QED BY <2>1, <2>3, <2>4
  <1>9. Table!Delete(u)
    <2>1. [t \in Routers |-> rowOf(t)]' = [[t \in Routers |-> rowOf(t)] EXCEPT ![u] = NoRouter]
      <3>1. \A t \in Routers : rowOf(t)' = IF t = u THEN NoRouter ELSE rowOf(t)
        BY <1>8
      <3> QED BY <1>2, <3>1
    <2>2. [m \in Names |-> ownerOf(m)]'
            = [[m \in Names |-> ownerOf(m)] EXCEPT ![n] = NoRouter]
      <3>1. \A m \in Names : ownerOf(m)' = IF m = n THEN NoRouter ELSE ownerOf(m)
        BY <1>7, OwnerIsSole
      <3> QED BY <3>1
    <2> QED BY <1>1, <1>2, <1>8, <2>1, <2>2 DEF Table!Delete
  <1> QED BY <1>2, <1>9 DEF Table!Next

(* A status write to a router that is there changes its status alone. *)
LEMMA UpdateRefines ==
    ASSUME IInv, NEW i \in Instances, job[i].pc = "statusPut", ~PutsBackDeleted,
           rows' = [rows EXCEPT ![job[i].uuid] = job[i].row], UNCHANGED deleted
    PROVE  Table!Next
  <1>0. PICK u, row : u = job[i].uuid /\ row = job[i].row
    OBVIOUS
  <1>1. /\ u \in Routers /\ row \in Row /\ rows[u] # NoRouter /\ Same(row, rows[u])
        /\ row # NoRouter
    <2>1. u \notin deleted
      BY <1>0 DEF PutsBackDeleted
    <2> QED BY <1>0, <2>1, InUse, NoRouterAssumption DEF Using
  <1>2. rows \in [Routers -> Row \union {NoRouter}]
    BY DEF IInv, TypeOK
  <1>3. rows[u] \in Row /\ row.status \in Statuses
    BY <1>1, <1>2 DEF Row
  <1>4. rows'[u] = row /\ \A t \in Routers \ {u} : rows'[t] = rows[t]
    BY <1>0, <1>1, <1>2
  <1>5. ASSUME NEW m \in Names PROVE ownerOf(m)' = ownerOf(m)
    <2>1. namedRouters(m)' = {t \in Routers : rows'[t] # NoRouter /\ rows'[t].name = m}
      BY DEF namedRouters
    <2>2. \A t \in Routers : (rows'[t] # NoRouter /\ rows'[t].name = m)
                               <=> (rows[t] # NoRouter /\ rows[t].name = m)
      BY <1>1, <1>4 DEF Same
    <2>3. namedRouters(m)' = namedRouters(m)
      BY <2>1, <2>2 DEF namedRouters
    <2> QED BY <2>3, OwnerIsSole
  <1>6. rowOf(u)' = [rowOf(u) EXCEPT !.value = row.status]
    <2>1. rowOf(u)' = [name |-> row.name, kept |-> <<row.class, row.replicas>>,
                       value |-> row.status]
      BY <1>1, <1>4 DEF rowOf
    <2>2. rowOf(u) = [name |-> rows[u].name, kept |-> <<rows[u].class, rows[u].replicas>>,
                      value |-> rows[u].status]
      BY <1>1 DEF rowOf
    <2> QED BY <1>1, <2>1, <2>2 DEF Same
  <1>7. rowOf(u) # NoRouter /\ \A t \in Routers \ {u} : rowOf(t)' = rowOf(t)
    <2>1. \A t \in Routers \ {u} : rowOf(t)' = rowOf(t)
      BY <1>4 DEF rowOf
    <2> QED BY <1>1, <1>3, <2>1, RowOfPresent
  <1>8. Table!Update(u, row.status)
    <2>1. [t \in Routers |-> rowOf(t)]'
            = [[t \in Routers |-> rowOf(t)] EXCEPT ![u].value = row.status]
      BY <1>1, <1>6, <1>7
    <2>2. [m \in Names |-> ownerOf(m)]' = [m \in Names |-> ownerOf(m)]
      BY <1>5
    <2> QED BY <1>1, <1>7, <2>1, <2>2 DEF Table!Update
  <1> QED BY <1>1, <1>3, <1>8 DEF Table!Next

(* The etcd router store honours the memory store's contract, whatever     *)
(* fails, crashes or overlaps: every change of the prefix is one Create,   *)
(* one Delete or one UpdateStatus of the two maps, unless an UpdateStatus  *)
(* puts a deleted row back or two routers are after one name.              *)
THEOREM StoreImplementsTable == Spec => ImplementsTable
  <1>1. Init => Table!Init
    <2> SUFFICES ASSUME Init PROVE Table!Init
      OBVIOUS
    <2>1. \A u \in Routers : rows[u] = NoRouter /\ rowOf(u) = NoRouter
      BY DEF Init, rowOf
    <2>2. \A n \in Names : ownerOf(n) = NoRouter
      BY <2>1 DEF ownerOf, namedRouters
    <2> QED BY <2>1, <2>2 DEF Init, Table!Init
  <1>2. IInv /\ [Next]_vars =>
          [PutsBackDeleted \/ NamesClash \/ Table!Next \/ UNCHANGED rows]_vars
    <2> SUFFICES ASSUME IInv, NEW i \in Instances, Calls(i) \/ Proceed(i) \/ Failure(i),
                        ~PutsBackDeleted, ~NamesClash, rows' # rows
                 PROVE  Table!Next
      BY DEF Next
    <2>1. ASSUME Calls(i) PROVE Table!Next
      BY <2>1 DEF Calls, CallCreateRouter, CallDeleteRouter, StatusArrives, FIPChanged,
                  Arrive, etcdNats
    <2>2. ASSUME Store(i) PROVE Table!Next
      <3>1. ASSUME CreateScan(i) \/ NotFound(i) \/ StatusGet(i) PROVE Table!Next
        BY <3>1 DEF CreateScan, NotFound, StatusGet, etcdNats
      <3>2. ASSUME CreatePut(i) PROVE Table!Next
        BY <3>2, CreateRefines DEF CreatePut, history
      <3>3. ASSUME StoreDelete(i) PROVE Table!Next
        BY <3>3, DeleteRefines DEF StoreDelete
      <3>4. ASSUME StatusPut(i) PROVE Table!Next
        BY <3>4, UpdateRefines DEF StatusPut, history
      <3> QED BY <2>2, <3>1, <3>2, <3>3, <3>4 DEF Store
    <2>3. ASSUME Proceed(i) PROVE Table!Next
      <3>1. ASSUME \/ Publish(i) \/ Withdraw(i) \/ ResyncList(i) \/ ResyncNext(i)
                   \/ CallbackList(i) \/ CallbackPublish(i)
            PROVE  Table!Next
        BY <3>1 DEF Publish, Withdraw, ResyncList, ResyncNext, CallbackList, CallbackPublish,
                    etcdNats
      <3>2. ASSUME Lifecycle(i) PROVE Table!Next
        BY <3>2 DEF Lifecycle, EnsureRegister, EnsureStart, EnsureGone, EnsureDone,
                    DestroyStop, DestroyRemove, DestroyDone, etcdNats
      <3> QED BY <2>2, <2>3, <3>1, <3>2 DEF Proceed
    <2>4. ASSUME Failure(i) PROVE Table!Next
      <3>1. ASSUME PutReplyLost(i) PROVE Table!Next
        BY <3>1, CreateRefines, UpdateRefines DEF PutReplyLost, history
      <3>2. ASSUME DeleteReplyLost(i) PROVE Table!Next
        BY <3>2, DeleteRefines DEF DeleteReplyLost
      <3>3. ASSUME \/ EtcdFails(i) \/ PublishFails(i) \/ CallbackPublishFails(i)
                   \/ WithdrawFails(i) \/ EnsureFails(i) \/ StopFails(i) \/ RemoveFails(i)
                   \/ Crash(i)
            PROVE  Table!Next
        BY <3>3 DEF EtcdFails, PublishFails, CallbackPublishFails, WithdrawFails, EnsureFails, StopFails,
                    RemoveFails, Crash, etcdNats
      <3> QED BY <2>4, <3>1, <3>2, <3>3 DEF Failure
    <2> QED BY <2>1, <2>3, <2>4
  <1> QED BY IInvAlways, <1>1, <1>2, PTL DEF Spec, ImplementsTable
=============================================================================
