--------------------------- MODULE RepublishProofs ---------------------------
(***************************************************************************)
(* Proofs about Republish, for any sets of floating IPs, networks, routers *)
(* and instances, any layout of networks and any number of changes and     *)
(* failures.                                                               *)
(***************************************************************************)
EXTENDS Republish, TLAPS

JobRecord == [pc : {"idle", "next", "send"}, owes : SUBSET Networks,
              todo : SUBSET Routers, router : Routers \union {None},
              fips : SUBSET FIPs]

(* A router and a lookup result are in hand exactly between StateFor and   *)
(* the message, and a thread between two callbacks has no listing left.    *)
Shape(j) ==
    /\ j.pc = "send" => j.router \in Routers
    /\ j.pc # "send" => j.router = None /\ j.fips = {}
    /\ j.pc = "idle" => j.todo = {}

JobsInShape == \A i \in Instances, t \in Threads : Shape(job[i][t])

(* A term with loops publishes from its own index, and only the            *)
(* subscription of a live one delivers events.                             *)
TermsHaveIndex ==
    \A i \in Instances : /\ term[i] \in InTerm => slot[i] = "index"
                         /\ news[i] # {} => term[i] = "live"

(* StaleIsExplained is preserved only if a router in hand is not also the  *)
(* router of an idle thread, and if whoever changes a leader's index owes  *)
(* the callback its networks.                                              *)
IInv == TypeOK /\ JobsInShape /\ TermsHaveIndex /\ StaleIsExplained

(* StaleIsExplained, of one instance and one router. *)
Explained(i, r) ==
    (Leads(i) /\ ~Owed(i, r) /\ announced[r] # Lookup(i, r)) => why[r] # "none"

(* Owed, of a thread of i that is at j. *)
OwedBy(j, i, r) ==
    \/ Stitches[r] \intersect j.owes # {}
    \/ r \in j.todo
    \/ j.router = r /\ j.fips = Lookup(i, r)

(* Thread t of i goes on with j. *)
GoesOn(i, t, j) == job' = [job EXCEPT ![i] = [job[i] EXCEPT ![t] = j]]

(* It does so at a step of a callback or a publish, which may end a boot   *)
(* and touches nothing else of the processes.                              *)
Works(i, t, j) ==
    /\ job[i][t] # Idle /\ GoesOn(i, t, j)
    /\ phase' = phase \/ phase' = [phase EXCEPT ![i] = "serving"]
    /\ UNCHANGED <<truth, changes, news, rows, holder, losses, term, slot, index>>

-----------------------------------------------------------------------------
(* An idle thread owes nothing and has nothing in hand. *)
LEMMA IdleFields ==
    /\ Idle \in JobRecord /\ Shape(Idle) /\ Idle.pc = "idle" /\ Idle.owes = {}
    /\ Idle.todo = {} /\ Idle.router = None /\ Idle.fips = {}
  BY DEF Idle, JobRecord, Shape

LEMMA AllIdleFields ==
    /\ AllIdle \in [Threads -> JobRecord]
    /\ \A t \in Threads : AllIdle[t] = Idle
  BY IdleFields DEF AllIdle

LEMMA ThreadsAre ==
    /\ Sub \in Loops /\ Poll \in Loops /\ Loops \subseteq AllLoops
    /\ AllLoops \subseteq Threads /\ Rpc \in Threads /\ Rpc \notin AllLoops
  <1>1. 0 \in 0..MaxLosses
    BY BoundsAssumption
  <1> QED BY <1>1 DEF Threads, Loops, AllLoops, Sub, Poll, Rpc

LEMMA JobTypes ==
    ASSUME TypeOK
    PROVE  /\ job \in [Instances -> [Threads -> JobRecord]]
           /\ \A i \in Instances, t \in Threads :
                /\ job[i][t] \in JobRecord
                /\ job[i][t].pc \in {"idle", "next", "send"}
                /\ job[i][t].owes \subseteq Networks
                /\ job[i][t].todo \subseteq Routers
                /\ job[i][t].router \in Routers \union {None}
                /\ job[i][t].fips \subseteq FIPs
  <1>1. job \in [Instances -> [Threads -> JobRecord]]
    BY DEF TypeOK, JobRecord
  <1> QED BY <1>1 DEF JobRecord

(* A thread that goes on leaves the other threads and processes alone. *)
LEMMA GoesOnThere ==
    ASSUME TypeOK, NEW i \in Instances, NEW t \in Threads, NEW j \in JobRecord,
           GoesOn(i, t, j)
    PROVE  /\ job' \in [Instances -> [Threads -> JobRecord]]
           /\ job'[i][t] = j
           /\ \A s \in Threads : s # t => job'[i][s] = job[i][s]
           /\ \A k \in Instances : k # i => job'[k] = job[k]
  BY JobTypes DEF GoesOn

LEMMA GoesOnShape ==
    ASSUME IInv, NEW i \in Instances, NEW t \in Threads, NEW j \in JobRecord, Shape(j),
           GoesOn(i, t, j)
    PROVE  JobsInShape'
  <1>1. ASSUME NEW k \in Instances, NEW s \in Threads
        PROVE  Shape(job'[k][s])
    BY GoesOnThere DEF IInv, JobsInShape
  <1> QED BY <1>1 DEF JobsInShape, Shape

(* What TypeOK says of the jobs, after a thread went on: it may, if its    *)
(* process is up, and a loop only if there is an index.                    *)
LEMMA GoesOnTyped ==
    ASSUME TypeOK, NEW i \in Instances, NEW t \in Threads, NEW j \in JobRecord,
           GoesOn(i, t, j), phase'[i] # "down", t \in AllLoops => slot'[i] = "index",
           \A k \in Instances : /\ slot'[k] = slot[k]
                                /\ k # i => phase'[k] = phase[k] /\ term'[k] = term[k]
    PROVE  /\ job' \in [Instances -> [Threads -> JobRecord]]
           /\ \A k \in Instances : phase'[k] = "down" => job'[k] = AllIdle /\ term'[k] = "none"
           /\ \A k \in Instances, s \in AllLoops : job'[k][s] # Idle => slot'[k] = "index"
  <1>1. /\ job' \in [Instances -> [Threads -> JobRecord]]
        /\ job'[i][t] = j
        /\ \A s \in Threads : s # t => job'[i][s] = job[i][s]
        /\ \A k \in Instances : k # i => job'[k] = job[k]
    BY GoesOnThere
  <1>2. \A k \in Instances : phase'[k] = "down" => job'[k] = AllIdle /\ term'[k] = "none"
    BY <1>1 DEF TypeOK
  <1>3. ASSUME NEW k \in Instances, NEW s \in AllLoops, job'[k][s] # Idle
        PROVE  slot'[k] = "index"
    <2>1. s \in Threads
      BY ThreadsAre
    <2>2. CASE k = i /\ s = t
      BY <2>2
    <2>3. CASE ~(k = i /\ s = t)
      BY <2>1, <2>3, <1>1, <1>3 DEF TypeOK
    <2> QED BY <2>2, <2>3
  <1> QED BY <1>1, <1>2, <1>3

(* A thread with something to do belongs to a process that is up, and a    *)
(* loop to one with an index.                                              *)
LEMMA BusyThread ==
    ASSUME TypeOK, NEW i \in Instances, NEW t \in Threads, job[i][t] # Idle
    PROVE  phase[i] # "down" /\ (t \in AllLoops => slot[i] = "index")
  BY AllIdleFields DEF TypeOK

-----------------------------------------------------------------------------
(* The lookup goes by the index and the slot. *)
LEMMA SameLookup ==
    ASSUME NEW i \in Instances, NEW r \in Routers, slot'[i] = slot[i],
           index'[i] = index[i]
    PROVE  Lookup(i, r)' = Lookup(i, r)
  BY DEF Lookup, OnNetworksOf

(* A publish that a thread of i still owes stays owed while the thread and *)
(* the lookup stay as they are.                                            *)
LEMMA SameOwed ==
    ASSUME NEW i \in Instances, NEW r \in Routers, job'[i] = job[i],
           Lookup(i, r)' = Lookup(i, r), Owed(i, r)
    PROVE  Owed(i, r)'
  BY DEF Owed

(* A router whose announce set and lookup did not change stays explained,  *)
(* if what was owed is still owed and its reason was not taken back.       *)
LEMMA StaysExplained ==
    ASSUME NEW i \in Instances, NEW r \in Routers, Explained(i, r),
           Leads(i)' => Leads(i), Owed(i, r) => Owed(i, r)',
           announced'[r] = announced[r], Lookup(i, r)' = Lookup(i, r),
           why'[r] = why[r] \/ why'[r] # "none"
    PROVE  Explained(i, r)'
  BY DEF Explained

LEMMA EachExplained ==
    ASSUME IInv
    PROVE  \A i \in Instances, r \in rows : r \in Routers /\ Explained(i, r)
  BY DEF IInv, TypeOK, StaleIsExplained, Explained

LEMMA AllExplained ==
    ASSUME rows' \subseteq Routers, \A i \in Instances, r \in rows' : Explained(i, r)'
    PROVE  StaleIsExplained'
  BY DEF StaleIsExplained, Explained

(* At most one instance leads. *)
LEMMA OneLeads ==
    ASSUME NEW i, NEW k, Leads(i), Leads(k)
    PROVE  i = k
  BY DEF Leads

(* An instance whose process and threads are left alone stays explained    *)
(* where the announce set is left alone and no reason is taken back.       *)
LEMMA LeftAlone ==
    ASSUME IInv, NEW i \in Instances, NEW r \in rows, job'[i] = job[i],
           slot'[i] = slot[i], index'[i] = index[i], term'[i] = term[i],
           holder' = holder \/ holder' # i, announced'[r] = announced[r],
           why'[r] = why[r] \/ why'[r] # "none"
    PROVE  Explained(i, r)'
  <1>1. r \in Routers /\ Explained(i, r)
    BY EachExplained
  <1>2. Lookup(i, r)' = Lookup(i, r)
    BY <1>1, SameLookup
  <1>3. Owed(i, r) => Owed(i, r)'
    BY <1>1, <1>2, SameOwed
  <1>4. Leads(i)' => Leads(i)
    BY DEF Leads
  <1> QED BY <1>1, <1>2, <1>3, <1>4, StaysExplained

(* What one thread owes stays owed when it goes on, if it still owes it    *)
(* then; what the others owe stays owed anyway.                            *)
LEMMA StillOwed ==
    ASSUME TypeOK, NEW i \in Instances, NEW t \in Threads, NEW r \in Routers,
           NEW j \in JobRecord, GoesOn(i, t, j), Lookup(i, r)' = Lookup(i, r),
           OwedBy(job[i][t], i, r) => OwedBy(j, i, r), Owed(i, r)
    PROVE  Owed(i, r)'
  <1>1. job'[i][t] = j /\ \A s \in Threads : s # t => job'[i][s] = job[i][s]
    BY GoesOnThere
  <1>2. PICK s \in Threads : OwedBy(job[i][s], i, r)
    BY DEF Owed, OwedBy
  <1> QED BY <1>1, <1>2 DEF Owed, OwedBy

(* Mark keeps the reasons' type and touches only the routers it is given.  *)
LEMMA MarkTyped ==
    ASSUME TypeOK, NEW rs, NEW cause \in Causes, Mark(rs, cause)
    PROVE  /\ why' \in [Routers -> Causes]
           /\ \A r \in Routers : why'[r] = IF r \in rs THEN cause ELSE why[r]
  BY DEF TypeOK, Mark

-----------------------------------------------------------------------------
(* weft's table and its events are nobody's announce set. *)
LEMMA ChangeOK ==
    ASSUME IInv, NEW f \in FIPs, Change(f)
    PROVE  IInv'
  <1> USE DEF weft, procs
  <1>1. TypeOK'
    BY BoundsAssumption DEF IInv, TypeOK, Change
  <1>2. JobsInShape'
    BY DEF IInv, JobsInShape, Change
  <1>3. TermsHaveIndex'
    BY DEF IInv, TypeOK, TermsHaveIndex, Change
  <1>4. StaleIsExplained'
    <2>1. ASSUME NEW i \in Instances, NEW r \in rows' PROVE Explained(i, r)'
      BY LeftAlone DEF Change
    <2> QED BY <1>1, <2>1, AllExplained DEF TypeOK
  <1> QED BY <1>1, <1>2, <1>3, <1>4 DEF IInv

(* A process that starts is not the leader yet, whatever it lists. *)
LEMMA StartOK ==
    ASSUME IInv, NEW i \in Instances, Start(i)
    PROVE  IInv'
  <1> USE DEF weft
  <1>1. TypeOK /\ job[i] = AllIdle /\ term[i] = "none"
    BY DEF IInv, TypeOK, Start
  <1>2. Rpc \in Threads /\ Rpc \notin AllLoops /\ job[i][Rpc] = Idle
    BY <1>1, AllIdleFields, ThreadsAre
  <1>3. PICK j : j = [Idle EXCEPT !.pc = "next", !.todo = rows]
    OBVIOUS
  <1>4. GoesOn(i, Rpc, j) \/ job' = job
    <2>1. CASE job' = [job EXCEPT ![i][Rpc].pc = "next", ![i][Rpc].todo = rows]
      BY <2>1, <1>1, <1>2, <1>3, JobTypes, IdleFields DEF GoesOn
    <2> QED BY <2>1 DEF Start
  <1>5. j \in JobRecord /\ Shape(j)
    BY <1>1, <1>3, IdleFields DEF JobRecord, Shape, TypeOK
  <1>6. phase' \in [Instances -> {"down", "boot", "serving"}] /\ phase'[i] # "down"
        /\ \A k \in Instances : k # i => phase'[k] = phase[k]
    BY <1>1 DEF Start, TypeOK
  <1>7. TypeOK'
    <2>1. troubles' \in 0..MaxTroubles
      BY <1>1, BoundsAssumption DEF Start, TypeOK, Trouble
    <2>2. CASE GoesOn(i, Rpc, j)
      BY <2>1, <2>2, <1>1, <1>2, <1>5, <1>6, GoesOnTyped DEF Start, TypeOK, JobRecord
    <2>3. CASE job' = job
      BY <2>1, <2>3, <1>1, <1>6 DEF Start, TypeOK
    <2> QED BY <2>2, <2>3, <1>4
  <1>8. JobsInShape'
    <2>1. CASE GoesOn(i, Rpc, j)
      BY <2>1, <1>2, <1>5, GoesOnShape
    <2>2. CASE job' = job
      BY <2>2 DEF IInv, JobsInShape
    <2> QED BY <2>1, <2>2, <1>4
  <1>9. TermsHaveIndex'
    BY DEF IInv, TermsHaveIndex, Start
  <1>10. StaleIsExplained'
    <2>1. \A k \in Instances : k # i => job'[k] = job[k]
      BY <1>1, <1>2, <1>4, <1>5, GoesOnThere
    <2>2. ASSUME NEW k \in Instances, NEW r \in rows' PROVE Explained(k, r)'
      <3>1. CASE k = i
        BY <3>1, <1>1 DEF Start, Explained, Leads, InTerm
      <3>2. CASE k # i
        BY <3>2, <2>1, LeftAlone DEF Start
      <3> QED BY <3>1, <3>2
    <2> QED BY <1>7, <2>2, AllExplained DEF TypeOK
  <1> QED BY <1>7, <1>8, <1>9, <1>10 DEF IInv

(* A new router is owed its first publish by the process that made it. *)
LEMMA CreateRouterOK ==
    ASSUME IInv, NEW i \in Instances, NEW r \in Routers, CreateRouter(i, r)
    PROVE  IInv'
  <1> USE DEF weft, procs
  <1>1. TypeOK /\ Rpc \in Threads /\ Rpc \notin AllLoops
    BY ThreadsAre DEF IInv
  <1>2. PICK j : j = [Idle EXCEPT !.pc = "next", !.todo = {r}]
    OBVIOUS
  <1>3. /\ j \in JobRecord /\ Shape(j) /\ j.todo = {r}
    BY <1>2, IdleFields DEF JobRecord, Shape
  <1>4. GoesOn(i, Rpc, j)
    BY <1>1, <1>2, JobTypes, IdleFields DEF CreateRouter, GoesOn
  <1>5. PICK c : c = IF Leads(i) THEN "none" ELSE "foreign"
    OBVIOUS
  <1>6. c \in Causes /\ Mark({r}, c)
    BY <1>5 DEF CreateRouter, Causes
  <1>7. /\ why' \in [Routers -> Causes]
        /\ \A x \in Routers : why'[x] = IF x = r THEN c ELSE why[x]
    BY <1>1, <1>6, MarkTyped
  <1>8. TypeOK'
    BY <1>1, <1>3, <1>4, <1>7, GoesOnTyped DEF CreateRouter, TypeOK, JobRecord
  <1>9. JobsInShape'
    BY <1>1, <1>3, <1>4, GoesOnShape
  <1>10. TermsHaveIndex'
    BY DEF IInv, TermsHaveIndex, CreateRouter
  <1>11. StaleIsExplained'
    <2>1. /\ job'[i][Rpc] = j
          /\ \A s \in Threads : s # Rpc => job'[i][s] = job[i][s]
          /\ \A k \in Instances : k # i => job'[k] = job[k]
      BY <1>1, <1>3, <1>4, GoesOnThere
    <2>2. ASSUME NEW k \in Instances PROVE Explained(k, r)'
      <3>1. CASE k = i
        <4>1. Owed(i, r)'
          BY <1>1, <1>3, <2>1 DEF Owed
        <4> QED BY <3>1, <4>1 DEF Explained
      <3>2. CASE k # i
        <4>1. Leads(k)' => ~Leads(i)
          BY <3>2 DEF Leads, CreateRouter
        <4> QED BY <4>1, <1>5, <1>7 DEF Explained
      <3> QED BY <3>1, <3>2
    <2>3. ASSUME NEW k \in Instances, NEW x \in rows, x # r PROVE Explained(k, x)'
      <3>1. x \in Routers
        BY <1>1 DEF TypeOK
      <3>2. CASE k # i
        BY <3>1, <3>2, <2>1, <2>3, <1>7, LeftAlone DEF CreateRouter
      <3>3. CASE k = i
        <4>1. Lookup(i, x)' = Lookup(i, x)
          BY <3>1, SameLookup DEF CreateRouter
        <4>2. ~OwedBy(job[i][Rpc], i, x)
          BY <3>1, IdleFields, NoneAssumption DEF CreateRouter, OwedBy
        <4>3. Owed(i, x) => Owed(i, x)'
          BY <1>1, <1>3, <1>4, <3>1, <4>1, <4>2, StillOwed
        <4> QED BY <3>1, <3>3, <4>1, <4>3, <1>7, <2>3, EachExplained, StaysExplained
              DEF CreateRouter, Leads
      <3> QED BY <3>2, <3>3
    <2>4. rows' = rows \union {r}
      BY DEF CreateRouter
    <2>5. ASSUME NEW k \in Instances, NEW x \in rows' PROVE Explained(k, x)'
      BY <2>2, <2>3, <2>4
    <2> QED BY <1>8, <2>5, AllExplained DEF TypeOK
  <1> QED BY <1>8, <1>9, <1>10, <1>11 DEF IInv

(* A process that stops takes its threads along. *)
LEMMA StopOK ==
    ASSUME IInv, NEW i \in Instances, Stop(i)
    PROVE  IInv'
  <1>1. /\ job' \in [Instances -> [Threads -> JobRecord]] /\ job'[i] = AllIdle
        /\ \A k \in Instances : k # i => job'[k] = job[k]
    BY JobTypes, AllIdleFields DEF IInv, Stop
  <1>2. /\ term'[i] = "none" /\ phase'[i] = "down" /\ slot'[i] = "noop" /\ news'[i] = {}
        /\ \A k \in Instances : k # i => /\ term'[k] = term[k] /\ phase'[k] = phase[k]
                                         /\ slot'[k] = slot[k] /\ index'[k] = index[k]
                                         /\ news'[k] = news[k]
    BY DEF IInv, TypeOK, Stop
  <1>3. TypeOK'
    <2>1. /\ truth' \subseteq FIPs /\ news' \in [Instances -> SUBSET FIPs]
          /\ changes' \in 0..MaxChanges /\ troubles' \in 0..MaxTroubles
          /\ phase' \in [Instances -> {"down", "boot", "serving"}]
          /\ term' \in [Instances -> InTerm \union {"none", "deaf"}]
          /\ slot' \in [Instances -> {"noop", "index"}] /\ index' \in [Instances -> SUBSET FIPs]
      BY BoundsAssumption DEF IInv, TypeOK, Stop, Trouble
    <2>2. \A k \in Instances : phase'[k] = "down" => job'[k] = AllIdle /\ term'[k] = "none"
      BY <1>1, <1>2 DEF IInv, TypeOK
    <2>3. \A k \in Instances, t \in AllLoops : job'[k][t] # Idle => slot'[k] = "index"
      <3>1. \A t \in AllLoops : job'[i][t] = Idle
        BY <1>1, AllIdleFields, ThreadsAre
      <3>2. \A k \in Instances, t \in AllLoops :
              k # i /\ job'[k][t] # Idle => slot'[k] = "index"
        BY <1>1, <1>2 DEF IInv, TypeOK
      <3> QED BY <3>1, <3>2
    <2> QED BY <1>1, <2>1, <2>2, <2>3 DEF IInv, TypeOK, Stop, JobRecord
  <1>4. JobsInShape'
    <2>1. ASSUME NEW k \in Instances, NEW t \in Threads PROVE Shape(job'[k][t])
      BY <1>1, AllIdleFields, IdleFields DEF IInv, JobsInShape
    <2> QED BY <2>1 DEF JobsInShape, Shape
  <1>5. TermsHaveIndex'
    BY <1>2 DEF IInv, TermsHaveIndex, InTerm
  <1>6. StaleIsExplained'
    <2>1. ASSUME NEW k \in Instances, NEW r \in rows' PROVE Explained(k, r)'
      <3>1. CASE k = i
        BY <3>1, <1>2 DEF Explained, Leads, InTerm
      <3>2. CASE k # i
        BY <3>2, <1>1, <1>2, LeftAlone DEF Stop
      <3> QED BY <3>1, <3>2
    <2> QED BY <1>3, <2>1, AllExplained DEF TypeOK
  <1> QED BY <1>3, <1>4, <1>5, <1>6 DEF IInv

-----------------------------------------------------------------------------
(* What the threads of i go on with when a new term begins: the loops of   *)
(* the last one keep what they have in hand.                               *)
LEMMA NewLoopsTyped ==
    ASSUME IInv, NEW i \in Instances
    PROVE  /\ NewLoops(i) \in [Threads -> JobRecord]
           /\ \A t \in Threads : /\ Shape(NewLoops(i)[t])
                                 /\ t \in AllLoops /\ NewLoops(i)[t] # Idle => slot[i] = "index"
  <1>1. TypeOK /\ job[i] \in [Threads -> JobRecord]
    BY JobTypes DEF IInv
  <1>2. ASSUME NEW t \in Threads
        PROVE  /\ NewLoops(i)[t] \in JobRecord /\ Shape(NewLoops(i)[t])
               /\ t \in AllLoops /\ NewLoops(i)[t] # Idle => slot[i] = "index"
    <2>1. CASE t \in Loops
      BY <2>1, IdleFields DEF NewLoops
    <2>2. CASE t \notin Loops /\ t[1] # "rpc" /\ t[2] = losses
      <3>1. PICK s : s = <<t[1], 0>>
        OBVIOUS
      <3>2. t \in AllLoops
        BY <2>2 DEF Threads, Rpc
      <3>3. s \in AllLoops /\ s \in Threads
        BY <3>1, <3>2, BoundsAssumption DEF AllLoops, Threads
      <3>4. job[i][s] \in JobRecord /\ Shape(job[i][s])
        BY <1>1, <3>3 DEF IInv, JobsInShape
      <3>5. NewLoops(i)[t] = [job[i][s] EXCEPT !.owes = {}]
        BY <2>2, <3>1 DEF NewLoops, Leftover
      <3>6. NewLoops(i)[t] \in JobRecord /\ Shape(NewLoops(i)[t])
        BY <3>4, <3>5 DEF JobRecord, Shape
      <3>7. job[i][s] = Idle => NewLoops(i)[t] = Idle
        BY <3>5, IdleFields DEF Idle
      <3>8. job[i][s] # Idle => slot[i] = "index"
        BY <1>1, <3>3, BusyThread
      <3> QED BY <3>6, <3>7, <3>8
    <2>3. CASE t \notin Loops /\ ~(t[1] # "rpc" /\ t[2] = losses)
      <3>1. NewLoops(i)[t] = job[i][t]
        BY <2>3 DEF NewLoops
      <3>2. job[i][t] \in JobRecord /\ Shape(job[i][t])
        BY <1>1 DEF IInv, JobsInShape
      <3> QED BY <1>1, <3>1, <3>2, BusyThread
    <2> QED BY <2>1, <2>2, <2>3
  <1>3. NewLoops(i) = [t \in Threads |-> NewLoops(i)[t]]
    BY DEF NewLoops
  <1> QED BY <1>2, <1>3

(* A new leader has had no say in any announce set. *)
LEMMA AcquireOK ==
    ASSUME IInv, NEW i \in Instances, Acquire(i)
    PROVE  IInv'
  <1> USE DEF weft
  <1>1. "inherited" \in Causes /\ Mark(Routers, "inherited")
    BY DEF Acquire, Causes
  <1>2. why' \in [Routers -> Causes] /\ \A r \in Routers : why'[r] = "inherited"
    BY <1>1, MarkTyped DEF IInv
  <1>3. /\ term'[i] \in {"seed", "deaf"} /\ (term'[i] = "seed" => slot'[i] = "index")
        /\ slot[i] = "index" => slot'[i] = "index"
        /\ \A k \in Instances : k # i => term'[k] = term[k] /\ slot'[k] = slot[k]
    BY DEF IInv, TypeOK, Acquire
  <1>4. /\ job' \in [Instances -> [Threads -> JobRecord]] /\ job'[i] = NewLoops(i)
        /\ \A k \in Instances : k # i => job'[k] = job[k]
    BY NewLoopsTyped, JobTypes DEF IInv, Acquire
  <1>5. TypeOK'
    <2>1. /\ term' \in [Instances -> InTerm \union {"none", "deaf"}]
          /\ slot' \in [Instances -> {"noop", "index"}] /\ index' \in [Instances -> SUBSET FIPs]
          /\ holder' \in Instances \union {None}
      BY DEF IInv, TypeOK, Acquire, InTerm
    <2>2. troubles' \in 0..MaxTroubles
      BY BoundsAssumption DEF IInv, TypeOK, Acquire, Trouble
    <2>3. \A k \in Instances, t \in AllLoops : job'[k][t] # Idle => slot'[k] = "index"
      <3>1. \A t \in AllLoops : job'[i][t] # Idle => slot'[i] = "index"
        BY <1>3, <1>4, NewLoopsTyped, ThreadsAre
      <3>2. \A k \in Instances, t \in AllLoops :
              k # i /\ job'[k][t] # Idle => slot'[k] = "index"
        BY <1>3, <1>4 DEF IInv, TypeOK
      <3> QED BY <3>1, <3>2
    <2>4. \A k \in Instances : phase'[k] = "down" => job'[k] = AllIdle /\ term'[k] = "none"
      BY <1>3, <1>4 DEF IInv, TypeOK, Acquire
    <2> QED BY <1>2, <1>4, <2>1, <2>2, <2>3, <2>4 DEF IInv, TypeOK, Acquire, JobRecord
  <1>6. JobsInShape'
    <2>1. ASSUME NEW k \in Instances, NEW t \in Threads PROVE Shape(job'[k][t])
      BY <1>4, NewLoopsTyped DEF IInv, JobsInShape
    <2> QED BY <2>1 DEF JobsInShape, Shape
  <1>7. TermsHaveIndex'
    BY <1>3 DEF IInv, TermsHaveIndex, Acquire, InTerm
  <1>8. StaleIsExplained'
    BY <1>2, <1>5 DEF StaleIsExplained, TypeOK
  <1> QED BY <1>5, <1>6, <1>7, <1>8 DEF IInv

(* Without the key nobody leads. *)
LEMMA KeyLostOK ==
    ASSUME IInv, NEW i \in Instances, KeyLost(i)
    PROVE  IInv'
  <1> USE DEF weft, procs
  <1>1. TypeOK'
    BY BoundsAssumption DEF IInv, TypeOK, KeyLost
  <1>2. JobsInShape' /\ TermsHaveIndex'
    BY DEF IInv, JobsInShape, TermsHaveIndex, KeyLost
  <1>3. StaleIsExplained'
    BY NoneAssumption DEF StaleIsExplained, Leads, KeyLost
  <1> QED BY <1>1, <1>2, <1>3 DEF IInv

(* An instance whose term ends had lost the key before. *)
LEMMA TermOverOK ==
    ASSUME IInv, NEW i \in Instances, TermOver(i)
    PROVE  IInv'
  <1>1. /\ term'[i] = "none" /\ news'[i] = {}
        /\ \A k \in Instances : k # i => term'[k] = term[k] /\ news'[k] = news[k]
    BY DEF IInv, TypeOK, TermOver
  <1>2. TypeOK'
    BY <1>1 DEF IInv, TypeOK, TermOver
  <1>3. JobsInShape'
    BY DEF IInv, JobsInShape, TermOver
  <1>4. TermsHaveIndex'
    BY <1>1 DEF IInv, TermsHaveIndex, TermOver, InTerm
  <1>5. StaleIsExplained'
    <2>1. ASSUME NEW k \in Instances, NEW r \in rows' PROVE Explained(k, r)'
      <3>1. CASE k = i
        BY <3>1, <1>1 DEF Explained, Leads, InTerm
      <3>2. CASE k # i
        BY <3>2, <1>1, LeftAlone DEF TermOver
      <3> QED BY <3>1, <3>2
    <2> QED BY <1>2, <2>1, AllExplained DEF TypeOK
  <1> QED BY <1>2, <1>3, <1>4, <1>5 DEF IInv

-----------------------------------------------------------------------------
(* A feeder that changes the index owes the callback every network on      *)
(* which it did.                                                           *)
LEMMA IndexMoves ==
    ASSUME IInv, NEW i \in Instances, NEW t \in Loops,
           NEW new \in SUBSET FIPs, NEW D \in SUBSET Networks, NEW j \in JobRecord,
           j = [Idle EXCEPT !.owes = D], job[i][t] = Idle, GoesOn(i, t, j),
           index' = [index EXCEPT ![i] = new],
           \A f \in FIPs : (f \in index[i] <=> f \in new) \/ Home[f] \in D,
           rows' = rows, holder' = holder, slot' = slot, announced' = announced, why' = why,
           \A k \in Instances : Leads(k)' => Leads(k)
    PROVE  \A k \in Instances, r \in rows : Explained(k, r)'
  <1>1. t \in Threads /\ TypeOK /\ j.owes = D
    BY ThreadsAre, IdleFields DEF IInv, JobRecord
  <1>2. /\ job'[i][t] = j
        /\ \A s \in Threads : s # t => job'[i][s] = job[i][s]
        /\ \A k \in Instances : k # i => job'[k] = job[k]
    BY <1>1, GoesOnThere
  <1>3. index'[i] = new /\ index[i] \subseteq FIPs
        /\ \A k \in Instances : k # i => index'[k] = index[k]
    BY <1>1 DEF TypeOK
  <1> SUFFICES ASSUME NEW k \in Instances, NEW r \in rows PROVE Explained(k, r)'
    OBVIOUS
  <1>4. r \in Routers /\ Explained(k, r)
    BY EachExplained
  <1>5. CASE k # i
    <2>1. Lookup(k, r)' = Lookup(k, r)
      BY <1>3, <1>4, <1>5, SameLookup
    <2>2. Owed(k, r) => Owed(k, r)'
      BY <1>2, <1>4, <1>5, <2>1, SameOwed
    <2> QED BY <1>4, <2>1, <2>2, StaysExplained
  <1>6. CASE k = i /\ Stitches[r] \intersect D # {}
    BY <1>1, <1>2, <1>6 DEF Explained, Owed
  <1>7. CASE k = i /\ Stitches[r] \intersect D = {}
    <2>1. OnNetworksOf(r, index'[i]) = OnNetworksOf(r, index[i])
      BY <1>3, <1>7 DEF OnNetworksOf
    <2>2. Lookup(i, r)' = Lookup(i, r)
      BY <2>1 DEF Lookup, OnNetworksOf
    <2>3. ~OwedBy(job[i][t], i, r)
      BY <1>4, IdleFields, NoneAssumption DEF OwedBy
    <2>4. Owed(i, r) => Owed(i, r)'
      BY <1>1, <1>4, <2>2, <2>3, StillOwed
    <2> QED BY <1>4, <1>7, <2>2, <2>4, StaysExplained
  <1> QED BY <1>5, <1>6, <1>7

(* Subscriber.handle: the network of the floating IP is owed. *)
LEMMA EventOK ==
    ASSUME IInv, NEW i \in Instances, NEW f \in FIPs, Event(i, f)
    PROVE  IInv'
  <1>1. Sub \in Loops /\ Sub \in Threads /\ TypeOK
    BY ThreadsAre DEF IInv
  <1>2. Home[f] \in Networks /\ term[i] = "live" /\ slot[i] = "index" /\ phase[i] # "down"
    BY <1>1, LayoutAssumption DEF IInv, TypeOK, TermsHaveIndex, Event, InTerm
  <1>3. PICK D : D = {Home[f]}
    OBVIOUS
  <1>4. PICK j : j = [Idle EXCEPT !.owes = D]
    OBVIOUS
  <1>5. D \in SUBSET Networks /\ j \in JobRecord /\ Shape(j)
    BY <1>2, <1>3, <1>4, IdleFields, NoneAssumption DEF JobRecord, Shape
  <1>6. GoesOn(i, Sub, j)
    BY <1>1, <1>3, <1>4, JobTypes DEF Event, GoesOn
  <1>7. PICK new : new = (index[i] \ {f}) \union ({f} \intersect truth)
    OBVIOUS
  <1>8. new \in SUBSET FIPs /\ index' = [index EXCEPT ![i] = new]
    BY <1>1, <1>7 DEF TypeOK, Event
  <1>9. TypeOK'
    BY <1>1, <1>2, <1>5, <1>6, <1>8, GoesOnTyped DEF TypeOK, Event, JobRecord
  <1>10. JobsInShape'
    BY <1>1, <1>5, <1>6, GoesOnShape
  <1>11. TermsHaveIndex'
    BY <1>2 DEF IInv, TypeOK, TermsHaveIndex, Event
  <1>12. StaleIsExplained'
    <2>1. \A g \in FIPs : (g \in index[i] <=> g \in new) \/ Home[g] \in D
      BY <1>3, <1>7
    <2>2. \A k \in Instances : Leads(k)' => Leads(k)
      BY DEF Leads, Event
    <2>3. \A k \in Instances, r \in rows : Explained(k, r)'
      BY <1>1, <1>4, <1>5, <1>6, <1>8, <2>1, <2>2, IndexMoves DEF Event
    <2>4. rows' = rows
      BY DEF Event
    <2> QED BY <1>9, <2>3, <2>4, AllExplained DEF TypeOK
  <1> QED BY <1>9, <1>10, <1>11, <1>12 DEF IInv

(* Poller.tick: the networks on which the listing differs are owed. *)
LEMMA TickOK ==
    ASSUME IInv, NEW i \in Instances, Tick(i)
    PROVE  IInv'
  <1> USE DEF weft
  <1>1. Poll \in Loops /\ Poll \in Threads /\ TypeOK
    BY ThreadsAre DEF IInv
  <1>2. term[i] \in {"seed", "live"} /\ slot[i] = "index" /\ phase[i] # "down"
    BY <1>1 DEF IInv, TypeOK, TermsHaveIndex, Tick, InTerm
  <1>3. PICK D : D = Differing(index[i], truth)
    OBVIOUS
  <1>4. PICK j : j = [Idle EXCEPT !.owes = D]
    OBVIOUS
  <1>5. D \in SUBSET Networks
    BY <1>1, <1>3, LayoutAssumption DEF Differing, TypeOK
  <1>6. j \in JobRecord /\ Shape(j)
    BY <1>4, <1>5, IdleFields, NoneAssumption DEF JobRecord, Shape
  <1>7. GoesOn(i, Poll, j)
    BY <1>1, <1>3, <1>4, JobTypes DEF Tick, Listing, GoesOn
  <1>8. truth \in SUBSET FIPs /\ index' = [index EXCEPT ![i] = truth]
    BY <1>1 DEF TypeOK, Tick, Listing
  <1>9. /\ term' \in [Instances -> InTerm \union {"none", "deaf"}]
        /\ term'[i] \in {"seeding", "live"} /\ (term[i] = "live" => term'[i] = "live")
        /\ \A k \in Instances : k # i => term'[k] = term[k]
    BY <1>1, <1>2 DEF TypeOK, Tick, InTerm
  <1>10. TypeOK'
    <2>1. index' \in [Instances -> SUBSET FIPs]
      BY <1>1, <1>8 DEF TypeOK
    <2> QED BY <1>1, <1>2, <1>6, <1>7, <1>9, <2>1, GoesOnTyped DEF TypeOK, Tick, JobRecord
  <1>11. JobsInShape'
    BY <1>1, <1>6, <1>7, GoesOnShape
  <1>12. TermsHaveIndex'
    BY <1>2, <1>9 DEF IInv, TypeOK, TermsHaveIndex, Tick
  <1>13. StaleIsExplained'
    <2>1. \A g \in FIPs : (g \in index[i] <=> g \in truth) \/ Home[g] \in D
      BY <1>3 DEF Differing
    <2>2. \A k \in Instances : Leads(k)' => Leads(k)
      BY <1>2, <1>9 DEF Leads, Tick, InTerm
    <2>3. \A k \in Instances, r \in rows : Explained(k, r)'
      BY <1>1, <1>4, <1>5, <1>6, <1>7, <1>8, <2>1, <2>2, IndexMoves DEF Tick
    <2>4. rows' = rows
      BY DEF Tick
    <2> QED BY <1>10, <2>3, <2>4, AllExplained DEF TypeOK
  <1> QED BY <1>10, <1>11, <1>12, <1>13 DEF IInv

(* The subscriber starts with whatever the index holds. *)
LEMMA SeededOK ==
    ASSUME IInv, NEW i \in Instances, Seeded(i)
    PROVE  IInv'
  <1> USE DEF weft
  <1>1. /\ term[i] \in InTerm /\ term'[i] = "live"
        /\ \A k \in Instances : k # i => term'[k] = term[k]
    BY DEF IInv, TypeOK, Seeded, InTerm
  <1>2. TypeOK'
    BY <1>1, BoundsAssumption DEF IInv, TypeOK, Seeded, Trouble, InTerm
  <1>3. JobsInShape'
    BY DEF IInv, JobsInShape, Seeded
  <1>4. TermsHaveIndex'
    BY <1>1 DEF IInv, TermsHaveIndex, Seeded
  <1>5. StaleIsExplained'
    <2>1. ASSUME NEW k \in Instances, NEW r \in rows' PROVE Explained(k, r)'
      <3>1. r \in Routers /\ Explained(k, r)
        BY EachExplained DEF Seeded
      <3>2. Lookup(k, r)' = Lookup(k, r)
        BY <3>1, SameLookup DEF Seeded
      <3>3. Owed(k, r) => Owed(k, r)'
        BY <3>1, <3>2, SameOwed DEF Seeded
      <3>4. Leads(k)' => Leads(k)
        BY <1>1 DEF Leads, Seeded
      <3> QED BY <3>1, <3>2, <3>3, <3>4, StaysExplained DEF Seeded
    <2> QED BY <1>2, <2>1, AllExplained DEF TypeOK
  <1> QED BY <1>2, <1>3, <1>4, <1>5 DEF IInv

-----------------------------------------------------------------------------
(* A step of a callback or a publish keeps everything but, perhaps, the    *)
(* explanation of the routers it is about.                                 *)
LEMMA WorksTyped ==
    ASSUME IInv, NEW i \in Instances, NEW t \in Threads, NEW j \in JobRecord, Shape(j),
           Works(i, t, j), announced' \in [Routers -> SUBSET FIPs],
           why' \in [Routers -> Causes], troubles' \in 0..MaxTroubles
    PROVE  TypeOK' /\ JobsInShape' /\ TermsHaveIndex'
  <1>1. TypeOK /\ GoesOn(i, t, j) /\ phase[i] # "down" /\ (t \in AllLoops => slot'[i] = "index")
    BY BusyThread DEF IInv, Works
  <1>2. /\ phase' \in [Instances -> {"down", "boot", "serving"}] /\ phase'[i] # "down"
        /\ \A k \in Instances : k # i => phase'[k] = phase[k]
    BY <1>1 DEF TypeOK, Works
  <1>3. TypeOK'
    BY <1>1, <1>2, GoesOnTyped DEF TypeOK, Works, JobRecord
  <1>4. JobsInShape'
    BY <1>1, GoesOnShape
  <1>5. TermsHaveIndex'
    BY DEF IInv, TermsHaveIndex, Works
  <1> QED BY <1>3, <1>4, <1>5

LEMMA WorksExplained ==
    ASSUME IInv, NEW i \in Instances, NEW t \in Threads, NEW j \in JobRecord,
           Works(i, t, j), NEW k \in Instances, NEW r \in rows,
           announced'[r] = announced[r], why'[r] = why[r] \/ why'[r] # "none",
           (Leads(i) /\ OwedBy(job[i][t], i, r)) => (OwedBy(j, i, r) \/ why'[r] # "none")
    PROVE  Explained(k, r)'
  <1>1. TypeOK /\ GoesOn(i, t, j) /\ r \in Routers /\ Explained(k, r)
    BY EachExplained DEF IInv, Works
  <1>2. CASE k # i
    <2>1. job'[k] = job[k]
      BY <1>1, <1>2, GoesOnThere
    <2> QED BY <2>1, LeftAlone DEF Works
  <1>3. CASE k = i
    <2>1. Lookup(i, r)' = Lookup(i, r)
      BY <1>1, SameLookup DEF Works
    <2>2. Leads(i)' <=> Leads(i)
      BY DEF Leads, Works
    <2>3. CASE OwedBy(job[i][t], i, r) => OwedBy(j, i, r)
      <3>1. Owed(i, r) => Owed(i, r)'
        BY <1>1, <2>1, <2>3, StillOwed
      <3> QED BY <1>1, <1>3, <2>1, <2>2, <3>1, StaysExplained
    <2>4. CASE ~Leads(i) \/ why'[r] # "none"
      BY <1>3, <2>2, <2>4 DEF Explained
    <2> QED BY <2>3, <2>4
  <1> QED BY <1>2, <1>3

(* The listing of the callback holds every router on the network. *)
LEMMA CallbackListOK ==
    ASSUME IInv, NEW i \in Instances, NEW t \in Threads, NEW n \in Networks,
           CallbackList(i, t, n)
    PROVE  IInv'
  <1> USE DEF weft, procs
  <1>1. PICK found : found = {r \in rows : term[i] \in InTerm /\ routerStitchesNetwork(r, n)}
    OBVIOUS
  <1>2. PICK o : o = job[i][t]
    OBVIOUS
  <1>3. PICK p, j : /\ p = IF found = {} THEN "idle" ELSE "next"
                    /\ j = [o EXCEPT !.owes = o.owes \ {n}, !.pc = p, !.todo = found]
    OBVIOUS
  <1>4. /\ TypeOK /\ o \in JobRecord /\ o.pc = "idle" /\ n \in o.owes /\ o.todo = {}
        /\ o.router = None /\ o.fips = {} /\ o.owes \subseteq Networks
    BY <1>2, JobTypes DEF IInv, JobsInShape, Shape, CallbackList
  <1>5. found \subseteq Routers
    BY <1>1, <1>4 DEF TypeOK
  <1>6. /\ j \in JobRecord /\ j.owes = o.owes \ {n} /\ j.todo = found
        /\ j.pc = IF found = {} THEN "idle" ELSE "next"
        /\ j.router = None /\ j.fips = {}
    BY <1>3, <1>4, <1>5 DEF JobRecord
  <1>7. Shape(j)
    BY <1>6 DEF Shape
  <1>8. Works(i, t, j)
    <2>1. o # Idle
      BY <1>4, IdleFields
    <2>2. GoesOn(i, t, j)
      <3>1. job \in [Instances -> [Threads -> JobRecord]]
        BY <1>4, JobTypes
      <3>2. job' = [job EXCEPT ![i][t].owes = job[i][t].owes \ {n}, ![i][t].pc = p,
                               ![i][t].todo = found]
        BY <1>1, <1>3, <3>1 DEF CallbackList
      <3> QED BY <3>1, <3>2, <1>2, <1>3 DEF GoesOn
    <2> QED BY <1>2, <2>1, <2>2 DEF Works, CallbackList
  <1>9. TypeOK' /\ JobsInShape' /\ TermsHaveIndex'
    BY <1>4, <1>6, <1>7, <1>8, WorksTyped DEF CallbackList, TypeOK
  <1>10. StaleIsExplained'
    <2>1. ASSUME NEW r \in rows, Leads(i), OwedBy(o, i, r) PROVE OwedBy(j, i, r)
      <3>1. r \in Routers /\ r # None
        BY <1>4, NoneAssumption DEF TypeOK
      <3>2. Stitches[r] \intersect o.owes # {}
        BY <2>1, <3>1, <1>4 DEF OwedBy
      <3>3. n \in Stitches[r] => r \in found
        BY <2>1, <1>1 DEF Leads, routerStitchesNetwork
      <3> QED BY <3>2, <3>3, <1>6 DEF OwedBy
    <2>2. ASSUME NEW k \in Instances, NEW r \in rows' PROVE Explained(k, r)'
      BY <1>2, <1>6, <1>8, <2>1, WorksExplained DEF CallbackList
    <2> QED BY <1>9, <2>2, AllExplained DEF TypeOK
  <1> QED BY <1>9, <1>10 DEF IInv

(* A listing that fails leaves its routers marked. *)
LEMMA ListFailsOK ==
    ASSUME IInv, NEW i \in Instances, NEW t \in Threads, NEW n \in Networks,
           ListFails(i, t, n)
    PROVE  IInv'
  <1> USE DEF weft, procs
  <1>1. PICK o : o = job[i][t]
    OBVIOUS
  <1>2. PICK j : j = [o EXCEPT !.owes = o.owes \ {n}]
    OBVIOUS
  <1>3. TypeOK /\ o \in JobRecord /\ n \in o.owes /\ Shape(o)
    BY <1>1, JobTypes DEF IInv, JobsInShape, ListFails
  <1>4. /\ j \in JobRecord /\ j.owes = o.owes \ {n} /\ j.todo = o.todo
        /\ j.pc = o.pc /\ j.router = o.router /\ j.fips = o.fips
    BY <1>2, <1>3 DEF JobRecord
  <1>5. Shape(j)
    BY <1>3, <1>4 DEF Shape
  <1>6. Works(i, t, j)
    <2>1. o # Idle
      BY <1>3, IdleFields
    <2>2. GoesOn(i, t, j)
      BY <1>1, <1>2, <1>3, JobTypes DEF ListFails, GoesOn, JobRecord
    <2> QED BY <1>1, <2>1, <2>2 DEF Works, ListFails
  <1>7. PICK lost : lost = {r \in rows : Leads(i) /\ routerStitchesNetwork(r, n)}
    OBVIOUS
  <1>8. /\ why' \in [Routers -> Causes]
        /\ \A r \in Routers : why'[r] = IF r \in lost THEN "failed" ELSE why[r]
    BY <1>3, <1>7, MarkTyped DEF ListFails, Causes
  <1>9. TypeOK' /\ JobsInShape' /\ TermsHaveIndex'
    <2>1. troubles' \in 0..MaxTroubles
      BY <1>3, BoundsAssumption DEF ListFails, TypeOK, Trouble
    <2> QED BY <1>3, <1>4, <1>5, <1>6, <1>8, <2>1, WorksTyped DEF ListFails, TypeOK
  <1>10. StaleIsExplained'
    <2>1. ASSUME NEW r \in rows, Leads(i), OwedBy(o, i, r), r \notin lost
          PROVE  OwedBy(j, i, r)
      BY <2>1, <1>4, <1>7 DEF OwedBy, routerStitchesNetwork
    <2>2. ASSUME NEW k \in Instances, NEW r \in rows' PROVE Explained(k, r)'
      <3>1. r \in rows /\ r \in Routers
        BY <1>3 DEF ListFails, TypeOK
      <3> QED BY <3>1, <1>1, <1>4, <1>6, <1>8, <2>1, WorksExplained DEF ListFails
    <2> QED BY <1>9, <2>2, AllExplained DEF TypeOK
  <1> QED BY <1>9, <1>10 DEF IInv

(* A lookup that has just been read is current. *)
LEMMA PublishReadOK ==
    ASSUME IInv, NEW i \in Instances, NEW t \in Threads, NEW r \in Routers,
           PublishRead(i, t, r)
    PROVE  IInv'
  <1> USE DEF weft, procs
  <1>1. PICK o : o = job[i][t]
    OBVIOUS
  <1>2. PICK seen, j : /\ seen = Lookup(i, r)
                       /\ j = [o EXCEPT !.pc = "send", !.todo = o.todo \ {r},
                                        !.router = r, !.fips = seen]
    OBVIOUS
  <1>3. /\ TypeOK /\ o \in JobRecord /\ o.pc = "next" /\ o.router = None
        /\ o.todo \subseteq Routers
    BY <1>1, JobTypes DEF IInv, JobsInShape, Shape, PublishRead
  <1>4. seen \subseteq FIPs
    BY <1>2, <1>3 DEF Lookup, OnNetworksOf, TypeOK
  <1>5. /\ j \in JobRecord /\ j.owes = o.owes /\ j.todo = o.todo \ {r}
        /\ j.pc = "send" /\ j.router = r /\ j.fips = seen
    BY <1>2, <1>3, <1>4 DEF JobRecord
  <1>6. Shape(j)
    BY <1>5 DEF Shape
  <1>7. Works(i, t, j)
    <2>1. o # Idle
      BY <1>3, IdleFields
    <2>2. GoesOn(i, t, j)
      <3>1. job \in [Instances -> [Threads -> JobRecord]]
        BY <1>3, JobTypes
      <3>2. job' = [job EXCEPT ![i][t].pc = "send", ![i][t].todo = job[i][t].todo \ {r},
                               ![i][t].router = r, ![i][t].fips = seen]
        BY <1>2, <3>1 DEF PublishRead
      <3> QED BY <3>1, <3>2, <1>1, <1>2 DEF GoesOn
    <2> QED BY <1>1, <2>1, <2>2 DEF Works, PublishRead
  <1>8. TypeOK' /\ JobsInShape' /\ TermsHaveIndex'
    BY <1>3, <1>5, <1>6, <1>7, WorksTyped DEF PublishRead, TypeOK
  <1>9. StaleIsExplained'
    <2>1. ASSUME NEW x \in rows, OwedBy(o, i, x) PROVE OwedBy(j, i, x)
      <3>1. x # None
        BY <1>3, NoneAssumption DEF TypeOK
      <3> QED BY <2>1, <3>1, <1>2, <1>3, <1>5 DEF OwedBy
    <2>2. ASSUME NEW k \in Instances, NEW x \in rows' PROVE Explained(k, x)'
      BY <1>1, <1>5, <1>7, <2>1, WorksExplained DEF PublishRead
    <2> QED BY <1>8, <2>2, AllExplained DEF TypeOK
  <1> QED BY <1>8, <1>9 DEF IInv

(* After the message, or instead of it, the thread has nothing in hand and *)
(* owes what it owed, but for the router it was at.                        *)
LEMMA AfterSendWorks ==
    ASSUME IInv, NEW i \in Instances, NEW t \in Threads, job[i][t].pc = "send",
           AfterSend(i, t),
           UNCHANGED <<truth, changes, news, rows, holder, losses, term, slot, index>>
    PROVE  \E j \in JobRecord :
             /\ Shape(j) /\ Works(i, t, j)
             /\ \A r \in Routers : OwedBy(job[i][t], i, r) /\ r # job[i][t].router => OwedBy(j, i, r)
  <1>1. PICK o : o = job[i][t]
    OBVIOUS
  <1>2. PICK p, j : /\ p = IF o.todo = {} THEN "idle" ELSE "next"
                    /\ j = [o EXCEPT !.pc = p, !.router = None, !.fips = {}]
    OBVIOUS
  <1>3. TypeOK /\ o \in JobRecord /\ o.pc = "send"
    BY <1>1, JobTypes DEF IInv
  <1>4. /\ j \in JobRecord /\ j.owes = o.owes /\ j.todo = o.todo
        /\ j.pc = p /\ j.router = None /\ j.fips = {}
    BY <1>2, <1>3 DEF JobRecord
  <1>5. Shape(j)
    BY <1>2, <1>4 DEF Shape
  <1>6. Works(i, t, j)
    <2>1. o # Idle
      BY <1>3, IdleFields
    <2>2. GoesOn(i, t, j)
      <3>1. job \in [Instances -> [Threads -> JobRecord]]
        BY <1>3, JobTypes
      <3>2. job' = [job EXCEPT ![i][t] = j]
        BY <1>1, <1>2, <3>1 DEF AfterSend
      <3> QED BY <3>1, <3>2 DEF GoesOn
    <2> QED BY <1>1, <2>1, <2>2 DEF Works, AfterSend
  <1>7. \A r \in Routers : OwedBy(o, i, r) /\ r # o.router => OwedBy(j, i, r)
    BY <1>4 DEF OwedBy
  <1> QED BY <1>1, <1>4, <1>5, <1>6, <1>7

(* The leader's message is what the index says, or is marked as overtaken; *)
(* anybody else's is marked as foreign.                                    *)
LEMMA PublishSendOK ==
    ASSUME IInv, NEW i \in Instances, NEW t \in Threads, PublishSend(i, t)
    PROVE  IInv'
  <1> USE DEF weft
  <1>1. PICK r, fips : r = job[i][t].router /\ fips = job[i][t].fips
    OBVIOUS
  <1>2. TypeOK /\ job[i][t].pc = "send" /\ r \in Routers /\ fips \subseteq FIPs
    BY <1>1, JobTypes DEF IInv, JobsInShape, Shape, PublishSend
  <1>3. PICK j \in JobRecord :
          /\ Shape(j) /\ Works(i, t, j)
          /\ \A x \in Routers : OwedBy(job[i][t], i, x) /\ x # job[i][t].router => OwedBy(j, i, x)
    BY <1>2, AfterSendWorks DEF PublishSend
  <1>4. /\ announced' \in [Routers -> SUBSET FIPs] /\ announced'[r] = fips
        /\ \A x \in Routers : x # r => announced'[x] = announced[x]
    BY <1>1, <1>2 DEF PublishSend, TypeOK
  <1>5. PICK v : v = Verdict(i, r, fips)
    OBVIOUS
  <1>6. v \in Causes /\ Mark({r}, v)
    BY <1>1, <1>5 DEF PublishSend, Verdict, Causes
  <1>7. /\ why' \in [Routers -> Causes] /\ why'[r] = v
        /\ \A x \in Routers : x # r => why'[x] = why[x]
    BY <1>2, <1>6, MarkTyped
  <1>8. TypeOK' /\ JobsInShape' /\ TermsHaveIndex'
    BY <1>2, <1>3, <1>4, <1>7, WorksTyped DEF PublishSend, TypeOK
  <1>9. StaleIsExplained'
    <2>1. ASSUME NEW k \in Instances PROVE Explained(k, r)'
      <3>1. Leads(k)' => Leads(k)
        BY <1>3 DEF Works, Leads
      <3>2. ASSUME Leads(k), v = "none" PROVE k = i /\ fips = Lookup(i, r)
        BY <3>2, <1>5, OneLeads DEF Verdict
      <3>3. Lookup(i, r)' = Lookup(i, r)
        BY <1>2, <1>3, SameLookup DEF Works
      <3> QED BY <3>1, <3>2, <3>3, <1>4, <1>7 DEF Explained
    <2>2. ASSUME NEW k \in Instances, NEW x \in rows, x # r PROVE Explained(k, x)'
      <3>1. x \in Routers
        BY <1>2 DEF TypeOK
      <3> QED BY <3>1, <2>2, <1>1, <1>3, <1>4, <1>7, WorksExplained
    <2>3. rows' = rows
      BY DEF PublishSend
    <2>4. ASSUME NEW k \in Instances, NEW x \in rows' PROVE Explained(k, x)'
      BY <2>1, <2>2, <2>3
    <2> QED BY <1>8, <2>4, AllExplained DEF TypeOK
  <1> QED BY <1>8, <1>9 DEF IInv

(* A message of the leader that is not sent is marked as failed. *)
LEMMA PublishFailsOK ==
    ASSUME IInv, NEW i \in Instances, NEW t \in Threads, PublishFails(i, t)
    PROVE  IInv'
  <1> USE DEF weft
  <1>1. PICK r : r = job[i][t].router
    OBVIOUS
  <1>2. TypeOK /\ job[i][t].pc = "send"
    BY DEF IInv, PublishFails
  <1>3. PICK j \in JobRecord :
          /\ Shape(j) /\ Works(i, t, j)
          /\ \A x \in Routers : OwedBy(job[i][t], i, x) /\ x # job[i][t].router => OwedBy(j, i, x)
    BY <1>2, AfterSendWorks DEF PublishFails
  <1>4. PICK lost : lost = {x \in {r} : Leads(i)}
    OBVIOUS
  <1>5. "failed" \in Causes /\ Mark(lost, "failed")
    BY <1>1, <1>4 DEF PublishFails, Causes
  <1>6. /\ why' \in [Routers -> Causes]
        /\ \A x \in Routers : why'[x] = IF x \in lost THEN "failed" ELSE why[x]
    BY <1>2, <1>5, MarkTyped
  <1>7. TypeOK' /\ JobsInShape' /\ TermsHaveIndex'
    <2>1. troubles' \in 0..MaxTroubles
      BY <1>2, BoundsAssumption DEF PublishFails, TypeOK, Trouble
    <2> QED BY <1>2, <1>3, <1>6, <2>1, WorksTyped DEF PublishFails, TypeOK
  <1>8. StaleIsExplained'
    <2>1. ASSUME NEW k \in Instances, NEW x \in rows' PROVE Explained(k, x)'
      <3>1. x \in Routers /\ x \in rows
        BY <1>2 DEF TypeOK, PublishFails
      <3>2. Leads(i) /\ x = r => why'[x] = "failed"
        BY <3>1, <1>4, <1>6
      <3>3. why'[x] = why[x] \/ why'[x] # "none"
        BY <3>1, <1>6
      <3> QED BY <3>1, <3>2, <3>3, <1>1, <1>3, WorksExplained DEF PublishFails
    <2> QED BY <1>7, <2>1, AllExplained DEF TypeOK
  <1> QED BY <1>7, <1>8 DEF IInv

-----------------------------------------------------------------------------
(* IInv holds initially and survives every step. *)
LEMMA IInvInit == Init => IInv
  <1> SUFFICES ASSUME Init PROVE IInv
    OBVIOUS
  <1>1. /\ job \in [Instances -> [Threads -> JobRecord]]
        /\ \A i \in Instances : job[i] = AllIdle
        /\ \A i \in Instances, t \in Threads : job[i][t] = Idle
    BY AllIdleFields DEF Init
  <1>2. TypeOK
    <2>1. \A i \in Instances, t \in AllLoops : job[i][t] = Idle
      BY <1>1, ThreadsAre
    <2> QED BY <1>1, <2>1, BoundsAssumption DEF Init, TypeOK, JobRecord, Causes
  <1>3. JobsInShape
    BY <1>1, IdleFields DEF JobsInShape
  <1>4. TermsHaveIndex /\ StaleIsExplained
    BY DEF Init, TermsHaveIndex, StaleIsExplained, Leads, InTerm
  <1> QED BY <1>2, <1>3, <1>4 DEF IInv

LEMMA IInvStep == IInv /\ [Next]_vars => IInv'
  <1> SUFFICES ASSUME IInv, [Next]_vars PROVE IInv'
    OBVIOUS
  <1>1. CASE \E f \in FIPs : Change(f)
    BY <1>1, ChangeOK
  <1>2. ASSUME NEW i \in Instances, Process(i) \/ Term(i) \/ Feed(i) PROVE IInv'
    BY <1>2, StartOK, StopOK, AcquireOK, KeyLostOK, TermOverOK, EventOK, TickOK, SeededOK
       DEF Process, Term, Feed
  <1>3. ASSUME NEW i \in Instances, NEW r \in Routers, CreateRouter(i, r) PROVE IInv'
    BY <1>3, CreateRouterOK
  <1>4. ASSUME NEW i \in Instances, NEW t \in Threads, Work(i, t) \/ Failure(i, t) PROVE IInv'
    BY <1>4, CallbackListOK, PublishReadOK, PublishSendOK, ListFailsOK, PublishFailsOK
       DEF Work, Failure
  <1>5. CASE UNCHANGED vars
    <2>1. TypeOK'
      BY <1>5 DEF vars, IInv, TypeOK
    <2>2. JobsInShape' /\ TermsHaveIndex'
      BY <1>5 DEF vars, IInv, JobsInShape, Shape, TermsHaveIndex
    <2>3. ASSUME NEW i \in Instances, NEW r \in rows' PROVE Explained(i, r)'
      BY <1>5, LeftAlone DEF vars
    <2> QED BY <2>1, <2>2, <2>3, AllExplained DEF IInv, TypeOK
  <1> QED BY <1>1, <1>2, <1>3, <1>4, <1>5 DEF Next

LEMMA IInvAlways == Spec => []IInv
  BY IInvInit, IInvStep, PTL DEF Spec

(* The stores and the processes keep their types, a process that is down   *)
(* runs no thread and holds no term, and a loop is at work only where      *)
(* startFIPLoops has put an index into the publisher's slot.               *)
THEOREM TypeCorrect == Spec => []TypeOK
  <1>1. IInv => TypeOK
    BY DEF IInv
  <1> QED BY IInvAlways, <1>1, PTL

(* Whatever the interleaving of the subscriber, the poller, CreateRouter,  *)
(* the resync at boot and other instances, a router's announce set differs *)
(* from the leader's lookup only while the leader owes it a publish, or    *)
(* for one of the named reasons: no callback is lost between the index and *)
(* republishRoutersOnNetworkChange, and no router of a listing is skipped. *)
THEOREM StaleExplained == Spec => []StaleIsExplained
  <1>1. IInv => StaleIsExplained
    BY DEF IInv
  <1> QED BY IInvAlways, <1>1, PTL

-----------------------------------------------------------------------------
(* What AnnouncementsConverge asks for, without the fairness that leads    *)
(* there.                                                                  *)

(* A router announces what weft has active on its networks. *)
Exact(r) == announced[r] = OnNetworksOf(r, truth)

(* i leads, its index is weft's table, and no lookup it has in hand is     *)
(* older.                                                                  *)
Current(i) ==
    /\ Leads(i) /\ index[i] = truth
    /\ \A t \in Threads : job[i][t].pc = "send" => job[i][t].fips = Lookup(i, job[i][t].router)

(* Once the leader's index is weft's table and a router is owed nothing,   *)
(* the router announces exactly what weft has active on its networks,      *)
(* unless one of the named reasons stands against it.                      *)
THEOREM NothingOwedIsExact ==
    Spec => [](\A i \in Instances, r \in rows :
                 (Leads(i) /\ index[i] = truth /\ ~Owed(i, r) /\ why[r] = "none") => Exact(r))
  <1>1. IInv => \A i \in Instances, r \in rows :
                 (Leads(i) /\ index[i] = truth /\ ~Owed(i, r) /\ why[r] = "none") => Exact(r)
    <2> SUFFICES ASSUME IInv, NEW i \in Instances, NEW r \in rows, Leads(i), index[i] = truth,
                        ~Owed(i, r), why[r] = "none"
                 PROVE  Exact(r)
      OBVIOUS
    <2>1. Lookup(i, r) = OnNetworksOf(r, truth)
      BY DEF IInv, TermsHaveIndex, Leads, Lookup
    <2> QED BY <2>1 DEF IInv, StaleIsExplained, Exact
  <1> QED BY IInvAlways, <1>1, PTL

(* While there is a leader, a thread comes to hold a lookup result only by *)
(* reading it.                                                             *)
LEMMA LookupsAreRead ==
    ASSUME IInv, Next, holder # None, NEW i \in Instances, NEW t \in Threads, job'[i][t].pc = "send"
    PROVE  \/ job'[i][t] = job[i][t]
           \/ job'[i][t].fips = Lookup(i, job'[i][t].router)
  <1>1. job \in [Instances -> [Threads -> JobRecord]] /\ job[i][t] \in JobRecord
    BY JobTypes DEF IInv
  <1>2. CASE \E f \in FIPs : Change(f)
    BY <1>2 DEF Change
  <1>3. ASSUME NEW k \in Instances, Term(k) \/ Seeded(k) PROVE job'[i][t] = job[i][t]
    BY <1>3 DEF Term, Acquire, KeyLost, TermOver, Seeded
  <1>4. ASSUME NEW k \in Instances, Process(k) PROVE job'[i][t] = job[i][t]
    <2>1. CASE Stop(k)
      <3>1. job'[i] = AllIdle \/ job'[i] = job[i]
        BY <1>1, <2>1 DEF Stop
      <3> QED BY <3>1, AllIdleFields, IdleFields
    <2>2. CASE Start(k)
      <3>1. \/ job' = job
            \/ job' = [job EXCEPT ![k][Rpc].pc = "next", ![k][Rpc].todo = rows]
        BY <2>2 DEF Start
      <3>2. CASE i = k /\ t = Rpc
        BY <1>1, <3>1, <3>2 DEF JobRecord
      <3>3. CASE ~(i = k /\ t = Rpc)
        BY <1>1, <3>1, <3>3
      <3> QED BY <3>2, <3>3
    <2> QED BY <1>4, <2>1, <2>2 DEF Process
  <1>5. ASSUME NEW k \in Instances, NEW r \in Routers, CreateRouter(k, r)
        PROVE  job'[i][t] = job[i][t]
    BY <1>1, <1>5 DEF CreateRouter, JobRecord
  <1>6. ASSUME NEW k \in Instances, NEW f \in FIPs, Event(k, f)
        PROVE  job'[i][t] = job[i][t]
    BY <1>1, <1>6, IdleFields DEF Event, JobRecord
  <1>7. ASSUME NEW k \in Instances, Tick(k) PROVE job'[i][t] = job[i][t]
    BY <1>1, <1>7, IdleFields DEF Tick, JobRecord
  <1>8. ASSUME NEW k \in Instances, NEW s \in Threads, NEW n \in Networks,
               CallbackList(k, s, n) \/ ListFails(k, s, n)
        PROVE  job'[i][t] = job[i][t]
    <2>1. CASE CallbackList(k, s, n)
      BY <1>1, <2>1 DEF CallbackList, JobRecord
    <2>2. CASE ListFails(k, s, n)
      BY <1>1, <2>2 DEF ListFails, JobRecord
    <2> QED BY <1>8, <2>1, <2>2
  <1>9. ASSUME NEW k \in Instances, NEW s \in Threads, NEW r \in Routers, PublishRead(k, s, r)
        PROVE  \/ job'[i][t] = job[i][t]
               \/ job'[i][t].fips = Lookup(i, job'[i][t].router)
    <2>1. CASE i = k /\ t = s
      BY <1>1, <1>9, <2>1 DEF PublishRead, JobRecord
    <2>2. CASE ~(i = k /\ t = s)
      BY <1>1, <1>9, <2>2 DEF PublishRead
    <2> QED BY <2>1, <2>2
  <1>10. ASSUME NEW k \in Instances, NEW s \in Threads, PublishSend(k, s) \/ PublishFails(k, s)
         PROVE  job'[i][t] = job[i][t]
    <2>1. AfterSend(k, s)
      BY <1>10 DEF PublishSend, PublishFails
    <2> QED BY <1>1, <2>1 DEF AfterSend, JobRecord
  <1> QED BY <1>2, <1>3, <1>4, <1>5, <1>6, <1>7, <1>8, <1>9, <1>10
        DEF Next, Feed, Work, Failure

(* A current leader stays current while it leads and weft does not change. *)
LEMMA CurrentStays ==
    ASSUME IInv, Next, NEW i \in Instances, Current(i), Leads(i)', truth' = truth
    PROVE  Current(i)'
  <1>1. TypeOK /\ holder = i /\ term[i] \in InTerm /\ slot[i] = "index" /\ index[i] = truth
    BY DEF IInv, TermsHaveIndex, Current, Leads
  <1>2. index'[i] = truth /\ slot'[i] = slot[i]
    <2>1. CASE \E f \in FIPs : Change(f)
      BY <2>1, <1>1 DEF Change, procs
    <2>2. ASSUME NEW k \in Instances, Process(k) \/ Term(k)
          PROVE  index'[i] = truth /\ slot'[i] = slot[i]
      <3>1. CASE Stop(k)
        <4>1. k # i
          BY <3>1, <1>1 DEF TypeOK, Stop, Leads, InTerm
        <4> QED BY <3>1, <4>1, <1>1 DEF Stop, TypeOK
      <3>2. ~Acquire(k)
        BY <1>1, NoneAssumption DEF Acquire
      <3> QED BY <2>2, <3>1, <3>2, <1>1 DEF Process, Term, Start, KeyLost, TermOver, procs
    <2>3. ASSUME NEW k \in Instances, Feed(k)
          PROVE  index'[i] = truth /\ slot'[i] = slot[i]
      <3>1. ASSUME NEW f \in FIPs, Event(k, f) PROVE index'[i] = truth /\ slot'[i] = slot[i]
        BY <3>1, <1>1 DEF Event, TypeOK
      <3>2. CASE Tick(k) \/ Seeded(k)
        BY <3>2, <1>1 DEF Tick, Listing, Seeded, TypeOK
      <3> QED BY <2>3, <3>1, <3>2 DEF Feed
    <2>4. ASSUME NEW k \in Instances, NEW r \in Routers, CreateRouter(k, r)
          PROVE  index'[i] = truth /\ slot'[i] = slot[i]
      BY <2>4, <1>1 DEF CreateRouter, procs
    <2>5. ASSUME NEW k \in Instances, NEW t \in Threads, Work(k, t) \/ Failure(k, t)
          PROVE  index'[i] = truth /\ slot'[i] = slot[i]
      BY <2>5, <1>1 DEF Work, Failure, CallbackList, PublishRead, PublishSend, ListFails,
                        PublishFails, procs
    <2> QED BY <2>1, <2>2, <2>3, <2>4, <2>5 DEF Next
  <1>3. \A r : Lookup(i, r)' = Lookup(i, r)
    BY <1>1, <1>2 DEF Lookup, OnNetworksOf
  <1>4. ASSUME NEW t \in Threads, job'[i][t].pc = "send"
        PROVE  job'[i][t].fips = Lookup(i, job'[i][t].router)
    BY <1>1, <1>4, NoneAssumption, LookupsAreRead DEF Current
  <1> QED BY <1>2, <1>3, <1>4 DEF Current

(* Only a message changes an announce set, and a current leader's is what  *)
(* weft has.                                                               *)
LEMMA CurrentAnnounces ==
    ASSUME IInv, Next, NEW i \in Instances, Current(i), truth' = truth,
           NEW r \in Routers, Exact(r)
    PROVE  Exact(r)' \/ why'[r] = "foreign"
  <1>1. TypeOK
    BY DEF IInv
  <1>2. ASSUME NEW k \in Instances, NEW t \in Threads, PublishSend(k, t)
        PROVE  announced'[r] = OnNetworksOf(r, truth) \/ why'[r] = "foreign"
    <2>1. PICK x, fips : x = job[k][t].router /\ fips = job[k][t].fips
      OBVIOUS
    <2>2. /\ announced' = [announced EXCEPT ![x] = fips]
          /\ why' = [y \in Routers |-> IF y \in {x} THEN Verdict(k, x, fips) ELSE why[y]]
      BY <1>2, <2>1 DEF PublishSend, Mark
    <2>3. CASE r # x
      BY <1>1, <2>2, <2>3 DEF TypeOK, Exact
    <2>4. CASE r = x /\ k = i
      <3>1. fips = Lookup(i, r)
        BY <1>2, <2>1, <2>4 DEF Current, PublishSend
      <3>2. Lookup(i, r) = OnNetworksOf(r, truth)
        BY DEF Current, IInv, TermsHaveIndex, Leads, Lookup
      <3> QED BY <1>1, <2>2, <2>4, <3>1, <3>2 DEF TypeOK
    <2>5. CASE r = x /\ k # i
      <3>1. ~Leads(k)
        BY <2>5, OneLeads DEF Current
      <3> QED BY <2>2, <2>5, <3>1 DEF Verdict
    <2> QED BY <2>3, <2>4, <2>5
  <1>3. CASE announced' = announced
    BY <1>3 DEF Exact, OnNetworksOf
  <1>4. announced' = announced \/ \E k \in Instances, t \in Threads : PublishSend(k, t)
    <2>1. ASSUME NEW k \in Instances, Process(k) \/ Term(k) \/ Feed(k)
          PROVE  announced' = announced
      BY <2>1 DEF Process, Start, Stop, Term, Acquire, KeyLost, TermOver, Feed, Event, Tick,
                  Seeded
    <2>2. ASSUME NEW k \in Instances, NEW t \in Threads, Work(k, t) \/ Failure(k, t)
          PROVE  announced' = announced \/ PublishSend(k, t)
      BY <2>2 DEF Work, Failure, CallbackList, ListFails, PublishRead, PublishFails
    <2> QED BY <2>1, <2>2 DEF Next, Change, CreateRouter
  <1> QED BY <1>2, <1>3, <1>4 DEF Exact, OnNetworksOf

(* From then on only weft, the loss of the lead or a message of another    *)
(* instance makes a router's announce set wrong: no event, tick, callback  *)
(* or CreateRouter of the leader itself does, in whatever order they run,  *)
(* nor does a failure.                                                     *)
THEOREM OnlyOthersDisturb ==
    Spec => [][\A i \in Instances : Current(i) /\ Leads(i)' /\ truth' = truth =>
                 /\ Current(i)'
                 /\ \A r \in Routers : Exact(r) => Exact(r)' \/ why'[r] = "foreign"]_vars
  <1>1. IInv /\ [Next]_vars =>
          [\A i \in Instances : Current(i) /\ Leads(i)' /\ truth' = truth =>
             /\ Current(i)'
             /\ \A r \in Routers : Exact(r) => Exact(r)' \/ why'[r] = "foreign"]_vars
    <2> SUFFICES ASSUME IInv, Next, NEW i \in Instances, Current(i), Leads(i)', truth' = truth
                 PROVE  /\ Current(i)'
                        /\ \A r \in Routers : Exact(r) => Exact(r)' \/ why'[r] = "foreign"
      OBVIOUS
    <2> QED BY CurrentStays, CurrentAnnounces
  <1> QED BY IInvAlways, <1>1, PTL DEF Spec
=============================================================================
