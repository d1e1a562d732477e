------------------------------ MODULE Republish ------------------------------
(***************************************************************************)
(* From the floating-IP index to the routers' announce sets: the callback  *)
(* republishRoutersOnNetworkChange, the boot resync and CreateRouter, all  *)
(* publishing through the lookup slot of one publisher per process         *)
(* (cmd/weft-network/main.go, internal/publisher, internal/server).        *)
(*                                                                         *)
(* Each instance has a thread Rpc (ResyncRouters at boot, then             *)
(* CreateRouter), and, while it leads, Sub and Poll, the subscriber and    *)
(* the poller.  Nothing waits for the loops of an ended term: if they are  *)
(* still publishing when the instance leads again, they go on beside the   *)
(* new ones.  A publish is two steps: StateFor reads the slot, and the     *)
(* message goes out later.                                                 *)
(*                                                                         *)
(* The loops below the callback are FIPSync's: an event, or a listing,     *)
(* brings the index up to weft's table and owes the callback the networks  *)
(* concerned; stale events and listings are left to that module.  The      *)
(* election is LeaderElection's: one holder of the key, which may learn    *)
(* late that it lost it.  Deletion of routers is RouterControl's, where    *)
(* the callback is again.                                                  *)
(*                                                                         *)
(* External: weft's table (truth), etcd (rows, holder), NATS (announced:   *)
(* the floating IPs in the last message on a router's subject).  A router  *)
(* is one with BGP state to publish; its own prefixes never change.  The   *)
(* swap of the slot is taken to work, as its comment says it does;         *)
(* LookupSlot shows what sync/atomic makes of it.                          *)
(***************************************************************************)
EXTENDS Naturals, FiniteSets

CONSTANTS
    FIPs,         \* floating IPs
    Networks,     \* tenant networks
    Home,         \* the network of each floating IP
    Routers,      \* router UUIDs
    Stitches,     \* the networks of each router
    Instances,    \* weft-network processes
    None,         \* no instance, no router
    MaxChanges,   \* bound on the changes weft makes
    MaxLosses,    \* bound on leases that end during a term
    MaxTroubles   \* bound on failures and stops

ASSUME LayoutAssumption ==
    Home \in [FIPs -> Networks] /\ Stitches \in [Routers -> SUBSET Networks]

ASSUME NoneAssumption == None \notin Instances /\ None \notin Routers

ASSUME BoundsAssumption == MaxChanges \in Nat /\ MaxLosses \in Nat /\ MaxTroubles \in Nat

InTerm == {"seed", "seeding", "live"}

(* The threads of an instance.  A loop numbered k > 0 is what is left of   *)
(* that loop of a term which ended before the k-th loss.                   *)
Sub  == <<"sub", 0>>
Poll == <<"poll", 0>>
Rpc  == <<"rpc", 0>>

Loops    == {Sub, Poll}
AllLoops == {"sub", "poll"} \X (0..MaxLosses)
OldLoops == {"sub", "poll"} \X (1..MaxLosses)
Threads  == AllLoops \union {Rpc}

VARIABLES
    truth,      \* weft: the active floating IPs
    news,       \* NATS: per instance, those an event is on its way about
    changes,    \* changes weft has made
    rows,       \* etcd: the routers in the store
    announced,  \* NATS: per router, the floating IPs last published
    holder,     \* etcd: the instance whose campaign key is first
    losses,     \* leases that ended during a term
    phase,      \* per instance: "down", "boot" or "serving"
    term,       \* per instance: "seed", "seeding" or "live" while leaderCtx
                \* lasts, "deaf" if the term has no loops, else "none"
    slot,       \* per instance: the publisher's lookup, "noop" or "index"
    index,      \* per instance: the active floating IPs of its last index
    job,        \* per instance and thread: what it is publishing
    troubles,   \* things that went wrong
    why         \* history: per router, how its announce set may have come to
                \* differ from what the leader's index says

weft == <<truth, changes, news>>
procs == <<phase, term, slot, index>>
vars == <<truth, news, changes, rows, announced, holder, losses, phase, term, slot, index, job, troubles, why>>

(* A thread's next step, the networks it owes the callback, the routers    *)
(* left of the listing, and the router and lookup result in hand.          *)
Idle == [pc |-> "idle", owes |-> {}, todo |-> {}, router |-> None, fips |-> {}]

AllIdle == [t \in Threads |-> Idle]

Init ==
    /\ truth \in SUBSET FIPs /\ changes = 0
    /\ news = [i \in Instances |-> {}]
    /\ rows \in SUBSET Routers
    /\ announced = [r \in Routers |-> {}]
    /\ holder = None /\ losses = 0
    /\ phase = [i \in Instances |-> "down"]
    /\ term = [i \in Instances |-> "none"]
    /\ slot = [i \in Instances |-> "noop"]
    /\ index = [i \in Instances |-> {}]
    /\ job = [i \in Instances |-> AllIdle]
    /\ troubles = 0
    /\ why = [r \in Routers |-> "inherited"]

-----------------------------------------------------------------------------
(* Mutant: only a router's sole network is compared. *)
routerStitchesOnly(r, n) == Stitches[r] = {n}

routerStitchesNetwork(r, n) == n \in Stitches[r]

(* The floating IPs of a table on r's networks. *)
OnNetworksOf(r, fips) == {f \in fips : Home[f] \in Stitches[r]}

(* fipLookup().ActiveFIPsInNetworks(r.Networks), at this moment. *)
Lookup(i, r) == IF slot[i] = "index" THEN OnNetworksOf(r, index[i]) ELSE {}

(* i leads, knows it, and etcd agrees. *)
Leads(i) == holder = i /\ term[i] \in InTerm

(* A router is marked as set by somebody else than the leader, or as due   *)
(* to a failure of the leader.                                             *)
Mark(rs, cause) == why' = [r \in Routers |-> IF r \in rs THEN cause ELSE why[r]]

(* What a message of i leaves: the leader's own is right unless the index  *)
(* moved between lookup and message.                                       *)
Verdict(i, r, fips) ==
    IF ~Leads(i) THEN "foreign"
    ELSE IF fips = Lookup(i, r) THEN "none"
    ELSE "overtaken"

Trouble == troubles < MaxTroubles /\ troubles' = troubles + 1

-----------------------------------------------------------------------------
(* weft (external): a floating IP becomes active or stops being so, and    *)
(* every live subscription gets an event, which may be late or never       *)
(* arrive.                                                                 *)
Change(f) ==
    /\ changes < MaxChanges
    /\ changes' = changes + 1
    /\ truth' = IF f \in truth THEN truth \ {f} ELSE truth \union {f}
    /\ news' = [i \in Instances |-> news[i] \union {g \in {f} : term[i] = "live"}]
    /\ UNCHANGED <<rows, announced, holder, losses, procs, job, troubles, why>>

-----------------------------------------------------------------------------
(* The process *)

(* NewNATS seeds the slot and, before anything is served, ResyncRouters    *)
(* lists the routers; a listing that fails is logged.                      *)
Start(i) ==
    /\ phase[i] = "down"
    /\ \/ /\ rows # {}
          /\ phase' = [phase EXCEPT ![i] = "boot"]
          /\ job' = [job EXCEPT ![i][Rpc].pc = "next", ![i][Rpc].todo = rows]
          /\ UNCHANGED troubles
       \/ /\ (rows = {} /\ UNCHANGED troubles) \/ Trouble
          /\ phase' = [phase EXCEPT ![i] = "serving"]
          /\ UNCHANGED job
    /\ UNCHANGED <<weft, rows, announced, holder, losses, term, slot, index, why>>

(* CreateRouter: the row is put, then published. *)
CreateRouter(i, r) ==
    /\ phase[i] = "serving" /\ job[i][Rpc] = Idle /\ r \notin rows
    /\ rows' = rows \union {r}
    /\ job' = [job EXCEPT ![i][Rpc].pc = "next", ![i][Rpc].todo = {r}]
    /\ Mark({r}, IF Leads(i) THEN "none" ELSE "foreign")
    /\ UNCHANGED <<weft, announced, holder, losses, procs, troubles>>

(* Mutant: the threads of a stopped process go on. *)
StopMainOnly(i) ==
    /\ Trouble
    /\ phase[i] # "down"
    /\ phase' = [phase EXCEPT ![i] = "down"]
    /\ term' = [term EXCEPT ![i] = "none"]
    /\ slot' = [slot EXCEPT ![i] = "noop"]
    /\ index' = [index EXCEPT ![i] = {}]
    /\ news' = [news EXCEPT ![i] = {}]
    /\ UNCHANGED <<truth, changes, rows, announced, holder, losses, job, why>>

Stop(i) ==
    /\ Trouble
    /\ phase[i] # "down"
    /\ phase' = [phase EXCEPT ![i] = "down"]
    /\ term' = [term EXCEPT ![i] = "none"]
    /\ slot' = [slot EXCEPT ![i] = "noop"]
    /\ index' = [index EXCEPT ![i] = {}]
    /\ news' = [news EXCEPT ![i] = {}]
    /\ job' = [job EXCEPT ![i] = AllIdle]
    /\ UNCHANGED <<truth, changes, rows, announced, holder, losses, why>>

-----------------------------------------------------------------------------
(* Terms *)

(* What is left of a loop whose leaderCtx is cancelled: the callbacks it   *)
(* owes would fail to list the routers.                                    *)
Leftover(j) == [j EXCEPT !.owes = {}]

(* The threads of i when a new term begins: there has been a loss since    *)
(* the last one.                                                           *)
NewLoops(i) ==
    [t \in Threads |-> IF t \in Loops THEN Idle
                       ELSE IF t[1] # "rpc" /\ t[2] = losses THEN Leftover(job[i][<<t[1], 0>>])
                       ELSE job[i][t]]

(* startFIPLoops: a fresh index becomes the lookup, the seed follows.  It  *)
(* gives up, for the whole term, if it cannot connect to NATS.             *)
Acquire(i) ==
    /\ holder = None /\ phase[i] = "serving" /\ term[i] = "none"
    /\ holder' = i
    /\ job' = [job EXCEPT ![i] = NewLoops(i)]
    /\ \/ /\ term' = [term EXCEPT ![i] = "seed"]
          /\ slot' = [slot EXCEPT ![i] = "index"]
          /\ index' = [index EXCEPT ![i] = {}]
          /\ UNCHANGED troubles
       \/ /\ Trouble
          /\ term' = [term EXCEPT ![i] = "deaf"]
          /\ UNCHANGED <<slot, index>>
    /\ Mark(Routers, "inherited")
    /\ UNCHANGED <<weft, rows, announced, losses, phase>>

(* The lease ends: nobody refreshes it, or etcd cannot be reached. *)
KeyLost(i) ==
    /\ holder = i
    /\ \/ term[i] = "none" /\ UNCHANGED losses
       \/ term[i] # "none" /\ losses < MaxLosses /\ losses' = losses + 1
    /\ holder' = None
    /\ UNCHANGED <<weft, rows, announced, procs, job, troubles, why>>

(* The instance finds out: leaderCtx is cancelled.  The slot stays.  *)
TermOver(i) ==
    /\ holder # i /\ term[i] \in InTerm \union {"deaf"}
    /\ term' = [term EXCEPT ![i] = "none"]
    /\ news' = [news EXCEPT ![i] = {}]
    /\ UNCHANGED <<truth, changes, rows, announced, holder, losses, phase, slot, index, job, troubles, why>>

-----------------------------------------------------------------------------
(* The feeders *)

(* Subscriber.handle: an event about f. *)
Event(i, f) ==
    /\ f \in news[i] /\ job[i][Sub] = Idle
    /\ news' = [news EXCEPT ![i] = @ \ {f}]
    /\ index' = [index EXCEPT ![i] = (@ \ {f}) \union ({f} \intersect truth)]
    /\ job' = [job EXCEPT ![i][Sub].owes = {Home[f]}]
    /\ UNCHANGED <<truth, changes, rows, announced, holder, losses, phase, term, slot, troubles, why>>

(* The networks on which two tables differ. *)
Differing(s, t) == {Home[f] : f \in (s \ t) \union (t \ s)}

(* Mutant: a listing adds to the index and removes nothing. *)
ListingAddsOnly(i) == index[i] \union truth

Listing(i) == truth

(* Poller.tick, of the seed or a later one: the listing replaces the index. *)
Tick(i) ==
    /\ term[i] \in {"seed", "live"} /\ job[i][Poll] = Idle
    /\ index' = [index EXCEPT ![i] = Listing(i)]
    /\ job' = [job EXCEPT ![i][Poll].owes = Differing(index[i], Listing(i))]
    /\ term' = [term EXCEPT ![i] = IF @ = "seed" THEN "seeding" ELSE @]
    /\ UNCHANGED <<weft, rows, announced, holder, losses, phase, slot, troubles, why>>

(* The seed's callbacks have returned, or its listing failed: the          *)
(* subscriber starts, with whatever the index holds.                       *)
Seeded(i) ==
    /\ \/ term[i] = "seeding" /\ job[i][Poll] = Idle /\ UNCHANGED troubles
       \/ term[i] = "seed" /\ Trouble
    /\ term' = [term EXCEPT ![i] = "live"]
    /\ UNCHANGED <<weft, rows, announced, holder, losses, phase, slot, index, job, why>>

-----------------------------------------------------------------------------
(* republishRoutersOnNetworkChange *)

(* List: the store is read under leaderCtx, so a cancelled one ends the    *)
(* callback.                                                               *)
CallbackList(i, t, n) ==
    LET found == {r \in rows : term[i] \in InTerm /\ routerStitchesNetwork(r, n)}
    IN /\ t \in Loops /\ job[i][t].pc = "idle" /\ n \in job[i][t].owes
       /\ job' = [job EXCEPT ![i][t].owes = @ \ {n},
                             ![i][t].pc = IF found = {} THEN "idle" ELSE "next",
                             ![i][t].todo = found]
       /\ UNCHANGED <<weft, rows, announced, holder, losses, procs, troubles, why>>

ListFails(i, t, n) ==
    /\ Trouble
    /\ t \in Loops /\ job[i][t].pc = "idle" /\ n \in job[i][t].owes
    /\ job' = [job EXCEPT ![i][t].owes = @ \ {n}]
    /\ Mark({r \in rows : Leads(i) /\ routerStitchesNetwork(r, n)}, "failed")
    /\ UNCHANGED <<weft, rows, announced, holder, losses, procs>>

(* Publish, up to StateFor: the lookup is read ... *)
PublishRead(i, t, r) ==
    /\ job[i][t].pc = "next" /\ r \in job[i][t].todo
    /\ job' = [job EXCEPT ![i][t].pc = "send", ![i][t].todo = @ \ {r},
                          ![i][t].router = r, ![i][t].fips = Lookup(i, r)]
    /\ UNCHANGED <<weft, rows, announced, holder, losses, procs, troubles, why>>

(* On to the next router of the listing; after the last one the callback   *)
(* or the handler returns, and a boot is over.                             *)
AfterSend(i, t) ==
    LET left == job[i][t].todo
    IN /\ job' = [job EXCEPT ![i][t] = [@ EXCEPT !.pc = IF left = {} THEN "idle" ELSE "next",
                                                 !.router = None, !.fips = {}]]
       /\ phase' = IF left = {} THEN [phase EXCEPT ![i] = "serving"] ELSE phase

(* ... and the message sent.  Whether the flush then fails, as it does     *)
(* under a cancelled context, makes no difference to the caller.           *)
PublishSend(i, t) ==
    LET r == job[i][t].router
    IN /\ job[i][t].pc = "send"
       /\ announced' = [announced EXCEPT ![r] = job[i][t].fips]
       /\ Mark({r}, Verdict(i, r, job[i][t].fips))
       /\ AfterSend(i, t)
       /\ UNCHANGED <<weft, rows, holder, losses, term, slot, index, troubles>>

(* The message is not sent: logged, and not tried again. *)
PublishFails(i, t) ==
    /\ Trouble
    /\ job[i][t].pc = "send"
    /\ Mark({r \in {job[i][t].router} : Leads(i)}, "failed")
    /\ AfterSend(i, t)
    /\ UNCHANGED <<weft, rows, announced, holder, losses, term, slot, index>>

-----------------------------------------------------------------------------
Work(i, t) == \/ \E n \in Networks : CallbackList(i, t, n)
              \/ \E r \in Routers : PublishRead(i, t, r)
              \/ PublishSend(i, t)

Failure(i, t) == (\E n \in Networks : ListFails(i, t, n)) \/ PublishFails(i, t)

Process(i) == Start(i) \/ Stop(i)

Term(i) == Acquire(i) \/ KeyLost(i) \/ TermOver(i)

Feed(i) == (\E f \in FIPs : Event(i, f)) \/ Tick(i) \/ Seeded(i)

Next == \/ \E f \in FIPs : Change(f)
        \/ \E i \in Instances : \/ Process(i) \/ Term(i) \/ Feed(i)
                                 \/ \E r \in Routers : CreateRouter(i, r)
                                 \/ \E t \in Threads : Work(i, t) \/ Failure(i, t)

Spec == Init /\ [][Next]_vars

(* Threads are scheduled and their requests answered, a process boots and  *)
(* is started again, the ticker fires, the election elects, a lease nobody *)
(* refreshes ends and its former holder finds out.  Nothing is assumed of  *)
(* weft, of events or of clients.                                          *)
FairSpec ==
    /\ Spec
    /\ WF_vars(\E i \in Instances : Acquire(i))
    /\ \A i \in Instances :
         /\ WF_vars(Start(i) \/ Work(i, Rpc))
         /\ WF_vars(Work(i, Sub))
         /\ WF_vars(\E t \in OldLoops : Work(i, t))
         /\ WF_vars(Tick(i) \/ Seeded(i) \/ Work(i, Poll))
         /\ WF_vars((term[i] = "none" /\ KeyLost(i)) \/ TermOver(i))

-----------------------------------------------------------------------------
(* Properties *)

Causes == {"none", "foreign", "overtaken", "failed", "inherited"}

(* The types of the stores' and the processes' state: a process that is    *)
(* down runs no thread, and only a term puts the loops to work.            *)
TypeOK ==
    /\ truth \subseteq FIPs /\ news \in [Instances -> SUBSET FIPs]
    /\ changes \in 0..MaxChanges /\ losses \in 0..MaxLosses /\ troubles \in 0..MaxTroubles
    /\ rows \subseteq Routers /\ announced \in [Routers -> SUBSET FIPs]
    /\ holder \in Instances \union {None}
    /\ phase \in [Instances -> {"down", "boot", "serving"}]
    /\ term \in [Instances -> InTerm \union {"none", "deaf"}]
    /\ slot \in [Instances -> {"noop", "index"}] /\ index \in [Instances -> SUBSET FIPs]
    /\ job \in [Instances -> [Threads -> [pc : {"idle", "next", "send"}, owes : SUBSET Networks,
                                          todo : SUBSET Routers, router : Routers \union {None},
                                          fips : SUBSET FIPs]]]
    /\ \A i \in Instances : phase[i] = "down" => job[i] = AllIdle /\ term[i] = "none"
    /\ \A i \in Instances, t \in AllLoops : job[i][t] # Idle => slot[i] = "index"
    /\ why \in [Routers -> Causes]

(* A thread of i has yet to publish r, from a lookup still to come or from *)
(* one that is current.                                                    *)
Owed(i, r) ==
    \E t \in Threads :
        \/ Stitches[r] \intersect job[i][t].owes # {}
        \/ r \in job[i][t].todo
        \/ job[i][t].router = r /\ job[i][t].fips = Lookup(i, r)

(* Whatever the interleaving of the loops, of CreateRouter and of other    *)
(* instances, a router's announce set differs from the leader's index only *)
(* while a publish is owed, or for a reason that is named: the last message *)
(* came from another instance or overtook a newer one, a request failed,   *)
(* or nothing has touched the router's networks since the term began.      *)
StaleIsExplained ==
    \A i \in Instances, r \in rows :
        (Leads(i) /\ ~Owed(i, r) /\ announced[r] # Lookup(i, r)) => why[r] # "none"

(* As far as FIPLookup's promise holds: in the end every router, unless    *)
(* its last word is one of those, announces exactly what weft has active   *)
(* on its networks.                                                        *)
AnnouncementsConverge ==
    <>[](\A i \in Instances, r \in rows :
            (Leads(i) /\ why[r] = "none") => announced[r] = OnNetworksOf(r, truth))

(* publisher.go:105-108, FIPLookup is consumed "on every Publish so the    *)
(* resulting BGP announce set tracks live mappings": in the end every      *)
(* router announces exactly what weft has active on its networks.          *)
AnnouncementsTrackWeft ==
    <>[](\A i \in Instances, r \in rows : Leads(i) => announced[r] = OnNetworksOf(r, truth))
=============================================================================
